------------------------------- MODULE JsonText -------------------------------
(***************************************************************************)
(* The messages the device publishes, from LiveBooster_json_api.c, which     *)
(* prints pieces of JSON at the end of a buffer of fixed size, and           *)
(* LiveBooster_msg_encode.c, which calls it, to the size check of            *)
(* MQTTSerialize_publish.                                                   *)
(*                                                                         *)
(* snprintf cuts what does not fit and returns the length it would have had; *)
(* most functions only look whether that is negative.  A text is a sequence  *)
(* of symbols that count as one character each: the punctuation, with "brace" *)
(* for { and "array" for [, "n", a name with its colon, "v", the first         *)
(* character of a value, and "x", another one.                               *)
(***************************************************************************)
EXTENDS Naturals, Sequences, SequencesExt

CONSTANTS
  BufSize,       (* LB_JSON_BUF_SZ, 1024                                     *)
  PayloadRoom,   (* the payload a packet of MQTT_DEFAULT_SEND_SIZE can carry *)
  MaxItems,      (* bound: values, parameters or resources in a message      *)
  MaxDim,        (* bound: elements of an array                              *)
  MaxWidth       (* bound: characters of a value                             *)

(* 260 bytes with the header and the topic, against 1024.                    *)
ASSUME SizesAssumption ==
  /\ {BufSize, PayloadRoom, MaxItems, MaxDim, MaxWidth} \subseteq Nat \ {0}
  /\ PayloadRoom + 3 < BufSize

VARIABLES
  calls,   (* the calls the encoder has yet to make                          *)
  text,    (* the string in the buffer                                       *)
  meant,   (* what it would be in a buffer without end                       *)
  past,    (* characters written behind the buffer                           *)
  stage    (* "encoding", "failed", "done", "sent" or "refused"              *)

vars == <<calls, text, meant, past, stage>>

Symbols == {"brace", "endbrace", "array", "endarray", "comma", "n", "v", "x"}
Call(op) == [op |-> op, width |-> 1, dim |-> 1]
Wide(op, w) == [Call(op) EXCEPT !.width = w]
Value(w) == [i \in 1 .. w |-> IF i = 1 THEN "v" ELSE "x"]

(* Mutant: a text that does not fit fills the buffer, without a zero behind.  *)
CutUnended(t) == SubSeq(t, 1, IF Len(t) < BufSize THEN Len(t) ELSE BufSize)

Cut(t) == SubSeq(t, 1, IF Len(t) < BufSize THEN Len(t) ELSE BufSize - 1)
Room(t) == BufSize - Len(t)

(* Mutant: the comma behind the last element stays.                           *)
KeepComma(t) == t

DropComma(t) == IF Last(t) = "comma" THEN Front(t) ELSE t
-----------------------------------------------------------------------------
(* What each function of LiveBooster_json_api.c makes of the text t.          *)
BeginText(t) == <<"brace">>
BeginSectionText(t) == <<"brace", "n", "brace">>
SectionStartText(t) == t \o <<"n", "brace">>
SectionEndText(t) == DropComma(t) \o <<"endbrace", "comma">>
EndSectionText(t) == DropComma(t) \o <<"endbrace", "endbrace">>
EndText(t) == DropComma(t) \o <<"endbrace">>
NameValueText(t, w) == t \o <<"n">> \o Value(w) \o <<"comma">>
NameArrayText(t, w) == t \o <<"n", "array">> \o Value(w) \o <<"endarray", "comma">>
ParamText(t, w) ==
  t \o <<"n", "brace", "n", "v", "comma", "n">> \o Value(w) \o <<"endbrace", "comma">>
Elements(dim, w) ==
  LET elements[i \in 0 .. dim] ==
        IF i = 0 THEN <<>> ELSE elements[i - 1] \o Value(w) \o <<"comma">>
  IN elements[dim]
ItemText(t, dim, w) ==
  t \o <<"n">> \o (IF dim = 1 THEN Elements(1, w)
                   ELSE <<"array">> \o Front(Elements(dim, w)) \o <<"endarray", "comma">>)

(* LiveBooster_json_add_item gives up: there must be some room behind the     *)
(* name, and behind each element of an array.                                *)
ItemFails(t, dim, w) ==
  \/ Room(Cut(t \o <<"n">>)) < 4
  \/ dim > 1 /\ Room(t \o <<"n", "array">> \o Elements(dim, w)) < 2
-----------------------------------------------------------------------------
(* The calls of each function of LiveBooster_msg_encode.c; ws are the widths  *)
(* of the values, vs the values and arrays of values.                        *)
Each(op, ws) == [i \in DOMAIN ws |-> Wide(op, ws[i])]
Items(vs) == [i \in DOMAIN vs |-> [op |-> "item", width |-> vs[i][2], dim |-> vs[i][1]]]
CloseWithCid == <<Call("sectionEnd"), Call("nameValue"), Call("end")>>

StatusCalls(vs) == <<Call("beginSection")>> \o Items(vs) \o <<Call("endSection")>>

(* Stream, and timestamp, model, position and tags if there are any.          *)
DataCalls(named, loc, vs, tags) ==
  <<Call("begin"), Call("nameValue")>> \o Each("nameValue", named) \o Each("nameArray", loc)
    \o <<Call("sectionStart")>> \o Items(vs) \o <<Call("sectionEnd")>>
    \o Each("nameArray", tags) \o <<Call("end")>>

(* The five calls of each resource, with an empty section for the metadata.   *)
ResourceCalls(w) ==
  <<Call("sectionStart"), Wide("nameValue", w), Call("sectionStart"),
    Call("sectionEnd"), Call("sectionEnd")>>
ResourcesCalls(ws) ==
  <<Call("beginSection")>>
    \o [k \in 1 .. 5 * Len(ws) |-> ResourceCalls(ws[(k + 4) \div 5])[((k - 1) % 5) + 1]]
    \o <<Call("endSection")>>

ParamsAllCalls(ws, withCid) ==
  <<Call("beginSection")>> \o Each("param", ws)
    \o (IF withCid THEN CloseWithCid ELSE <<Call("endSection")>>)

ParamsUpdateCalls(ws) == <<Call("beginSection")>> \o Each("param", ws) \o CloseWithCid
CmdRespCalls(vs) == <<Call("beginSection")>> \o Items(vs) \o CloseWithCid
CmdResultCalls(ws) == <<Call("beginSection")>> \o Each("nameValue", ws) \o CloseWithCid
RscResultCalls(w) == <<Call("begin"), Wide("nameValue", w), Call("nameValue"), Call("end")>>
RscErrorCalls(w) == <<Call("begin"), Call("nameValue"), Wide("nameValue", w), Call("end")>>

Widths == 1 .. MaxWidth
Lists(S, least) == UNION {[1 .. n -> S] : n \in least .. MaxItems}
Values == (1 .. MaxDim) \X Widths

(* A message to encode; data, status, resources and parameters are only       *)
(* encoded when there are some.                                              *)
Init ==
  /\ calls \in
       {StatusCalls(vs) : vs \in Lists(Values, 1)}
         \union {DataCalls(named, loc, vs, tags) :
                   named \in Lists(Widths, 0), loc \in {<<>>, <<1>>},
                   vs \in Lists(Values, 1), tags \in {<<>>, <<1>>}}
         \union {ResourcesCalls(ws) : ws \in Lists(Widths, 1)}
         \union {ParamsAllCalls(ws, c) : ws \in Lists(Widths, 1), c \in BOOLEAN}
         \union {ParamsUpdateCalls(ws) : ws \in Lists(Widths, 1)}
         \union {CmdRespCalls(vs) : vs \in Lists(Values, 0)}
         \union {CmdResultCalls(ws) : ws \in Lists(Widths, 1)}
         \union {RscResultCalls(w) : w \in Widths} \union {RscErrorCalls(w) : w \in Widths}
  /\ text = <<>> /\ meant = <<>> /\ past = 0 /\ stage = "encoding"
-----------------------------------------------------------------------------
Takes(op) ==
  /\ stage = "encoding" /\ calls # <<>> /\ Head(calls).op = op
  /\ calls' = Tail(calls)

(* snprintf with the room that is left.                                       *)
Prints(Op(_)) ==
  /\ text' = Cut(Op(text))
  /\ meant' = Op(meant)
  /\ UNCHANGED <<past, stage>>

Begin == Takes("begin") /\ Prints(BeginText)
BeginSection == Takes("beginSection") /\ Prints(BeginSectionText)
SectionStart == Takes("sectionStart") /\ Prints(SectionStartText)
SectionEnd == Takes("sectionEnd") /\ Prints(SectionEndText)
EndSection == Takes("endSection") /\ Prints(EndSectionText)
NameValue == Takes("nameValue") /\ Prints(LAMBDA t : NameValueText(t, Head(calls).width))
NameArray == Takes("nameArray") /\ Prints(LAMBDA t : NameArrayText(t, Head(calls).width))
Param == Takes("param") /\ Prints(LAMBDA t : ParamText(t, Head(calls).width))

(* json_end tells snprintf the size of the buffer, not the room left in it.   *)
End ==
  /\ Takes("end")
  /\ text' = EndText(text)
  /\ meant' = EndText(meant)
  /\ past' = IF Len(text') < BufSize THEN 0 ELSE Len(text') + 1 - BufSize
  /\ UNCHANGED stage

Item ==
  /\ Takes("item")
  /\ LET c == Head(calls) IN
     /\ ~ItemFails(text, c.dim, c.width)
     /\ Prints(LAMBDA t : ItemText(t, c.dim, c.width))

(* The encoder returns NULL, and nothing is published.                        *)
ItemRefused ==
  /\ Takes("item")
  /\ LET c == Head(calls) IN
     /\ ItemFails(text, c.dim, c.width)
     /\ meant' = ItemText(meant, c.dim, c.width)
  /\ stage' = "failed"
  /\ UNCHANGED <<text, past>>

Encoded ==
  /\ stage = "encoding" /\ calls = <<>>
  /\ stage' = "done"
  /\ UNCHANGED <<calls, text, meant, past>>

(* Mutant: the length of the packet is not compared with the buffer.          *)
AlwaysFits == TRUE

(* Mutant: a packet that fills its buffer is refused.                         *)
FitsLoosely == Len(text) < PayloadRoom

(* mqttPublish: MQTTSerialize_publish makes no packet longer than its buffer. *)
Fits == Len(text) <= PayloadRoom

Publish ==
  /\ stage = "done"
  /\ stage' = IF Fits THEN "sent" ELSE "refused"
  /\ UNCHANGED <<calls, text, meant, past>>

Stopped == stage \in {"failed", "sent", "refused"} /\ UNCHANGED vars

Next ==
  \/ Begin \/ BeginSection \/ SectionStart \/ SectionEnd \/ EndSection \/ End
  \/ NameValue \/ NameArray \/ Param \/ Item \/ ItemRefused
  \/ Encoded \/ Publish \/ Stopped

Spec == Init /\ [][Next]_vars
-----------------------------------------------------------------------------
(* A JSON object, recognised from the grammar: `open' holds the brackets that *)
(* are open, `prev' the symbol before.                                       *)
MayFollow(s, p, open) ==
  LET inside == IF open = <<>> THEN "" ELSE Last(open)
      element == p \in {"n", "array"} \/ (p = "comma" /\ inside = "array")
      complete == p \in {"v", "x", "endbrace", "endarray"}
  IN \/ s = "brace" /\ (p = "start" \/ element)
     \/ s \in {"v", "array"} /\ element
     \/ s = "n" /\ inside = "brace" /\ p \in {"brace", "comma"}
     \/ s = "x" /\ p \in {"v", "x"}
     \/ s = "comma" /\ inside # "" /\ complete
     \/ s = "endbrace" /\ inside = "brace" /\ (p = "brace" \/ complete)
     \/ s = "endarray" /\ inside = "array" /\ (p = "array" \/ complete)

ReadSymbol(s, st) ==
  IF ~st.ok \/ ~MayFollow(s, st.prev, st.open) THEN [st EXCEPT !.ok = FALSE]
  ELSE [ok |-> TRUE, prev |-> s,
        open |-> IF s \in {"brace", "array"} THEN Append(st.open, s)
                 ELSE IF s \in {"endbrace", "endarray"} THEN Front(st.open) ELSE st.open]

Beginning == [ok |-> TRUE, prev |-> "start", open |-> <<>>]

(* The states of the reader in t, from st on.                                 *)
Reading(st, t) ==
  LET reader[i \in 0 .. Len(t)] == IF i = 0 THEN st ELSE ReadSymbol(t[i], reader[i - 1])
  IN reader
After(st, t) == Reading(st, t)[Len(t)]

WellFormed(t) == LET end == After(Beginning, t) IN end.ok /\ end.open = <<>> /\ t # <<>>

(* Every variable stays in its range; the string ends in the buffer but for   *)
(* the one character json_end writes too many.                               *)
TypeOK ==
  /\ stage \in {"encoding", "failed", "done", "sent", "refused"}
  /\ text \in Seq(Symbols)
  /\ past \in 0 .. 1
  /\ Len(text) < BufSize + past

(* What the broker receives is one whole JSON object with all that was to be  *)
(* said: texts that snprintf cut are published like any other, but too long   *)
(* for a packet (MQTTSerialize_publish), and so are those behind which        *)
(* json_end wrote past its buffer.                                           *)
SentIsWhole == stage = "sent" => text = meant /\ WellFormed(text) /\ past = 0

(* No encoder gives up on a message that a packet could have carried.         *)
RefusedIsTooLong ==
  stage \in {"failed", "refused"} => Len(meant) > PayloadRoom
=============================================================================
