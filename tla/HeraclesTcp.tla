----------------------------- MODULE HeraclesTcp -----------------------------
(***************************************************************************)
(* Two TCP clients over one modem: HeraclesTcpClient.c, HeraclesModem.c, and *)
(* the header loop of LiveBooster_http.c, the caller that polls.            *)
(*                                                                         *)
(* The MQTT client resets the modem each time it connects; the HTTP client  *)
(* lives on, with whatever it knew of its connection.  The modem keeps the  *)
(* bytes that arrive until it is asked for them, and may give the notice that *)
(* bytes arrived between any two lines of the serial line: `notice' says that *)
(* there is one the driver has not read.  An action is one exchange with      *)
(* the modem or the code between two of them.                               *)
(***************************************************************************)
EXTENDS Naturals, Sequences

CONSTANTS
  FifoRoom,   (* bytes a receive FIFO can hold, FIFO_SIZE - 1               *)
  MaxRetry,   (* empty reads after which read_line gives up, 20             *)
  MaxRead,    (* bound: bytes a caller asks for at once                     *)
  MaxConns,   (* bound: connections made                                    *)
  MaxBytes,   (* bound: bytes the server sends on one of them               *)
  Faults      (* what the modem may do wrong                                *)

ASSUME ConstantsAssumption ==
  /\ {FifoRoom, MaxRetry, MaxRead} \subseteq Nat \ {0}
  /\ {MaxConns, MaxBytes} \subseteq Nat
  (* "silent": it answers nothing during an Init, and works again later;     *)
  (* "half":   a reset fails after the table was cleared;                   *)
  (* "notice": it gives a notice between a request for bytes and its answer. *)
  /\ Faults \subseteq {"silent", "half", "notice"}

Clients == {"mqtt", "http"}
Muxes == 0 .. 1
None == "none"
INVALID_MUX == 255

VARIABLES
  (* the driver and the clients                                             *)
  sockets,         (* the table of connections                              *)
  due,             (* more than 500 ms since prev_check                     *)
  mux, sock_available, sock_connected, rx,
  (* the thread                                                             *)
  pc,              (* where it is                                           *)
  call,            (* the call under way                                    *)
  poll,            (* the entry Maintain polls                              *)
  (* the callers                                                            *)
  use,             (* has it an open connection?                            *)
  gen, got,        (* which one, and the bytes it got from it               *)
  (* the modem and the network                                              *)
  link,            (* the connections of the modem                          *)
  made,            (* connections made so far                               *)
  notice

tableVars == <<sockets, mux, rx>>
pollVars == <<sock_available, sock_connected>>
userVars == <<use, gen, got>>
netVars == <<link, made, notice>>
vars == <<tableVars, due, pollVars, pc, call, poll, userVars, netVars>>

Absent == [id |-> 0, open |-> FALSE, sent |-> 0, data |-> <<>>]
(* A call: what is done, for whom, the bytes still to read, the empty reads   *)
(* in a row, and where Maintain returns to.                                   *)
NoCall == [op |-> "none", by |-> "mqtt", want |-> 0, retry |-> 0, after |-> "app"]
Free == {m \in Muxes : sockets[m] = None}
(* Mutant: the search for a free entry stops at the first one.                *)
FirstEntry == 0

FirstFree == IF 0 \in Free THEN 0 ELSE 1
Lesser(a, b) == IF a < b THEN a ELSE b
Available(c) == Len(rx[c]) + sock_available[c]
Connected(c) == Available(c) > 0 \/ sock_connected[c]

Init ==
  /\ sockets = [m \in Muxes |-> None]
  /\ mux = [c \in Clients |-> INVALID_MUX]
  /\ rx = [c \in Clients |-> <<>>]
  /\ sock_available = [c \in Clients |-> 0]
  /\ sock_connected = [c \in Clients |-> FALSE]
  /\ due = TRUE
  /\ pc = "app" /\ call = NoCall /\ poll = 0
  /\ use = [c \in Clients |-> FALSE]
  /\ gen = [c \in Clients |-> 0]
  /\ got = [c \in Clients |-> <<>>]
  /\ link = [m \in Muxes |-> Absent]
  /\ made = 0 /\ notice = FALSE

(* Caller c has no connection any more.                                       *)
Forget(c) ==
  /\ use' = [use EXCEPT ![c] = FALSE]
  /\ gen' = [gen EXCEPT ![c] = 0]
  /\ got' = [got EXCEPT ![c] = <<>>]

(* The call returns to the application.                                       *)
Return == pc' = "app" /\ call' = NoCall
-----------------------------------------------------------------------------
(* HeraclesModem__Maintain, entered by call c.                                *)
Maintain(c) ==
  /\ call' = c
  /\ due' = FALSE
  /\ pc' = IF due THEN "poll" ELSE "drain"

(* Mutant: the loop over the table goes one entry too far.                    *)
NextEntryPastTheEnd ==
  /\ pc' = IF poll < 2 THEN "poll" ELSE "drain"
  /\ poll' = (poll + 1) % 3

(* The loop over the table, once entry `poll' is dealt with.                  *)
NextEntry ==
  /\ pc' = IF poll = 0 THEN "poll" ELSE "drain"
  /\ poll' = 1 - poll

PollEmpty ==
  /\ pc = "poll" /\ sockets[poll] = None
  /\ NextEntry
  /\ UNCHANGED <<tableVars, due, pollVars, call, userVars, netVars>>

(* What modemGetAvailable makes of the answer.  A notice that came before it  *)
(* is taken for the answer, and the number found is that of an entry; without *)
(* an answer it is 0.                                                         *)
Counted ==
  IF ~notice THEN {0, Len(link[poll].data)} ELSE {0, 1}

PollCount ==
  /\ pc = "poll" /\ sockets[poll] # None
  /\ notice' = FALSE
  /\ \E n \in Counted :
       \/ /\ n = 0
          /\ pc' = "status"
          /\ UNCHANGED <<sock_available, poll>>
       \/ /\ n > 0
          /\ sock_available' = [sock_available EXCEPT ![sockets[poll]] = n]
          /\ NextEntry
  /\ UNCHANGED <<tableVars, due, sock_connected, call, userVars, link, made>>

(* modemGetConnected: FALSE also when there is no answer.                     *)
PollStatus ==
  /\ pc = "status"
  /\ \E up \in {FALSE, link[poll].open} :
       sock_connected' = [sock_connected EXCEPT ![sockets[poll]] = up]
  /\ sock_available' = [sock_available EXCEPT ![sockets[poll]] = 0]
  /\ notice' = FALSE
  /\ NextEntry
  /\ UNCHANGED <<tableVars, due, call, userVars, link, made>>

(* The notices read while the thread waits for nothing else.                  *)
ReadNotices ==
  /\ notice' = FALSE
  /\ due' \in {due, notice}

Drain ==
  /\ pc = "drain"
  /\ ReadNotices
  /\ pc' = call.after
  /\ UNCHANGED <<tableVars, pollVars, call, poll, userVars, link, made>>
-----------------------------------------------------------------------------
(* Does testAT get its answer?  Does the reset reach the modem?  What follows,  *)
(* the SIM, the network and GPRS, decides only a result nobody looks at.      *)
TestAT == {TRUE, "silent" \notin Faults}
ResetReaches == {TRUE, "half" \notin Faults}

(* HeraclesModem__Init for the MQTT client: without an answer to AT the table *)
(* stays; a reset that fails leaves the connections of the modem.             *)
InitModem ==
  /\ pc = "app"
  /\ \E answered \in TestAT, whole \in ResetReaches :
       /\ sockets' = IF answered THEN [m \in Muxes |-> None] ELSE sockets
       /\ link' = IF answered /\ whole THEN [m \in Muxes |-> Absent] ELSE link
  /\ mux' = [mux EXCEPT !["mqtt"] = INVALID_MUX]
  /\ sock_available' = [sock_available EXCEPT !["mqtt"] = 0]
  /\ sock_connected' = [sock_connected EXCEPT !["mqtt"] = FALSE]
  /\ Forget("mqtt")
  /\ due' = TRUE
  /\ notice' = FALSE
  /\ pc' = "open" /\ call' = [NoCall EXCEPT !.op = "open"]
  /\ UNCHANGED <<rx, poll, made>>

(* LiveBooster_http_start, in a cycle: the MQTT connection is there.          *)
HttpStart ==
  /\ pc = "app" /\ use["mqtt"] /\ ~use["http"]
  /\ pc' = "open" /\ call' = [NoCall EXCEPT !.op = "open", !.by = "http"]
  /\ UNCHANGED <<tableVars, due, pollVars, poll, userVars, netVars>>

(* HeraclesModem__Connect: no entry is free.                                  *)
ConnectNoEntry ==
  /\ pc = "open" /\ Free = {}
  /\ mux' = [mux EXCEPT ![call.by] = INVALID_MUX]
  /\ sock_connected' = [sock_connected EXCEPT ![call.by] = FALSE]
  /\ rx' = [rx EXCEPT ![call.by] = <<>>]
  /\ Return
  /\ UNCHANGED <<sockets, due, sock_available, poll, userVars, netVars>>

(* Mutant: the FIFO keeps the bytes of the connection before.                 *)
TakeEntryOnly(m) ==
  /\ sockets' = [sockets EXCEPT ![m] = call.by]
  /\ mux' = [mux EXCEPT ![call.by] = m]
  /\ ReadNotices
  /\ UNCHANGED rx

TakeEntry(m) ==
  /\ sockets' = [sockets EXCEPT ![m] = call.by]
  /\ mux' = [mux EXCEPT ![call.by] = m]
  /\ rx' = [rx EXCEPT ![call.by] = <<>>]
  /\ ReadNotices

(* The modem makes a connection on m.                                         *)
Establish(m) ==
  /\ ~link[m].open /\ made < MaxConns
  /\ made' = made + 1
  /\ link' = [link EXCEPT ![m] = [id |-> made', open |-> TRUE, sent |-> 0, data |-> <<>>]]

(* It does and says so; the HTTP client then sends its query.                 *)
ConnectOk ==
  /\ pc = "open" /\ Free # {}
  /\ TakeEntry(FirstFree)
  /\ Establish(FirstFree)
  /\ sock_connected' = [sock_connected EXCEPT ![call.by] = TRUE]
  /\ use' = [use EXCEPT ![call.by] = TRUE]
  /\ gen' = [gen EXCEPT ![call.by] = made']
  /\ got' = [got EXCEPT ![call.by] = <<>>]
  /\ \/ call.by = "mqtt" /\ Return
     \/ call.by = "http" /\ pc' = "send" /\ UNCHANGED call
  /\ UNCHANGED <<sock_available, poll>>

(* It does not, or too late: the entry stays taken.                           *)
ConnectFails ==
  /\ pc = "open" /\ Free # {}
  /\ TakeEntry(FirstFree)
  /\ Establish(FirstFree) \/ UNCHANGED <<link, made>>
  /\ sock_connected' = [sock_connected EXCEPT ![call.by] = FALSE]
  /\ Return
  /\ UNCHANGED <<sock_available, poll, userVars>>

(* LiveBooster_Close, or LiveBooster_http_close after a download.             *)
CloseCalled(c) ==
  /\ pc = "app" /\ use["mqtt"] /\ use[c]
  /\ pc' = "stop" /\ call' = [NoCall EXCEPT !.op = "stop", !.by = c]
  /\ UNCHANGED <<tableVars, due, pollVars, poll, userVars, netVars>>

(* Mutant: the other connection is closed with it.                            *)
StopAll ==
  /\ pc = "stop"
  /\ sockets' = [sockets EXCEPT ![mux[call.by]] = None]
  /\ link' = [m \in Muxes |-> Absent]
  /\ sock_connected' = [sock_connected EXCEPT ![call.by] = FALSE]
  /\ rx' = [rx EXCEPT ![call.by] = <<>>]
  /\ Forget(call.by)
  /\ ReadNotices
  /\ Return
  /\ UNCHANGED <<mux, sock_available, poll, made>>

(* HeraclesTcpClient__Stop.                                                   *)
Stop ==
  /\ pc = "stop"
  /\ sockets' = [sockets EXCEPT ![mux[call.by]] = None]
  /\ link' = [link EXCEPT ![mux[call.by]] = Absent]
  /\ sock_connected' = [sock_connected EXCEPT ![call.by] = FALSE]
  /\ rx' = [rx EXCEPT ![call.by] = <<>>]
  /\ Forget(call.by)
  /\ ReadNotices
  /\ Return
  /\ UNCHANGED <<mux, sock_available, poll, made>>
-----------------------------------------------------------------------------
(* HeraclesTcpClient__Write: a packet of MQTT ...                             *)
WriteCalled ==
  /\ pc = "app" /\ use["mqtt"]
  /\ Maintain([NoCall EXCEPT !.op = "write", !.after = "send"])
  /\ UNCHANGED <<tableVars, pollVars, poll, userVars, netVars>>

(* ... or the query of HTTP, which read_line follows unless it fails.         *)
Send ==
  /\ pc = "send"
  /\ notice' = FALSE
  /\ \/ call.by = "mqtt" /\ Return
     \/ call.by = "http" /\ pc' \in {"ask", "stop"} /\ call' = [call EXCEPT !.op = "line"]
  /\ UNCHANGED <<tableVars, due, pollVars, poll, userVars, link, made>>

(* HeraclesTcpClient__Read is entered for n bytes, by call c.                 *)
EnterRead(c, n) == Maintain([c EXCEPT !.want = n, !.after = "loop"])

(* The MQTT client reads.                                                     *)
ReadCalled ==
  /\ pc = "app" /\ use["mqtt"]
  /\ \E n \in 1 .. MaxRead : EnterRead([NoCall EXCEPT !.op = "read"], n)
  /\ UNCHANGED <<tableVars, pollVars, poll, userVars, netVars>>

(* LiveBooster_http_data and read_line ask first whether there is still a      *)
(* connection, which polls the modem only if the client thinks there is.      *)
AskConnected(c) ==
  IF rx["http"] = <<>> /\ sock_connected["http"]
  THEN Maintain([c EXCEPT !.after = "test"])
  ELSE pc' = "test" /\ call' = c /\ UNCHANGED due

DataCalled ==
  /\ pc = "app" /\ use["http"] /\ use["mqtt"]
  /\ AskConnected([NoCall EXCEPT !.op = "data", !.by = "http"])
  /\ UNCHANGED <<tableVars, pollVars, poll, userVars, netVars>>

LineAsks ==
  /\ pc = "ask"
  /\ AskConnected(call)
  /\ UNCHANGED <<tableVars, pollVars, poll, userVars, netVars>>

AskedConnected ==
  /\ pc = "test" /\ Connected("http")
  /\ \E n \in 1 .. (IF call.op = "line" THEN 1 ELSE MaxRead) : EnterRead(call, n)
  /\ UNCHANGED <<tableVars, pollVars, poll, userVars, netVars>>

(* http_data returns an error; read_line asks again.                          *)
AskedClosed ==
  /\ pc = "test" /\ ~Connected("http")
  /\ \/ call.op = "line" /\ pc' = "ask" /\ UNCHANGED call
     \/ call.op = "data" /\ Return
  /\ UNCHANGED <<tableVars, due, pollVars, poll, userVars, netVars>>

(* One round of the loop of HeraclesTcpClient__Read: bytes from the FIFO ...   *)
LoopTakes ==
  /\ pc = "loop" /\ call.want > 0 /\ rx[call.by] # <<>>
  /\ LET c == call.by
         chunk == Lesser(Len(rx[c]), call.want)
     IN /\ got' = [got EXCEPT ![c] = @ \o SubSeq(rx[c], 1, chunk)]
        /\ rx' = [rx EXCEPT ![c] = SubSeq(@, chunk + 1, Len(@))]
        /\ call' = [call EXCEPT !.want = @ - chunk]
  /\ UNCHANGED <<sockets, mux, due, pollVars, pc, poll, use, gen, netVars>>

(* ... or a look at the modem ...                                             *)
LoopMaintains ==
  /\ pc = "loop" /\ call.want > 0 /\ rx[call.by] = <<>>
  /\ Maintain([call EXCEPT !.after = "fetch"])
  /\ UNCHANGED <<tableVars, pollVars, poll, userVars, netVars>>

(* ... until enough was read, the time is over, or there is nothing.          *)
LoopEnds ==
  /\ pc = "loop" \/ (pc = "fetch" /\ sock_available[call.by] = 0)
  /\ pc' = "read"
  /\ UNCHANGED <<tableVars, due, pollVars, call, poll, userVars, netVars>>

(* HeraclesModem__Read: no answer, or no such connection.                     *)
FetchFails ==
  /\ pc = "fetch" /\ sock_available[call.by] > 0
  /\ notice' = FALSE
  /\ pc' = "loop"
  /\ UNCHANGED <<tableVars, due, pollVars, call, poll, userVars, link, made>>

(* The answer: the modem hands over as many bytes as the FIFO of the caller    *)
(* has room for, and the driver puts them in the FIFO of the owner of the     *)
(* entry.  A notice before it is taken for the beginning of the answer: the   *)
(* number of the entry passes for the number of bytes, so that none, or one   *)
(* byte of the text, is stored, and the bytes themselves are skipped.         *)
Fetch ==
  /\ pc = "fetch" /\ sock_available[call.by] > 0 /\ link[mux[call.by]].id # 0
  /\ LET m == mux[call.by]
         o == sockets[m]
         data == link[m].data
         n == Lesser(FifoRoom - Len(rx[call.by]), Len(data))
         bytes == IF ~notice THEN SubSeq(data, 1, n)
                  ELSE IF m = 0 THEN <<>> ELSE << <<0, 0>> >>
     IN /\ link' = [link EXCEPT ![m].data = SubSeq(data, n + 1, Len(data))]
        /\ IF o = None
           THEN pc' = "crashed" /\ UNCHANGED <<sock_available, rx>>
           ELSE /\ pc' = "loop"
                /\ sock_available' = [sock_available EXCEPT
                     ![o] = IF ~notice THEN Len(data) - n ELSE n]
                /\ rx' = [rx EXCEPT
                     ![o] = SubSeq(@ \o bytes, 1, Lesser(FifoRoom, Len(@ \o bytes)))]
  /\ notice' = FALSE
  /\ UNCHANGED <<sockets, mux, due, sock_connected, call, poll, userVars, made>>

(* Read returns to the caller ...                                             *)
ReadReturns ==
  /\ pc = "read" /\ call.op # "line"
  /\ Return
  /\ UNCHANGED <<tableVars, due, pollVars, poll, userVars, netVars>>

EmptyReads == IF call.want = 0 THEN 0 ELSE call.retry + 1

(* ... or to read_line, which tries again unless there was nothing too often,  *)
LineGoesOn ==
  /\ pc = "read" /\ call.op = "line" /\ EmptyReads < MaxRetry
  /\ pc' = "ask" /\ call' = [call EXCEPT !.retry = EmptyReads, !.want = 0]
  /\ UNCHANGED <<tableVars, due, pollVars, poll, userVars, netVars>>

(* and then to http_query, when the byte ends the header or when read_line    *)
(* gives up: the body follows, or the answer is no use.                       *)
HeaderEnds ==
  /\ pc = "read" /\ call.op = "line" /\ EmptyReads \in {0, MaxRetry}
  /\ \/ Return
     \/ pc' = "stop" /\ call' = [NoCall EXCEPT !.op = "stop", !.by = "http"]
  /\ UNCHANGED <<tableVars, due, pollVars, poll, userVars, netVars>>
-----------------------------------------------------------------------------
(* Time, the servers and the modem.                                           *)
Tick ==
  /\ ~due /\ due' = TRUE
  /\ UNCHANGED <<tableVars, pollVars, pc, call, poll, userVars, netVars>>

(* May a notice be given now?                                                 *)
MayNotice == pc # "fetch" \/ "notice" \in Faults

ServerSends(m) ==
  /\ link[m].open /\ link[m].sent < MaxBytes
  /\ LET n == link[m].sent + 1
     IN link' = [link EXCEPT ![m].sent = n, ![m].data = Append(@, <<link[m].id, n>>)]
  /\ notice' \in {notice, notice \/ MayNotice}
  /\ UNCHANGED <<tableVars, due, pollVars, pc, call, poll, userVars, made>>

ServerCloses(m) ==
  /\ link[m].open
  /\ link' = [link EXCEPT ![m].open = FALSE]
  /\ UNCHANGED <<tableVars, due, pollVars, pc, call, poll, userVars, made, notice>>

Driver ==
  \/ PollEmpty \/ PollCount \/ PollStatus \/ Drain
  \/ ConnectNoEntry \/ ConnectOk \/ ConnectFails \/ Stop \/ Send
  \/ LineAsks \/ AskedConnected \/ AskedClosed
  \/ LoopTakes \/ LoopMaintains \/ LoopEnds \/ FetchFails \/ Fetch
  \/ ReadReturns \/ LineGoesOn \/ HeaderEnds
Caller ==
  \/ InitModem \/ HttpStart \/ WriteCalled \/ ReadCalled \/ DataCalled
  \/ \E c \in Clients : CloseCalled(c)
Network == Tick \/ \E m \in Muxes : ServerSends(m) \/ ServerCloses(m)

Next == Driver \/ Caller \/ Network
Spec == Init /\ [][Next]_vars
-----------------------------------------------------------------------------
(* The thread goes on, and the clock too: the loop of a read that gets no     *)
(* answers is over when its time is.                                          *)
FairSpec == Spec /\ WF_vars(Driver) /\ SF_vars(LoopEnds) /\ WF_vars(Tick)
-----------------------------------------------------------------------------
(* Every variable stays in its range; a FIFO never holds more than it can.    *)
TypeOK ==
  /\ sockets \in [Muxes -> Clients \union {None}]
  /\ mux \in [Clients -> Muxes \union {INVALID_MUX}]
  /\ sock_available \in [Clients -> Nat]
  /\ sock_connected \in [Clients -> BOOLEAN]
  /\ due \in BOOLEAN
  /\ rx \in [Clients -> Seq(Nat \X Nat)]
  /\ \A c \in Clients : Len(rx[c]) <= FifoRoom
  /\ poll \in Muxes
  /\ use \in [Clients -> BOOLEAN]
  /\ gen \in [Clients -> 0 .. MaxConns]
  /\ got \in [Clients -> Seq(Nat \X Nat)]
  /\ notice \in BOOLEAN

(* What a read returned are the bytes the server sent on the connection the    *)
(* caller opened, from the first, in order (TcpClientInterface.read).         *)
ReadsWhatWasSent ==
  \A c \in Clients : \A i \in DOMAIN got[c] : got[c][i] = <<gen[c], i>>

(* No byte is lost, doubled or handed to the other client on its way from the *)
(* modem through the FIFO to the caller: HeraclesModem__Read never asks for   *)
(* more than fits, whatever the stale counts of the two clients say.          *)
NothingIsLost ==
  \A c \in Clients : use[c] =>
    LET held == got[c] \o rx[c] IN
    /\ \A i \in DOMAIN held : held[i] = <<gen[c], i>>
    /\ link[mux[c]].id = gen[c] =>
         Len(held) + Len(link[mux[c]].data) = link[mux[c]].sent

(* The entry a client uses is its own.  Only the reset for the MQTT client    *)
(* takes the entry of the HTTP client away, and nobody else gets it then.     *)
OwnEntry ==
  /\ use["mqtt"] => sockets[mux["mqtt"]] = "mqtt"
  /\ use["http"] => sockets[mux["http"]] \in {"http", None}

(* But for a reset, a call of one client neither takes bytes from the         *)
(* connection of the other nor closes it.                                     *)
OnlyOwnLink ==
  [][\A c \in Clients, m \in Muxes :
       /\ use[c] /\ link[m].id = gen[c]
       /\ link'[m].id # gen[c] \/ Len(link'[m].data) < Len(link[m].data)
       => call.by = c \/ call'.op = "open"]_vars

(* LiveBoosterErrors.md: ERR_LB_HTTP_READ_LINE is an "Error while reading the *)
(* HTTP GET response"; so read_line returns, with or without a whole line,    *)
(* also when the server closes the connection or sends nothing.              *)
LineEnds == pc = "ask" ~> pc = "app"
=============================================================================
