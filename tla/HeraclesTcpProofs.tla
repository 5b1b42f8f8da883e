-------------------------- MODULE HeraclesTcpProofs --------------------------
(***************************************************************************)
(* The safety of HeraclesTcp for any sizes, reads, connections and bytes.    *)
(*                                                                         *)
(* TypeInv holds whatever the modem does wrong.  Entries, which client has    *)
(* which entry of the table, needs a modem that answers AT, because Init     *)
(* does not stop when it does not.  Linked (the table and the connections of *)
(* the modem agree), NoticeRead and InOrder (the bytes of a connection follow *)
(* each other, in the caller, the FIFO and the modem) are about a modem that *)
(* does nothing wrong.                                                      *)
(***************************************************************************)
EXTENDS HeraclesTcp, TLAPS, SequenceTheorems

(* Where the thread can be, and the call it can be in.                        *)
Places == {"app", "open", "send", "stop", "ask", "test", "loop", "fetch", "read",
           "poll", "status", "drain", "crashed"}
Calls == [op : {"none", "open", "stop", "write", "read", "data", "line"}, by : Clients,
          want : Nat, retry : Nat, after : {"app", "send", "test", "loop", "fetch"}]
Links == [id : Nat, open : BOOLEAN, sent : Nat, data : Seq(Nat \X Nat)]

WellTyped ==
  /\ TypeOK
  /\ pc \in Places /\ call \in Calls
  /\ link \in [Muxes -> Links]
  /\ made \in 0 .. MaxConns

(* A call is made for a client with a connection, and in one of MQTT; only    *)
(* Connect is called without.                                                 *)
InPlace ==
  /\ pc \in {"poll", "status", "drain"} => call.after # "app"
  /\ call.op = "line" => call.by = "http"
  /\ pc = "open" /\ call.by = "http" => use["mqtt"]
  /\ pc = "open" => ~use[call.by]
  /\ pc \notin {"app", "open", "crashed"} => use["mqtt"] /\ use[call.by]

(* The MQTT client, which comes first after every reset, always has entry 0.  *)
Entries ==
  /\ sockets[0] \in {"mqtt", None} /\ sockets[1] \in {"http", None}
  /\ pc = "open" /\ call.by = "mqtt" => sockets[0] = None
  /\ use["mqtt"] => mux["mqtt"] = 0 /\ sockets[0] = "mqtt"
  /\ use["http"] => mux["http"] = 1

(* The modem has no connection the table has not, and a client that uses one  *)
(* has the one it opened or none any more.                                    *)
Linked ==
  /\ pc # "crashed"
  /\ \A m \in Muxes :
       /\ link[m].id <= made
       /\ link[m].id # 0 => sockets[m] # None
       /\ link[m].open => link[m].id # 0
  /\ \A c \in Clients : use[c] =>
       /\ gen[c] \in 1 .. made
       /\ link[mux[c]].id \in {0, gen[c]}
       /\ \A m \in Muxes : link[m].id = gen[c] => m = mux[c]

(* The modem has told every notice before it is asked for bytes.             *)
NoticeRead == pc = "fetch" => ~notice

(* The bytes of connection g, from the one after the k-th.                    *)
Numbered(s, g, k) == \A i \in 1 .. Len(s) : s[i] = <<g, k + i>>

(* The bytes the caller has, those in its FIFO and those the modem still has  *)
(* follow each other.                                                         *)
Follows(c) ==
  /\ Numbered(got[c], gen[c], 0)
  /\ Numbered(rx[c], gen[c], Len(got[c]))
  /\ link[mux[c]].id = gen[c] =>
       Len(got[c]) + Len(rx[c]) + Len(link[mux[c]].data) = link[mux[c]].sent
Keeps(m) == Numbered(link[m].data, link[m].id, link[m].sent - Len(link[m].data))
InOrder == (\A c \in Clients : use[c] => Follows(c)) /\ (\A m \in Muxes : Keeps(m))

(* A client with a connection has an entry.                                   *)
HasEntry == \A c \in Clients : use[c] => mux[c] \in Muxes

(* WellTyped in parts.                                                        *)
Tables ==
  /\ sockets \in [Muxes -> Clients \union {None}]
  /\ mux \in [Clients -> Muxes \union {INVALID_MUX}]
  /\ poll \in Muxes
  /\ gen \in [Clients -> 0 .. MaxConns] /\ made \in 0 .. MaxConns
Flags ==
  /\ due \in BOOLEAN /\ notice \in BOOLEAN
  /\ use \in [Clients -> BOOLEAN] /\ sock_connected \in [Clients -> BOOLEAN]
Counts == sock_available \in [Clients -> Nat]
Bytes ==
  /\ rx \in [Clients -> Seq(Nat \X Nat)]
  /\ \A c \in Clients : Len(rx[c]) <= FifoRoom
  /\ got \in [Clients -> Seq(Nat \X Nat)]
Calling == pc \in Places /\ call \in Calls
Linking == link \in [Muxes -> Links]

(* WellTyped, part by part.                                                   *)
LEMMA TypeParts == WellTyped <=> Tables /\ Flags /\ Counts /\ Bytes /\ Calling /\ Linking
  BY DEF WellTyped, TypeOK, Tables, Flags, Counts, Bytes, Calling, Linking

(* The constants, one by one.                                                 *)
LEMMA Constants ==
  /\ FifoRoom \in Nat /\ MaxRetry \in Nat /\ MaxRead \in Nat /\ MaxConns \in Nat /\ MaxBytes \in Nat
  /\ FifoRoom > 0
  BY ConstantsAssumption

(* The entry Connect takes is a free one.                                     *)
LEMMA FreeEntry == Free # {} => FirstFree \in Muxes /\ FirstFree \in Free
  BY DEF Free, FirstFree, Muxes

LEMMA NoCallTyped == NoCall \in Calls
  BY DEF NoCall, Calls, Clients

(* The parts of WellTyped, kept by each step.                                 *)
LEMMA TablesStep ==
  Tables /\ Calling /\ [Next]_vars => Tables'
<1> SUFFICES ASSUME Tables, Calling, [Next]_vars
             PROVE  Tables'
  OBVIOUS
<1>1. CASE Drain \/ HttpStart \/ WriteCalled \/ Send \/ ReadCalled \/ DataCalled \/ LineAsks
          \/ AskedConnected \/ AskedClosed \/ LoopMaintains \/ LoopEnds \/ FetchFails \/
          ReadReturns \/ LineGoesOn \/ HeaderEnds \/ Tick \/ LoopTakes \/ Fetch
  BY <1>1 DEF Drain, ReadNotices, HttpStart, WriteCalled, Maintain, Send, Return,
     ReadCalled, EnterRead, DataCalled, AskConnected, LineAsks, AskedConnected, AskedClosed,
     LoopMaintains, LoopEnds, FetchFails, ReadReturns, LineGoesOn, EmptyReads, HeaderEnds,
     Tick, LoopTakes, Fetch, tableVars, pollVars, userVars, netVars, Tables
<1>2. CASE PollEmpty \/ PollCount \/ PollStatus
  BY <1>2 DEF PollEmpty, NextEntry, PollCount, Counted, PollStatus, tableVars, pollVars,
     userVars, netVars, Tables, Muxes
<1>3. CASE InitModem
  BY <1>3, Constants DEF InitModem, Forget, TestAT, ResetReaches, tableVars, pollVars,
     userVars, netVars, Tables, Clients, INVALID_MUX
<1>4. CASE Stop
  <2>1. /\ sockets' = [sockets EXCEPT ![mux[call.by]] = None] /\ mux' = mux
        /\ gen' = [gen EXCEPT ![call.by] = 0] /\ poll' = poll /\ made' = made
    BY <1>4 DEF Stop, Forget
  <2>2. 0 \in 0 .. MaxConns
    BY Constants
  <2>3. QED
    BY <2>1, <2>2 DEF Tables
<1>5. CASE ConnectNoEntry
  BY <1>5 DEF ConnectNoEntry, Return, tableVars, pollVars, userVars, netVars, Tables,
     Clients, INVALID_MUX, Calling, Calls
<1>6. CASE ConnectOk
  BY <1>6, FreeEntry, Constants DEF ConnectOk, TakeEntry, ReadNotices, Establish, Return,
     FirstFree, tableVars, pollVars, userVars, netVars, Tables, Clients, Calling, Calls
<1>7. CASE ConnectFails
  BY <1>7, FreeEntry, Constants DEF ConnectFails, TakeEntry, ReadNotices, Establish, Return,
     FirstFree, tableVars, pollVars, userVars, netVars, Tables, Clients, Calling, Calls
<1>8. ASSUME NEW c \in Clients, CloseCalled(c)
     PROVE  Tables'
  BY <1>8 DEF CloseCalled, tableVars, pollVars, userVars, netVars, Tables
<1>9. ASSUME NEW m \in Muxes, ServerSends(m) \/ ServerCloses(m)
      PROVE  Tables'
  BY <1>9 DEF ServerSends, ServerCloses, tableVars, pollVars, userVars, netVars, Tables
<1>10. CASE UNCHANGED vars
  BY <1>10 DEF vars, tableVars, pollVars, userVars, netVars, Tables
<1>11. QED
  BY <1>1, <1>2, <1>3, <1>4, <1>5, <1>6, <1>7, <1>8, <1>9, <1>10 DEF Next, Driver, Caller,
     Network

LEMMA FlagsStep ==
  Flags /\ Linking /\ Tables /\ [Next]_vars => Flags'
<1> SUFFICES ASSUME Flags, Linking, Tables, [Next]_vars
             PROVE  Flags'
  OBVIOUS
<1>1. CASE PollEmpty \/ PollCount \/ Drain \/ HttpStart \/ WriteCalled \/ Send \/ ReadCalled
          \/ DataCalled \/ LineAsks \/ AskedConnected \/ AskedClosed \/ LoopMaintains \/
          LoopEnds \/ FetchFails \/ ReadReturns \/ LineGoesOn \/ HeaderEnds \/ Tick
  BY <1>1 DEF PollEmpty, NextEntry, PollCount, Counted, Drain, ReadNotices, HttpStart,
     WriteCalled, Maintain, Send, Return, ReadCalled, EnterRead, DataCalled, AskConnected,
     LineAsks, AskedConnected, AskedClosed, LoopMaintains, LoopEnds, FetchFails,
     ReadReturns, LineGoesOn, EmptyReads, HeaderEnds, Tick, tableVars, pollVars, userVars,
     netVars, Flags
<1>2. CASE PollStatus
  BY <1>2 DEF PollStatus, NextEntry, tableVars, pollVars, userVars, netVars, Flags, Linking,
     Links, Tables, Clients
<1>3. CASE InitModem \/ ConnectNoEntry \/ ConnectOk \/ ConnectFails \/ Stop \/ LoopTakes \/
          Fetch
  BY <1>3 DEF InitModem, Forget, TestAT, ResetReaches, ConnectNoEntry, Return, ConnectOk,
     TakeEntry, ReadNotices, Establish, FirstFree, ConnectFails, Stop, LoopTakes, Fetch,
     tableVars, pollVars, userVars, netVars, Flags
<1>4. ASSUME NEW c \in Clients, CloseCalled(c)
     PROVE  Flags'
  BY <1>4 DEF CloseCalled, tableVars, pollVars, userVars, netVars, Flags
<1>5. ASSUME NEW m \in Muxes, ServerSends(m) \/ ServerCloses(m)
      PROVE  Flags'
  BY <1>5 DEF ServerSends, ServerCloses, tableVars, pollVars, userVars, netVars, Flags
<1>6. CASE UNCHANGED vars
  BY <1>6 DEF vars, tableVars, pollVars, userVars, netVars, Flags
<1>7. QED
  BY <1>1, <1>2, <1>3, <1>4, <1>5, <1>6 DEF Next, Driver, Caller, Network

LEMMA CountsStep ==
  Counts /\ Linking /\ Tables /\ Bytes /\ Calling /\ InPlace /\ HasEntry /\ [Next]_vars => Counts'
<1> SUFFICES ASSUME Counts, Linking, Tables, Bytes, Calling, InPlace, HasEntry, [Next]_vars
             PROVE  Counts'
  BY SMTT(40)
<1>1. CASE PollEmpty \/ Drain \/ HttpStart \/ WriteCalled \/ Send \/ ReadCalled \/
          DataCalled \/ LineAsks \/ AskedConnected \/ AskedClosed \/ LoopMaintains \/
          LoopEnds \/ FetchFails \/ ReadReturns \/ LineGoesOn \/ HeaderEnds \/ Tick \/
          ConnectNoEntry \/ ConnectOk \/ ConnectFails \/ Stop \/ LoopTakes
  BY <1>1 DEF PollEmpty, NextEntry, Drain, ReadNotices, HttpStart, WriteCalled, Maintain,
     Send, Return, ReadCalled, EnterRead, DataCalled, AskConnected, LineAsks,
     AskedConnected, AskedClosed, LoopMaintains, LoopEnds, FetchFails, ReadReturns,
     LineGoesOn, EmptyReads, HeaderEnds, Tick, ConnectNoEntry, ConnectOk, TakeEntry,
     Establish, FirstFree, ConnectFails, Stop, Forget, LoopTakes, tableVars, pollVars,
     userVars, netVars, Counts
<1>2. CASE InitModem
  BY <1>2 DEF InitModem, Forget, TestAT, ResetReaches, tableVars, pollVars, userVars,
     netVars, Counts
<1>3. CASE PollCount
  <2>1. Counted \subseteq Nat
    <3>1. Len(link[poll].data) \in Nat
      BY DEF Linking, Links, Tables
    <3>2. QED
      BY <3>1 DEF Counted
  <2>2. PICK n \in Nat : \/ sock_available' = sock_available
                        \/ sock_available' = [sock_available EXCEPT ![sockets[poll]] = n]
    BY <1>3, <2>1 DEF PollCount
  <2>3. QED
    BY <2>2 DEF Counts
<1>4. CASE PollStatus
  BY <1>4 DEF PollStatus, Counts
<1>5. CASE Fetch
  <2> DEFINE m == mux[call.by]
             data == link[m].data
             n == Lesser(FifoRoom - Len(rx[call.by]), Len(data))
  <2>1. m \in Muxes
    BY <1>5 DEF Fetch, InPlace, HasEntry, Calling, Calls
  <2>2. Len(data) \in Nat
    BY <2>1 DEF Linking, Links
  <2>3. Len(rx[call.by]) \in Nat /\ Len(rx[call.by]) <= FifoRoom
    BY DEF Bytes, Calling, Calls
  <2>4. n \in Nat /\ n <= Len(data)
    BY <2>2, <2>3, Constants, SMTT(40) DEF Lesser
  <2>5. PICK k \in Nat : \/ sock_available' = sock_available
                        \/ sock_available' = [sock_available EXCEPT ![sockets[m]] = k]
    <3>1. Len(data) - n \in Nat
      BY <2>2, <2>4
    <3>2. QED
      BY <1>5, <2>4, <3>1 DEF Fetch
  <2>6. QED
    BY <2>5 DEF Counts
<1>6. ASSUME NEW c \in Clients, CloseCalled(c)
     PROVE  Counts'
  BY <1>6 DEF CloseCalled, tableVars, pollVars, userVars, netVars, Counts
<1>7. ASSUME NEW m \in Muxes, ServerSends(m) \/ ServerCloses(m)
      PROVE  Counts'
  BY <1>7 DEF ServerSends, ServerCloses, tableVars, pollVars, userVars, netVars, Counts
<1>8. CASE UNCHANGED vars
  BY <1>8 DEF vars, tableVars, pollVars, userVars, netVars, Counts
<1>9. QED
  BY <1>1, <1>2, <1>3, <1>4, <1>5, <1>6, <1>7, <1>8 DEF Next, Driver, Caller, Network

LEMMA CallingStep ==
  Calling /\ Bytes /\ [Next]_vars => Calling'
<1> SUFFICES ASSUME Calling, Bytes, [Next]_vars
             PROVE  Calling'
  BY SMTT(40)
<1>1. CASE PollEmpty \/ PollCount \/ PollStatus \/ Drain \/ FetchFails \/ LoopEnds \/ Tick
          \/ Fetch
  BY <1>1 DEF PollEmpty, NextEntry, PollCount, Counted, PollStatus, Drain, ReadNotices,
     FetchFails, LoopEnds, Tick, Fetch, tableVars, pollVars, userVars, netVars, Calling,
     Places, Calls
<1>2. CASE HttpStart \/ WriteCalled \/ InitModem
  BY <1>2, NoCallTyped DEF HttpStart, WriteCalled, Maintain, InitModem, Forget, TestAT,
     ResetReaches, tableVars, pollVars, userVars, netVars, Calling, Places, Calls, Clients
<1>3. CASE Send \/ HeaderEnds
  BY <1>3, NoCallTyped DEF Send, Return, HeaderEnds, EmptyReads, tableVars, pollVars,
     userVars, netVars, Calling, Places, Calls, Clients
<1>4. CASE DataCalled
  BY <1>4, NoCallTyped DEF DataCalled, AskConnected, Maintain, tableVars, pollVars,
     userVars, netVars, Calling, Places, Calls, Clients
<1>5. CASE LineAsks \/ LoopMaintains
  BY <1>5 DEF LineAsks, AskConnected, Maintain, LoopMaintains, tableVars, pollVars,
     userVars, netVars, Calling, Places, Calls
<1>6. CASE AskedClosed \/ ReadReturns \/ ConnectNoEntry \/ ConnectFails \/ ConnectOk \/ Stop
  BY <1>6, NoCallTyped DEF AskedClosed, Return, ReadReturns, ConnectNoEntry, ConnectFails,
     TakeEntry, ReadNotices, Establish, FirstFree, ConnectOk, Stop, Forget, tableVars,
     pollVars, userVars, netVars, Calling, Places
<1>7. CASE ReadCalled
  <2>1. PICK n \in 1 .. MaxRead :
          call' = [[NoCall EXCEPT !.op = "read"] EXCEPT !.want = n, !.after = "loop"]
    BY <1>7 DEF ReadCalled, EnterRead, Maintain
  <2>2. n \in Nat /\ pc' \in {"poll", "drain"}
    BY <1>7, Constants DEF ReadCalled, EnterRead, Maintain
  <2>3. QED
    BY <2>1, <2>2, NoCallTyped DEF Calling, Calls, Places
<1>8. CASE AskedConnected
  <2>1. PICK n \in 1 .. (IF call.op = "line" THEN 1 ELSE MaxRead) :
          call' = [call EXCEPT !.want = n, !.after = "loop"]
    BY <1>8 DEF AskedConnected, EnterRead, Maintain
  <2>2. n \in Nat /\ pc' \in {"poll", "drain"}
    BY <1>8, Constants DEF AskedConnected, EnterRead, Maintain
  <2>3. QED
    BY <2>1, <2>2 DEF Calling, Calls, Places
<1>9. CASE LineGoesOn
  <2>1. EmptyReads \in Nat
    BY DEF EmptyReads, Calling, Calls
  <2>2. QED
    BY <1>9, <2>1 DEF LineGoesOn, Calling, Calls, Places
<1>10. CASE LoopTakes
  <2>1. Len(rx[call.by]) \in Nat /\ call.want \in Nat
    BY DEF Bytes, Calling, Calls
  <2>2. call.want - Lesser(Len(rx[call.by]), call.want) \in Nat
    BY <2>1 DEF Lesser
  <2>3. pc' = pc /\ call' = [call EXCEPT !.want = @ - Lesser(Len(rx[call.by]), call.want)]
    BY <1>10 DEF LoopTakes
  <2>4. QED
    BY <2>2, <2>3 DEF Calling, Calls
<1>11. ASSUME NEW c \in Clients, CloseCalled(c)
     PROVE  Calling'
  BY <1>11 DEF CloseCalled, tableVars, pollVars, userVars, netVars, Calling, Calls, Places, NoCall
<1>12. ASSUME NEW m \in Muxes, ServerSends(m) \/ ServerCloses(m)
      PROVE  Calling'
  BY <1>12 DEF ServerSends, ServerCloses, tableVars, pollVars, userVars, netVars, Calling, Calls, Places, NoCall
<1>13. CASE UNCHANGED vars
  BY <1>13 DEF vars, tableVars, pollVars, userVars, netVars, Calling, Calls, Places, NoCall
<1>14. QED
  BY <1>1, <1>2, <1>3, <1>4, <1>5, <1>6, <1>7, <1>8, <1>9, <1>10, <1>11, <1>12, <1>13 DEF
     Next, Driver, Caller, Network

(* A client that uses a connection has an entry number, the table index of it. *)
LEMMA EntryStep ==
  Tables /\ Flags /\ Calling /\ InPlace /\ HasEntry /\ [Next]_vars => HasEntry'
<1> SUFFICES ASSUME Tables, Flags, Calling, InPlace, HasEntry, [Next]_vars
             PROVE  HasEntry'
  BY SMTT(40)
<1>1. CASE PollEmpty \/ PollCount \/ PollStatus \/ Drain \/ HttpStart \/ WriteCalled \/ Send
          \/ ReadCalled \/ DataCalled \/ LineAsks \/ AskedConnected \/ AskedClosed \/
          LoopMaintains \/ LoopEnds \/ FetchFails \/ ReadReturns \/ LineGoesOn \/ HeaderEnds
          \/ Tick \/ LoopTakes \/ Fetch
  BY <1>1 DEF PollEmpty, NextEntry, PollCount, Counted, PollStatus, Drain, ReadNotices,
     HttpStart, WriteCalled, Maintain, Send, Return, ReadCalled, EnterRead, DataCalled,
     AskConnected, LineAsks, AskedConnected, AskedClosed, LoopMaintains, LoopEnds,
     FetchFails, ReadReturns, LineGoesOn, EmptyReads, HeaderEnds, Tick, LoopTakes, Fetch,
     tableVars, pollVars, userVars, netVars, HasEntry
<1>2. CASE InitModem
  BY <1>2 DEF InitModem, Forget, TestAT, ResetReaches, tableVars, pollVars, userVars,
     netVars, HasEntry, Flags, Tables
<1>3. CASE ConnectNoEntry
  BY <1>3 DEF ConnectNoEntry, Return, tableVars, pollVars, userVars, netVars, HasEntry,
     InPlace, Tables
<1>4. CASE Stop
  BY <1>4 DEF Stop, Forget, ReadNotices, Return, tableVars, pollVars, userVars, netVars,
     HasEntry, Flags
<1>5. CASE ConnectOk \/ ConnectFails
  <2>1. FirstFree \in Muxes
    BY <1>5, FreeEntry DEF ConnectOk, ConnectFails
  <2>2. mux' = [mux EXCEPT ![call.by] = FirstFree]
    BY <1>5 DEF ConnectOk, ConnectFails, TakeEntry
  <2>3. \A c \in Clients : c # call.by => (use'[c] => use[c])
    BY <1>5 DEF ConnectOk, ConnectFails, userVars, Flags
  <2>4. QED
    BY <2>1, <2>2, <2>3 DEF HasEntry, Tables
<1>6. ASSUME NEW c \in Clients, CloseCalled(c)
     PROVE  HasEntry'
  BY <1>6 DEF CloseCalled, tableVars, pollVars, userVars, netVars, HasEntry
<1>7. ASSUME NEW m \in Muxes, ServerSends(m) \/ ServerCloses(m)
      PROVE  HasEntry'
  BY <1>7 DEF ServerSends, ServerCloses, tableVars, pollVars, userVars, netVars, HasEntry
<1>8. CASE UNCHANGED vars
  BY <1>8 DEF vars, tableVars, pollVars, userVars, netVars, HasEntry
<1>9. QED
  BY <1>1, <1>2, <1>3, <1>4, <1>5, <1>6, <1>7, <1>8 DEF Next, Driver, Caller, Network

(* Calls are made where the code makes them.                                  *)
LEMMA PlaceStep ==
  Flags /\ Calling /\ InPlace /\ [Next]_vars => InPlace'
<1> SUFFICES ASSUME Flags, Calling, InPlace, [Next]_vars
             PROVE  InPlace'
  OBVIOUS
<1>1. CASE PollEmpty
  BY <1>1 DEF PollEmpty, NextEntry, tableVars, pollVars, userVars, netVars, InPlace, NoCall,
     Calling, Calls, Places
<1>2. CASE PollCount
  BY <1>2 DEF PollCount, NextEntry, Counted, tableVars, pollVars, userVars, netVars,
     InPlace, NoCall, Calling, Calls, Places
<1>3. CASE PollStatus
  BY <1>3 DEF PollStatus, NextEntry, tableVars, pollVars, userVars, netVars, InPlace,
     NoCall, Calling, Calls, Places
<1>4. CASE Drain
  BY <1>4 DEF Drain, ReadNotices, tableVars, pollVars, userVars, netVars, InPlace, NoCall,
     Calling, Calls, Places
<1>5. CASE HttpStart
  BY <1>5 DEF HttpStart, tableVars, pollVars, userVars, netVars, InPlace, NoCall, Calling,
     Calls, Places
<1>6. CASE WriteCalled
  BY <1>6 DEF WriteCalled, Maintain, tableVars, pollVars, userVars, netVars, InPlace,
     NoCall, Calling, Calls, Places
<1>7. CASE Send
  BY <1>7 DEF Send, Return, tableVars, pollVars, userVars, netVars, InPlace, NoCall,
     Calling, Calls, Places
<1>8. CASE ReadCalled
  BY <1>8 DEF ReadCalled, EnterRead, Maintain, tableVars, pollVars, userVars, netVars,
     InPlace, NoCall, Calling, Calls, Places
<1>9. CASE DataCalled
  BY <1>9 DEF DataCalled, AskConnected, Maintain, tableVars, pollVars, userVars, netVars,
     InPlace, NoCall, Calling, Calls, Places
<1>10. CASE LineAsks
  BY <1>10 DEF LineAsks, AskConnected, Maintain, tableVars, pollVars, userVars, netVars,
     InPlace, NoCall, Calling, Calls, Places
<1>11. CASE AskedConnected
  BY <1>11 DEF AskedConnected, EnterRead, Maintain, tableVars, pollVars, userVars, netVars,
     InPlace, NoCall, Calling, Calls, Places
<1>12. CASE AskedClosed
  BY <1>12 DEF AskedClosed, Return, tableVars, pollVars, userVars, netVars, InPlace, NoCall,
     Calling, Calls, Places
<1>13. CASE LoopMaintains
  BY <1>13 DEF LoopMaintains, Maintain, tableVars, pollVars, userVars, netVars, InPlace,
     NoCall, Calling, Calls, Places
<1>14. CASE LoopEnds
  BY <1>14 DEF LoopEnds, tableVars, pollVars, userVars, netVars, InPlace, NoCall, Calling,
     Calls, Places
<1>15. CASE FetchFails
  BY <1>15 DEF FetchFails, tableVars, pollVars, userVars, netVars, InPlace, NoCall, Calling,
     Calls, Places
<1>16. CASE ReadReturns
  BY <1>16 DEF ReadReturns, Return, tableVars, pollVars, userVars, netVars, InPlace, NoCall,
     Calling, Calls, Places
<1>17. CASE LineGoesOn
  BY <1>17 DEF LineGoesOn, EmptyReads, tableVars, pollVars, userVars, netVars, InPlace,
     NoCall, Calling, Calls, Places
<1>18. CASE Tick
  BY <1>18 DEF Tick, tableVars, pollVars, userVars, netVars, InPlace, NoCall, Calling,
     Calls, Places
<1>19. CASE ConnectNoEntry
  BY <1>19 DEF ConnectNoEntry, Return, tableVars, pollVars, userVars, netVars, InPlace,
     NoCall, Calling, Calls, Places
<1>20. CASE ConnectFails
  BY <1>20 DEF ConnectFails, TakeEntry, ReadNotices, Establish, Return, FirstFree,
     tableVars, pollVars, userVars, netVars, InPlace, NoCall, Calling, Calls, Places
<1>21. CASE LoopTakes
  BY <1>21, SMTT(40) DEF LoopTakes, tableVars, pollVars, userVars, netVars, InPlace, NoCall, Calling,
     Calls, Places
<1>22. CASE Fetch
  BY <1>22 DEF Fetch, tableVars, pollVars, userVars, netVars, InPlace, NoCall, Calling,
     Calls, Places
<1>23. CASE InitModem
  BY <1>23 DEF InitModem, Forget, TestAT, ResetReaches, tableVars, pollVars, userVars,
     netVars, InPlace, NoCall, Clients, Flags
<1>24. CASE ConnectOk
  BY <1>24 DEF ConnectOk, TakeEntry, ReadNotices, Establish, Return, FirstFree, tableVars,
     pollVars, userVars, netVars, InPlace, NoCall, Calling, Calls, Clients, Flags
<1>25. CASE HeaderEnds
  <2>1. call.op = "line" /\ pc = "read" /\ use' = use
    BY <1>25 DEF HeaderEnds, userVars
  <2>2. use["mqtt"] /\ use["http"]
    BY <2>1 DEF InPlace
  <2>3. CASE pc' = "app" /\ call' = NoCall
    BY <2>3 DEF InPlace, NoCall
  <2>4. CASE pc' = "stop" /\ call' = [NoCall EXCEPT !.op = "stop", !.by = "http"]
    <3>1. call'.op = "stop" /\ call'.by = "http"
      BY <2>4 DEF NoCall
    <3>2. QED
      BY <2>1, <2>2, <2>4, <3>1 DEF InPlace
  <2>5. QED
    BY <1>25, <2>3, <2>4 DEF HeaderEnds, Return
<1>26. CASE Stop
  BY <1>26 DEF Stop, Forget, ReadNotices, Return, tableVars, pollVars, userVars, netVars,
     InPlace, NoCall, Calling, Calls, Clients
<1>27. ASSUME NEW c \in Clients, CloseCalled(c)
     PROVE  InPlace'
  BY <1>27 DEF CloseCalled, tableVars, pollVars, userVars, netVars, InPlace, Calling, NoCall
<1>28. ASSUME NEW m \in Muxes, ServerSends(m) \/ ServerCloses(m)
      PROVE  InPlace'
  BY <1>28 DEF ServerSends, ServerCloses, tableVars, pollVars, userVars, netVars, InPlace, Calling, NoCall
<1>29. CASE UNCHANGED vars
  BY <1>29 DEF vars, tableVars, pollVars, userVars, netVars, InPlace, Calling, NoCall
<1>30. QED
  BY <1>1, <1>2, <1>3, <1>4, <1>5, <1>6, <1>7, <1>8, <1>9, <1>10, <1>11, <1>12, <1>13,
     <1>14, <1>15, <1>16, <1>17, <1>18, <1>19, <1>20, <1>21, <1>22, <1>23, <1>24, <1>25,
     <1>26, <1>27, <1>28, <1>29 DEF Next, Driver, Caller, Network

-----------------------------------------------------------------------------
(* Most steps neither touch the table nor move a byte.                        *)
Still ==
  /\ UNCHANGED <<sockets, mux, rx, use, gen, got, link, made>>
  /\ pc' = "crashed" => pc = "crashed"
  /\ pc' = "open" /\ call'.by = "mqtt" => pc = "open" /\ call.by = "mqtt"

(* A step is one of these.                                                    *)
LEMMA StepKinds ==
  ASSUME Calling, [Next]_vars
  PROVE  \/ Still \/ InitModem \/ ConnectNoEntry \/ ConnectOk \/ ConnectFails \/ Stop
         \/ LoopTakes \/ Fetch \/ \E m \in Muxes : ServerSends(m) \/ ServerCloses(m)
<1>1. CASE HttpStart
  BY <1>1 DEF HttpStart, tableVars, pollVars, userVars, netVars, Still, NoCall, Calls
<1>2. CASE Drain
  BY <1>2 DEF Drain, ReadNotices, tableVars, pollVars, userVars, netVars, Still, Calling,
     Calls
<1>3. CASE HeaderEnds
  BY <1>3 DEF HeaderEnds, EmptyReads, Return, tableVars, pollVars, userVars, netVars, Still,
     NoCall, Calls
<1>4. CASE AskedClosed \/ ReadReturns
  BY <1>4 DEF AskedClosed, Return, ReadReturns, tableVars, pollVars, userVars, netVars,
     Still
<1>5. CASE PollEmpty \/ PollCount \/ PollStatus
  BY <1>5 DEF PollEmpty, NextEntry, PollCount, Counted, PollStatus, tableVars, pollVars,
     userVars, netVars, Still
<1>6. CASE WriteCalled \/ ReadCalled \/ DataCalled
  BY <1>6 DEF WriteCalled, Maintain, ReadCalled, EnterRead, DataCalled, AskConnected,
     tableVars, pollVars, userVars, netVars, Still
<1>7. CASE Send \/ LineAsks \/ AskedConnected \/ LoopMaintains \/ LoopEnds
  BY <1>7 DEF Send, Return, LineAsks, AskConnected, Maintain, AskedConnected, EnterRead,
     LoopMaintains, LoopEnds, tableVars, pollVars, userVars, netVars, Still
<1>8. CASE FetchFails \/ LineGoesOn \/ Tick
  BY <1>8 DEF FetchFails, LineGoesOn, EmptyReads, Tick, tableVars, pollVars, userVars,
     netVars, Still
<1>9. ASSUME NEW c \in Clients, CloseCalled(c)
      PROVE  Still
  BY <1>9 DEF CloseCalled, tableVars, netVars, userVars, Still
<1>10. CASE UNCHANGED vars
  BY <1>10 DEF vars, tableVars, netVars, userVars, Still
<1>11. QED
  BY <1>1, <1>2, <1>3, <1>4, <1>5, <1>6, <1>7, <1>8, <1>9, <1>10 DEF Next, Driver, Caller, Network

-----------------------------------------------------------------------------
(* Pieces of sequences.                                                       *)
Byte == Nat \X Nat

(* The first k elements of s.                                                 *)
LEMMA FirstPart ==
  ASSUME NEW S, NEW s \in Seq(S), NEW k \in Nat, k <= Len(s)
  PROVE  /\ SubSeq(s, 1, k) \in Seq(S) /\ Len(SubSeq(s, 1, k)) = k
         /\ \A i \in 1 .. k : SubSeq(s, 1, k)[i] = s[i]
<1>1. Len(s) \in Nat /\ \A i \in 1 .. k : s[i] \in S
  OBVIOUS
<1>2. /\ SubSeq(s, 1, k) \in Seq(S)
      /\ Len(SubSeq(s, 1, k)) = IF 1 <= k THEN k - 1 + 1 ELSE 0
      /\ \A i \in 1 .. k - 1 + 1 : SubSeq(s, 1, k)[i] = s[1 + i - 1]
  <2>1. 1 \in Int /\ k \in Int
    OBVIOUS
  <2>2. QED
    BY <1>1, <2>1, SubSeqProperties
<1>3. k - 1 + 1 = k /\ (1 <= k => k - 1 + 1 = k) /\ (~(1 <= k) => k = 0)
  OBVIOUS
<1>4. Len(SubSeq(s, 1, k)) = k
  BY <1>2, <1>3
<1>5. \A i \in 1 .. k : SubSeq(s, 1, k)[i] = s[i]
  <2>1. \A i \in 1 .. k : i \in 1 .. k - 1 + 1 /\ 1 + i - 1 = i
    OBVIOUS
  <2>2. QED
    BY <1>2, <2>1, Zenon
<1>6. QED
  BY <1>2, <1>4, <1>5

(* The elements after the k-th.                                               *)
LEMMA Rest ==
  ASSUME NEW S, NEW s \in Seq(S), NEW k \in Nat, k <= Len(s)
  PROVE  /\ SubSeq(s, k + 1, Len(s)) \in Seq(S) /\ Len(SubSeq(s, k + 1, Len(s))) = Len(s) - k
         /\ \A i \in 1 .. Len(s) - k : SubSeq(s, k + 1, Len(s))[i] = s[k + i]
<1> DEFINE m == k + 1
           n == Len(s)
<1>1. n \in Nat /\ \A i \in m .. n : s[i] \in S
  OBVIOUS
<1> HIDE DEF m, n
<1>2. /\ SubSeq(s, m, n) \in Seq(S)
      /\ Len(SubSeq(s, m, n)) = IF m <= n THEN n - m + 1 ELSE 0
      /\ \A i \in 1 .. n - m + 1 : SubSeq(s, m, n)[i] = s[m + i - 1]
  <2>1. m \in Int /\ n \in Int
    BY <1>1 DEF m
  <2>2. QED
    BY <1>1, <2>1, SubSeqProperties
<1>3. n - m + 1 = n - k /\ (~(m <= n) => n - k = 0)
  BY <1>1 DEF m, n
<1>4. Len(SubSeq(s, m, n)) = n - k
  BY <1>2, <1>3
<1>5. \A i \in 1 .. n - k : SubSeq(s, m, n)[i] = s[k + i]
  <2>1. \A i \in 1 .. n - k : i \in 1 .. n - m + 1 /\ m + i - 1 = k + i
    BY <1>1, <1>3 DEF m
  <2>2. QED
    BY <1>2, <2>1, Zenon
<1>6. QED
  BY <1>2, <1>4, <1>5 DEF m, n

(* One sequence after another.                                                *)
LEMMA Joined ==
  ASSUME NEW S, NEW s \in Seq(S), NEW t \in Seq(S)
  PROVE  /\ s \o t \in Seq(S) /\ Len(s \o t) = Len(s) + Len(t)
         /\ Len(s) \in Nat /\ Len(t) \in Nat
         /\ \A i \in 1 .. Len(s) : (s \o t)[i] = s[i]
         /\ \A i \in 1 .. Len(t) : (s \o t)[Len(s) + i] = t[i]
<1>1. Len(s) \in Nat /\ Len(t) \in Nat
  OBVIOUS
<1>2. /\ s \o t \in Seq(S) /\ Len(s \o t) = Len(s) + Len(t)
      /\ \A i \in 1 .. Len(s) + Len(t) :
           (s \o t)[i] = IF i <= Len(s) THEN s[i] ELSE t[i - Len(s)]
  BY ConcatProperties, Zenon
<1>3. \A i \in 1 .. Len(s) : (s \o t)[i] = s[i]
  <2>1. \A i \in 1 .. Len(s) : i \in 1 .. Len(s) + Len(t) /\ i <= Len(s)
    BY <1>1
  <2>2. QED
    BY <1>2, <2>1, Zenon
<1>4. \A i \in 1 .. Len(t) : (s \o t)[Len(s) + i] = t[i]
  <2>1. \A i \in 1 .. Len(t) : /\ Len(s) + i \in 1 .. Len(s) + Len(t)
                               /\ ~(Len(s) + i <= Len(s)) /\ (Len(s) + i) - Len(s) = i
    BY <1>1
  <2>2. QED
    BY <1>2, <2>1, Zenon
<1>5. QED
  BY <1>1, <1>2, <1>3, <1>4

(* Numbered is kept by cutting and by joining.                                *)
LEMMA NoneNumbered ==
  ASSUME NEW g, NEW k
  PROVE  Numbered(<<>>, g, k) /\ Len(<<>>) = 0
  BY EmptySeq DEF Numbered

LEMMA SplitNumbered ==
  ASSUME NEW S, NEW s \in Seq(S), NEW g, NEW k \in Nat, NEW n \in Nat, n <= Len(s),
         Numbered(s, g, k)
  PROVE  /\ Numbered(SubSeq(s, 1, n), g, k)
         /\ Numbered(SubSeq(s, n + 1, Len(s)), g, k + n)
<1> DEFINE t == SubSeq(s, 1, n)
           u == SubSeq(s, n + 1, Len(s))
<1>1. Len(t) = n /\ \A i \in 1 .. n : t[i] = s[i]
  BY FirstPart
<1>2. Len(u) = Len(s) - n /\ \A i \in 1 .. Len(s) - n : u[i] = s[n + i]
  BY Rest
<1>3. Len(s) \in Nat
  OBVIOUS
<1> HIDE DEF t, u
<1>4. \A i \in 1 .. n : t[i] = <<g, k + i>>
  <2>1. \A i \in 1 .. n : i \in 1 .. Len(s)
    BY <1>3
  <2>2. QED
    BY <1>1, <2>1 DEF Numbered
<1>5. \A i \in 1 .. Len(s) - n : u[i] = <<g, (k + n) + i>>
  <2>1. \A i \in 1 .. Len(s) - n : n + i \in 1 .. Len(s) /\ k + (n + i) = (k + n) + i
    BY <1>3
  <2>2. QED
    BY <1>2, <2>1 DEF Numbered
<1>6. Numbered(t, g, k) /\ Numbered(u, g, k + n)
  BY <1>1, <1>2, <1>4, <1>5, Zenon DEF Numbered
<1>7. QED
  BY <1>6 DEF t, u

LEMMA JoinNumbered ==
  ASSUME NEW S, NEW s \in Seq(S), NEW t \in Seq(S), NEW g, NEW k \in Nat,
         Numbered(s, g, k), Numbered(t, g, k + Len(s))
  PROVE  Numbered(s \o t, g, k)
<1> DEFINE u == s \o t
<1>1. /\ Len(u) = Len(s) + Len(t) /\ Len(s) \in Nat /\ Len(t) \in Nat
      /\ \A i \in 1 .. Len(s) : u[i] = s[i]
      /\ \A i \in 1 .. Len(t) : u[Len(s) + i] = t[i]
  BY Joined
<1> HIDE DEF u
<1>2. SUFFICES ASSUME NEW i \in 1 .. Len(s) + Len(t)
               PROVE  u[i] = <<g, k + i>>
  BY <1>1, Zenon DEF Numbered, u
<1>3. CASE i \in 1 .. Len(s)
  BY <1>1, <1>3 DEF Numbered
<1>4. CASE i \notin 1 .. Len(s)
  <2> DEFINE j == i - Len(s)
  <2>1. /\ j \in 1 .. Len(t) /\ Len(s) + j = i
        /\ (k + Len(s)) + j = k + i
    BY <1>1, <1>4
  <2> HIDE DEF j
  <2>2. u[Len(s) + j] = <<g, (k + Len(s)) + j>>
    BY <1>1, <2>1, Zenon DEF Numbered
  <2>3. QED
    BY <2>1, <2>2, Zenon
<1>5. QED
  BY <1>3, <1>4

(* Sums and lengths.                                                          *)
LEMMA SumGrown == \A j, d \in Nat : (j + 1) - (d + 1) = j - d
  OBVIOUS
(* What fits in a FIFO of f bytes with r in it, of d bytes there are.         *)
LEMMA Room == \A f, r, d \in Nat : r <= f =>
                Lesser(f - r, d) \in Nat /\ Lesser(f - r, d) <= d /\ r + Lesser(f - r, d) <= f
  BY DEF Lesser
LEMMA Lengths == ASSUME NEW S, NEW s \in Seq(S) PROVE Len(s) \in Nat
  OBVIOUS

(* The first n bytes of r follow s: the caller takes them from its FIFO.      *)
Taken(s, r, n) == s \o SubSeq(r, 1, n)
Left(r, n) == SubSeq(r, n + 1, Len(r))

LEMMA Moved ==
  ASSUME NEW S, NEW s \in Seq(S), NEW r \in Seq(S), NEW n \in Nat, n <= Len(r), NEW g,
         NEW k \in Nat, Numbered(s, g, k), Numbered(r, g, k + Len(s))
  PROVE  /\ Taken(s, r, n) \in Seq(S)
         /\ Numbered(Taken(s, r, n), g, k)
         /\ Numbered(Left(r, n), g, k + Len(Taken(s, r, n)))
         /\ Len(Taken(s, r, n)) = Len(s) + n
         /\ Len(Left(r, n)) = Len(r) - n
         /\ Len(Taken(s, r, n)) + Len(Left(r, n)) = Len(s) + Len(r)
<1> DEFINE first == SubSeq(r, 1, n)
           t == Taken(s, r, n)
           u == Left(r, n)
<1>1. Len(s) \in Nat /\ Len(r) \in Nat /\ k + Len(s) \in Nat
  OBVIOUS
<1>2. Numbered(first, g, k + Len(s)) /\ Numbered(u, g, (k + Len(s)) + n)
  BY <1>1, SplitNumbered DEF Left
<1>3. first \in Seq(S) /\ Len(first) = n
  BY FirstPart
<1>4. Len(u) = Len(r) - n
  BY Rest DEF Left
<1>t. t = s \o first
  BY DEF Taken
<1> HIDE DEF first, u, t
<1>5. Len(t) = Len(s) + n /\ t \in Seq(S)
  BY <1>3, <1>t, Joined
<1>6. Numbered(t, g, k)
  BY <1>2, <1>3, <1>t, JoinNumbered
<1>7. (k + Len(s)) + n = k + Len(t) /\ Len(t) + Len(u) = Len(s) + Len(r)
  BY <1>1, <1>4, <1>5
<1>8. QED
  BY <1>2, <1>4, <1>5, <1>6, <1>7 DEF t, u

(* The first n bytes of d follow r, n of the j bytes sent: the driver fetches *)
(* them.                                                                      *)
LEMMA Fetched ==
  ASSUME NEW S, NEW r \in Seq(S), NEW d \in Seq(S), NEW n \in Nat, n <= Len(d), NEW g,
         NEW k \in Nat, NEW j \in Nat, Numbered(r, g, k), Numbered(d, g, j - Len(d)),
         k + Len(r) + Len(d) = j
  PROVE  /\ Numbered(Taken(r, d, n), g, k)
         /\ Numbered(Left(d, n), g, j - Len(Left(d, n)))
         /\ k + Len(Taken(r, d, n)) + Len(Left(d, n)) = j
<1> DEFINE t == Taken(r, d, n)
           u == Left(d, n)
<1>1. Len(r) \in Nat /\ Len(d) \in Nat /\ j - Len(d) = k + Len(r)
  OBVIOUS
<1>2. Numbered(d, g, k + Len(r))
  BY <1>1, Zenon
<1>3. /\ Numbered(t, g, k) /\ Numbered(u, g, k + Len(t))
      /\ Len(t) = Len(r) + n /\ Len(u) = Len(d) - n
  BY <1>2, Moved
<1> HIDE DEF t, u
<1>4. k + Len(t) + Len(u) = j /\ j - Len(u) = k + Len(t)
  BY <1>1, <1>3
<1>5. QED
  BY <1>3, <1>4, Zenon DEF t, u

(* One more byte comes, the j-th.                                             *)
LEMMA Grown ==
  ASSUME NEW S, NEW s \in Seq(S), NEW g, NEW k \in Int, <<g, k + Len(s) + 1>> \in S,
         Numbered(s, g, k)
  PROVE  LET t == Append(s, <<g, k + Len(s) + 1>>) IN
         Numbered(t, g, k) /\ Len(t) = Len(s) + 1
<1> DEFINE t == Append(s, <<g, k + Len(s) + 1>>)
<1>1. /\ Len(t) = Len(s) + 1 /\ \A i \in 1 .. Len(s) : t[i] = s[i]
      /\ t[Len(s) + 1] = <<g, k + Len(s) + 1>>
  BY AppendProperties
<1>2. Len(s) \in Nat
  OBVIOUS
<1> HIDE DEF t
<1>3. \A i \in 1 .. Len(s) + 1 : i \in 1 .. Len(s) \/ i = Len(s) + 1
  BY <1>2
<1>4. k + Len(s) + 1 = k + (Len(s) + 1)
  BY <1>2
<1>5. \A i \in 1 .. Len(s) + 1 : t[i] = <<g, k + i>>
  BY <1>1, <1>3, <1>4, Zenon DEF Numbered
<1>6. QED
  BY <1>1, <1>5, Zenon DEF Numbered, t

(* The two lemmas for bytes.                                                  *)
LEMMA MovedBytes ==
  \A s, r \in Seq(Byte), n, k \in Nat : \A g :
    n <= Len(r) /\ Numbered(s, g, k) /\ Numbered(r, g, k + Len(s)) =>
      /\ Taken(s, r, n) \in Seq(Byte)
      /\ Numbered(Taken(s, r, n), g, k)
      /\ Numbered(Left(r, n), g, k + Len(Taken(s, r, n)))
      /\ Len(Taken(s, r, n)) + Len(Left(r, n)) = Len(s) + Len(r)
  BY Moved

LEMMA FetchedBytes ==
  \A r, d \in Seq(Byte), n, k, j \in Nat : \A g :
    n <= Len(d) /\ Numbered(r, g, k) /\ Numbered(d, g, j - Len(d)) /\ k + Len(r) + Len(d) = j =>
      /\ Numbered(Taken(r, d, n), g, k)
      /\ Numbered(Left(d, n), g, j - Len(Left(d, n)))
      /\ k + Len(Taken(r, d, n)) + Len(Left(d, n)) = j
  BY Fetched

(* The FIFOs and what the callers have read.                                  *)
LEMMA BytesStep ==
  Tables /\ Bytes /\ Calling /\ Linking /\ InPlace /\ HasEntry /\ [Next]_vars => Bytes'
<1> SUFFICES ASSUME Tables, Bytes, Calling, Linking, InPlace, HasEntry, [Next]_vars
             PROVE  Bytes'
  OBVIOUS
<1>0. <<>> \in Seq(Byte) /\ Len(<<>>) = 0 /\ 0 <= FifoRoom
  BY EmptySeq, Constants
(* Some FIFOs and some of what was got are emptied. *)
<1>a. ASSUME NEW c,
             rx' = rx \/ rx' = [rx EXCEPT ![c] = <<>>],
             got' = got \/ got' = [got EXCEPT ![c] = <<>>]
      PROVE  Bytes'
  <2>1. rx' \in [Clients -> Seq(Byte)] /\ got' \in [Clients -> Seq(Byte)]
    BY <1>0, <1>a DEF Bytes, Byte
  <2>2. ASSUME NEW d \in Clients
        PROVE  Len(rx'[d]) <= FifoRoom
    <3>1. rx'[d] = rx[d] \/ rx'[d] = <<>>
      BY <1>a DEF Bytes
    <3>2. QED
      BY <1>0, <3>1 DEF Bytes
  <2>3. QED
    BY <2>1, <2>2 DEF Bytes, Byte
<1>1. CASE Still
  BY <1>1 DEF Still, Bytes
<1>2. CASE InitModem \/ ConnectNoEntry \/ ConnectOk \/ ConnectFails \/ Stop
  BY <1>2, <1>a DEF InitModem, Forget, ConnectNoEntry, ConnectOk, ConnectFails, TakeEntry, Stop,
     userVars
<1>3. CASE LoopTakes
  <2> DEFINE c == call.by
             chunk == Lesser(Len(rx[c]), call.want)
  <2>1. /\ c \in Clients /\ rx[c] \in Seq(Byte) /\ got[c] \in Seq(Byte) /\ Len(rx[c]) \in Nat
        /\ call.want \in Nat
    BY DEF Calling, Calls, Bytes, Byte
  <2>2. chunk \in Nat /\ chunk <= Len(rx[c])
    BY <2>1 DEF Lesser
  <2>3. /\ got' = [got EXCEPT ![c] = got[c] \o SubSeq(rx[c], 1, chunk)]
        /\ rx' = [rx EXCEPT ![c] = SubSeq(rx[c], chunk + 1, Len(rx[c]))]
    BY <1>3 DEF LoopTakes
  <2> HIDE DEF chunk
  <2>4. SubSeq(rx[c], 1, chunk) \in Seq(Byte)
    BY <2>1, <2>2, FirstPart
  <2>5. got[c] \o SubSeq(rx[c], 1, chunk) \in Seq(Byte)
    BY <2>1, <2>4, Joined
  <2>6. /\ SubSeq(rx[c], chunk + 1, Len(rx[c])) \in Seq(Byte)
        /\ Len(SubSeq(rx[c], chunk + 1, Len(rx[c]))) <= FifoRoom
    <3>1. /\ SubSeq(rx[c], chunk + 1, Len(rx[c])) \in Seq(Byte)
          /\ Len(SubSeq(rx[c], chunk + 1, Len(rx[c]))) = Len(rx[c]) - chunk
      BY <2>1, <2>2, Rest
    <3>2. Len(rx[c]) <= FifoRoom
      BY <2>1 DEF Bytes
    <3>3. QED
      BY <2>1, <2>2, <3>1, <3>2, Constants
  <2>7. QED
    BY <2>3, <2>5, <2>6 DEF Bytes, Byte
<1>4. CASE Fetch
  <2> DEFINE m == mux[call.by]
             o == sockets[m]
             data == link[m].data
             n == Lesser(FifoRoom - Len(rx[call.by]), Len(data))
             bytes == IF ~notice THEN SubSeq(data, 1, n)
                      ELSE IF m = 0 THEN <<>> ELSE << <<0, 0>> >>
             filled == rx[o] \o bytes
             room == Lesser(FifoRoom, Len(filled))
  <2>1. CASE o = None
    BY <1>4, <2>1 DEF Fetch, userVars, Bytes
  <2>2. CASE o # None
    <3>1. m \in Muxes /\ o \in Clients /\ call.by \in Clients
      BY <1>4, <2>2 DEF Fetch, InPlace, HasEntry, Calling, Calls, Tables
    <3>2. /\ data \in Seq(Byte) /\ Len(data) \in Nat /\ rx[o] \in Seq(Byte)
          /\ Len(rx[call.by]) \in Nat /\ Len(rx[call.by]) <= FifoRoom
      BY <3>1 DEF Linking, Links, Bytes, Byte
    <3>3. n \in Nat /\ n <= Len(data)
      BY <3>2, Constants, SMTT(40) DEF Lesser
    <3>4. rx' = [rx EXCEPT ![o] = SubSeq(filled, 1, room)] /\ got' = got
      BY <1>4, <2>2 DEF Fetch, userVars
    <3> HIDE DEF m, o, data, n
    <3>5. bytes \in Seq(Byte)
      <4>1. SubSeq(data, 1, n) \in Seq(Byte)
        BY <3>2, <3>3, FirstPart
      <4>2. << <<0, 0>> >> \in Seq(Byte)
        BY DEF Byte
      <4>3. QED
        BY <1>0, <4>1, <4>2
    <3> HIDE DEF bytes
    <3>6. filled \in Seq(Byte) /\ Len(filled) \in Nat
      BY <3>2, <3>5, Joined
    <3> HIDE DEF filled
    <3>7. room \in Nat /\ room <= Len(filled) /\ room <= FifoRoom
      BY <3>6, Constants DEF Lesser
    <3> HIDE DEF room
    <3>8. SubSeq(filled, 1, room) \in Seq(Byte) /\ Len(SubSeq(filled, 1, room)) = room
      BY <3>6, <3>7, FirstPart
    <3>9. QED
      BY <3>1, <3>4, <3>7, <3>8 DEF Bytes, Byte
  <2>3. QED
    BY <2>1, <2>2
<1>5. ASSUME NEW m \in Muxes, ServerSends(m) \/ ServerCloses(m)
      PROVE  Bytes'
  BY <1>5 DEF ServerSends, ServerCloses, tableVars, userVars, Bytes
<1>6. QED
  BY <1>1, <1>2, <1>3, <1>4, <1>5, StepKinds

(* The connections of the modem.                                              *)
LEMMA LinkingStep ==
  Tables /\ Bytes /\ Calling /\ Linking /\ InPlace /\ HasEntry /\ [Next]_vars => Linking'
<1> SUFFICES ASSUME Tables, Bytes, Calling, Linking, InPlace, HasEntry, [Next]_vars
             PROVE  Linking'
  OBVIOUS
<1>0. Absent \in Links
  BY EmptySeq DEF Absent, Links
<1>1. CASE Still
  BY <1>1 DEF Still, Linking
<1>2. CASE InitModem \/ ConnectNoEntry \/ Stop \/ LoopTakes
  BY <1>0, <1>2 DEF InitModem, ConnectNoEntry, Stop, LoopTakes, netVars, Linking
<1>3. CASE ConnectOk \/ ConnectFails
  <2>1. PICK m : link' = link \/ (made' = made + 1 /\ link' = [link EXCEPT ![m] =
                                    [id |-> made', open |-> TRUE, sent |-> 0, data |-> <<>>]])
    BY <1>3 DEF ConnectOk, ConnectFails, Establish
  <2>2. made + 1 \in Nat
    BY Constants DEF Tables
  <2>3. [id |-> made + 1, open |-> TRUE, sent |-> 0, data |-> <<>>] \in Links
    BY <2>2, EmptySeq DEF Links
  <2>4. QED
    BY <2>1, <2>3 DEF Linking
<1>4. CASE Fetch
  <2> DEFINE m == mux[call.by]
             data == link[m].data
             n == Lesser(FifoRoom - Len(rx[call.by]), Len(data))
  <2>1. m \in Muxes /\ call.by \in Clients
    BY <1>4 DEF Fetch, InPlace, HasEntry, Calling, Calls, Tables
  <2>2. /\ data \in Seq(Byte) /\ Len(data) \in Nat
        /\ Len(rx[call.by]) \in Nat /\ Len(rx[call.by]) <= FifoRoom
    BY <2>1 DEF Linking, Links, Bytes, Byte
  <2>3. n \in Nat /\ n <= Len(data)
    BY <2>2, Constants DEF Lesser
  <2>4. link' = [link EXCEPT ![m].data = SubSeq(data, n + 1, Len(data))]
    BY <1>4 DEF Fetch
  <2> HIDE DEF data, n
  <2>5. SubSeq(data, n + 1, Len(data)) \in Seq(Byte)
    BY <2>2, <2>3, Rest
  <2>6. QED
    BY <2>1, <2>4, <2>5 DEF Linking, Links, Byte
<1>5. ASSUME NEW m \in Muxes, ServerSends(m)
      PROVE  Linking'
  <2> DEFINE n == link[m].sent + 1
  <2>1. link[m] \in Links /\ n \in Nat /\ link[m].id \in Nat
    BY DEF Linking, Links
  <2>2. Append(link[m].data, <<link[m].id, n>>) \in Seq(Nat \X Nat)
    BY <2>1 DEF Links
  <2>3. link' = [link EXCEPT ![m].sent = n, ![m].data = Append(link[m].data, <<link[m].id, n>>)]
    BY <1>5 DEF ServerSends, Linking
  <2> HIDE DEF n
  <2>4. QED
    BY <2>1, <2>2, <2>3 DEF Linking, Links
<1>6. ASSUME NEW m \in Muxes, ServerCloses(m)
      PROVE  Linking'
  BY <1>6 DEF ServerCloses, Linking, Links
<1>7. QED
  BY <1>1, <1>2, <1>3, <1>4, <1>5, <1>6, StepKinds

TypeInv == WellTyped /\ InPlace /\ HasEntry

(* The type invariant, which is inductive with InPlace and HasEntry.          *)
LEMMA InitTyped == Init => TypeInv
<1> SUFFICES ASSUME Init
             PROVE  TypeInv
  OBVIOUS
<1>1. Tables /\ Counts
  BY Constants DEF Init, Tables, Counts, Muxes, Clients
<1>2. Flags
  BY DEF Init, Flags
<1>3. Bytes
  BY EmptySeq, Constants DEF Init, Bytes
<1>4. Calling
  BY NoCallTyped DEF Init, Calling, Places
<1>5. Linking
  BY EmptySeq DEF Init, Linking, Links, Absent
<1>6. InPlace /\ HasEntry
  BY DEF Init, InPlace, HasEntry, NoCall
<1>7. QED
  BY <1>1, <1>2, <1>3, <1>4, <1>5, <1>6, TypeParts DEF TypeInv

LEMMA TypeStep == TypeInv /\ [Next]_vars => TypeInv'
<1> SUFFICES ASSUME TypeInv, [Next]_vars
             PROVE  TypeInv'
  OBVIOUS
<1>1. Tables /\ Flags /\ Counts /\ Bytes /\ Calling /\ Linking /\ InPlace /\ HasEntry
  BY TypeParts DEF TypeInv
<1>2. Tables' /\ Flags' /\ Counts' /\ Bytes' /\ Calling' /\ Linking'
  BY <1>1, TablesStep, FlagsStep, CountsStep, BytesStep, CallingStep, LinkingStep
<1>3. InPlace' /\ HasEntry'
  BY <1>1, PlaceStep, EntryStep
<1>4. QED
  BY <1>2, <1>3 DEF TypeInv, WellTyped, TypeOK, Tables, Flags, Counts, Bytes, Calling, Linking

(* Every variable stays in its range, and a FIFO never holds more than it can, *)
(* whatever the modem does wrong.                                             *)
THEOREM TypeCorrect == Spec => []TypeOK
<1>1. TypeInv => TypeOK
  BY DEF TypeInv, WellTyped
<1>2. QED
  BY <1>1, InitTyped, TypeStep, PTL DEF Spec

-----------------------------------------------------------------------------
(* The entries of the table are kept, but for a modem that is silent.          *)
LEMMA EntriesStep ==
  "silent" \notin Faults /\ Tables /\ Flags /\ Calling /\ InPlace /\ Entries /\ [Next]_vars => Entries'
<1> SUFFICES ASSUME "silent" \notin Faults, Tables, Flags, Calling, InPlace, Entries, [Next]_vars
             PROVE  Entries'
  OBVIOUS
<1>1. CASE Still
  BY <1>1 DEF Still, Entries
<1>2. CASE InitModem
  <2>1. /\ sockets' = [m \in Muxes |-> None]
        /\ mux' = [mux EXCEPT !["mqtt"] = INVALID_MUX]
        /\ use' = [use EXCEPT !["mqtt"] = FALSE]
    BY <1>2 DEF InitModem, TestAT, Forget
  <2>2. sockets'[0] = None /\ sockets'[1] = None
    BY <2>1 DEF Muxes
  <2>3. ~use'["mqtt"] /\ use'["http"] = use["http"] /\ mux'["http"] = mux["http"]
    BY <2>1 DEF Flags, Tables, Clients
  <2>4. QED
    BY <2>2, <2>3 DEF Entries
<1>3. CASE ConnectNoEntry
  <2>1. /\ pc = "open" /\ pc' = "app" /\ sockets' = sockets /\ use' = use
        /\ mux' = [mux EXCEPT ![call.by] = INVALID_MUX]
    BY <1>3 DEF ConnectNoEntry, Return, userVars
  <2>2. \A c \in Clients : use'[c] => mux'[c] = mux[c]
    BY <2>1 DEF InPlace, Tables
  <2>3. QED
    BY <2>1, <2>2 DEF Entries, Clients
<1>4. CASE ConnectOk \/ ConnectFails
  <2>1. /\ pc = "open" /\ pc' # "open" /\ Free # {} /\ call.by \in {"mqtt", "http"}
        /\ sockets' = [sockets EXCEPT ![FirstFree] = call.by]
        /\ mux' = [mux EXCEPT ![call.by] = FirstFree]
        /\ use' = use \/ use' = [use EXCEPT ![call.by] = TRUE]
    BY <1>4 DEF ConnectOk, ConnectFails, TakeEntry, userVars, Return, Calling, Calls, Clients
  <2>2. CASE call.by = "mqtt"
    <3>1. FirstFree = 0
      BY <2>1, <2>2 DEF FirstFree, Free, Muxes, Entries
    <3>2. sockets'[0] = "mqtt" /\ sockets'[1] = sockets[1] /\ mux'["mqtt"] = 0
      BY <2>1, <2>2, <3>1 DEF Tables, Muxes, Clients
    <3>3. mux'["http"] = mux["http"] /\ (use'["http"] => use["http"])
      BY <2>1, <2>2 DEF Tables, Flags, Clients
    <3>4. QED
      BY <2>1, <3>2, <3>3 DEF Entries
  <2>3. CASE call.by = "http"
    <3>1. use["mqtt"] /\ mux["mqtt"] = 0 /\ sockets[0] = "mqtt"
      BY <2>1, <2>3 DEF InPlace, Entries
    <3>2. FirstFree = 1
      BY <2>1, <3>1 DEF FirstFree, Free, Muxes, None
    <3>3. sockets'[1] = "http" /\ sockets'[0] = "mqtt" /\ mux'["http"] = 1 /\ mux'["mqtt"] = 0
      BY <2>1, <2>3, <3>1, <3>2 DEF Tables, Muxes, Clients
    <3>4. QED
      BY <2>1, <3>3 DEF Entries
  <2>4. QED
    BY <2>1, <2>2, <2>3
<1>5. CASE Stop
  <2>1. /\ pc' = "app" /\ use["mqtt"] /\ use[call.by] /\ call.by \in {"mqtt", "http"}
        /\ sockets' = [sockets EXCEPT ![mux[call.by]] = None] /\ mux' = mux
        /\ use' = [use EXCEPT ![call.by] = FALSE]
    BY <1>5 DEF Stop, Return, Forget, InPlace, Calling, Calls, Clients
  <2>2. CASE call.by = "mqtt"
    <3>1. sockets'[0] = None /\ sockets'[1] = sockets[1] /\ ~use'["mqtt"] /\ use'["http"] = use["http"]
      BY <2>1, <2>2 DEF Entries, Tables, Flags, Muxes, Clients
    <3>2. QED
      BY <2>1, <3>1 DEF Entries
  <2>3. CASE call.by = "http"
    <3>1. mux["http"] = 1
      BY <2>1, <2>3 DEF Entries
    <3>2. sockets'[1] = None /\ sockets'[0] = sockets[0]
      BY <2>1, <2>3, <3>1 DEF Tables, Muxes
    <3>3. ~use'["http"] /\ use'["mqtt"] = use["mqtt"]
      BY <2>1, <2>3 DEF Flags, Clients
    <3>4. QED
      BY <2>1, <3>2, <3>3 DEF Entries
  <2>4. QED
    BY <2>1, <2>2, <2>3
<1>6. CASE LoopTakes \/ Fetch
  <2>1. sockets' = sockets /\ mux' = mux /\ use' = use /\ pc # "open" /\ pc' # "open"
    BY <1>6 DEF LoopTakes, Fetch, userVars
  <2>2. QED
    BY <2>1 DEF Entries
<1>7. ASSUME NEW m \in Muxes, ServerSends(m) \/ ServerCloses(m)
      PROVE  Entries'
  BY <1>7 DEF ServerSends, ServerCloses, tableVars, userVars, Entries
<1>8. QED
  BY <1>1, <1>2, <1>3, <1>4, <1>5, <1>6, <1>7, StepKinds

LEMMA EntriesKept == "silent" \notin Faults => (TypeInv /\ Entries /\ [Next]_vars => (TypeInv /\ Entries)')
<1>1. TypeInv => Tables /\ Flags /\ Calling /\ InPlace
  BY TypeParts DEF TypeInv
<1>2. QED
  BY <1>1, TypeStep, EntriesStep

LEMMA InitEntries == Init => Entries
  BY DEF Init, Entries, NoCall, Muxes, Clients

(* Where the modem answers AT, which HeraclesModem__Init does not insist on,   *)
(* the entry a client uses is its own, whatever else goes wrong: no call puts *)
(* one client in the place of the other.                                      *)
THEOREM EntriesAreOwn ==
  ASSUME "silent" \notin Faults
  PROVE  Spec => []OwnEntry
<1>1. Entries => OwnEntry
  BY DEF Entries, OwnEntry
<1>2. TypeInv /\ Entries /\ [Next]_vars => (TypeInv /\ Entries)'
  BY EntriesKept
<1>3. QED
  BY <1>1, <1>2, InitTyped, InitEntries, PTL DEF Spec

-----------------------------------------------------------------------------
(* Connections and bytes, where the modem does nothing wrong. *)
Sound == Tables /\ Flags /\ Bytes /\ Calling /\ Linking /\ InPlace /\ HasEntry /\ Entries

(* The clients have different entries.                                        *)
LEMMA EntriesApart ==
  ASSUME Entries, NEW c \in Clients, NEW d \in Clients, c # d, use[c], use[d]
  PROVE  mux[c] # mux[d]
  BY DEF Entries, Clients

(* Nor is a client given the entry of the other.                              *)
LEMMA EntryApart ==
  ASSUME Sound, pc = "open", Free # {}, NEW c \in Clients, use[c]
  PROVE  mux[c] # FirstFree /\ c # call.by
<1>1. c # call.by /\ call.by \in {"mqtt", "http"}
  BY DEF Sound, InPlace, Calling, Calls, Clients
<1>2. CASE call.by = "mqtt"
  <2>1. FirstFree = 0 /\ c = "http"
    BY <1>1, <1>2 DEF Sound, Entries, FirstFree, Free, Muxes, Clients
  <2>2. QED
    BY <1>1, <2>1 DEF Sound, Entries
<1>3. CASE call.by = "http"
  <2>1. c = "mqtt" /\ sockets[0] = "mqtt" /\ mux["mqtt"] = 0
    BY <1>1, <1>3 DEF Sound, Entries, Clients
  <2>2. FirstFree = 1
    BY <2>1 DEF FirstFree, Free, None
  <2>3. QED
    BY <1>1, <2>1, <2>2
<1>4. QED
  BY <1>1, <1>2, <1>3

(* The table and the connections of the modem agree.                          *)
LEMMA LinkedStep ==
  Faults = {} /\ Sound /\ Linked /\ [Next]_vars => Linked'
<1> SUFFICES ASSUME Faults = {}, Sound, Linked, [Next]_vars
             PROVE  Linked'
  OBVIOUS
<1>0. /\ made \in Nat /\ call.by \in Clients
      /\ \A c \in Clients : use[c] => mux[c] \in Muxes
      /\ \A m \in Muxes : link[m].id \in Nat
  BY Constants DEF Sound, Tables, Calling, Calls, HasEntry, Linking, Links
<1>1. CASE Still
  BY <1>1 DEF Still, Linked
<1>2. CASE InitModem
  <2>1. /\ link' = [m \in Muxes |-> Absent] /\ made' = made /\ pc' = "open"
        /\ use' = [use EXCEPT !["mqtt"] = FALSE] /\ gen' = [gen EXCEPT !["mqtt"] = 0]
        /\ mux' = [mux EXCEPT !["mqtt"] = INVALID_MUX]
    BY <1>2 DEF InitModem, TestAT, ResetReaches, Forget
  <2>2. \A m \in Muxes : link'[m].id = 0 /\ ~link'[m].open
    BY <2>1 DEF Absent
  <2>3. \A c \in Clients : use'[c] => use[c] /\ gen'[c] = gen[c] /\ mux'[c] = mux[c]
    BY <2>1 DEF Sound, Flags, Tables
  <2>4. \A c \in Clients : use'[c] => gen'[c] \in 1 .. made' /\ mux'[c] \in Muxes
    BY <1>0, <2>1, <2>3 DEF Linked
  <2>5. QED
    BY <1>0, <2>1, <2>2, <2>4 DEF Linked
<1>3. CASE ConnectNoEntry
  <2>1. /\ link' = link /\ made' = made /\ pc = "open" /\ pc' = "app" /\ sockets' = sockets
        /\ use' = use /\ gen' = gen
        /\ mux' = [mux EXCEPT ![call.by] = INVALID_MUX]
    BY <1>3 DEF ConnectNoEntry, Return, userVars, netVars
  <2>2. \A c \in Clients : use'[c] => mux'[c] = mux[c]
    BY <2>1 DEF Sound, InPlace, Tables
  <2>3. QED
    BY <2>1, <2>2 DEF Linked
(* A connection is made, or not, in the entry taken. *)
<1>a. ASSUME pc = "open", pc' # "crashed", Free # {}, TakeEntry(FirstFree),
             Establish(FirstFree) \/ (link' = link /\ made' = made)
      PROVE  /\ \A m \in Muxes : /\ link'[m].id <= made'
                                 /\ link'[m].id # 0 => sockets'[m] # None
                                 /\ link'[m].open => link'[m].id # 0
             /\ \A c \in Clients : use[c] => /\ mux'[c] = mux[c] /\ link'[mux[c]] = link[mux[c]]
             /\ \A m \in Muxes : link'[m].id = link[m].id \/ link'[m].id = made + 1
             /\ made' \in {made, made + 1}
  <2>1. FirstFree \in Muxes /\ call.by # None
    BY <1>0, <1>a, FreeEntry DEF Clients, None
  <2>2. /\ sockets' = [sockets EXCEPT ![FirstFree] = call.by]
        /\ mux' = [mux EXCEPT ![call.by] = FirstFree]
    BY <1>a DEF TakeEntry
  <2>3. \/ link' = link /\ made' = made
        \/ /\ made' = made + 1
           /\ link' = [link EXCEPT ![FirstFree] = [id |-> made + 1, open |-> TRUE, sent |-> 0, data |-> <<>>]]
    BY <1>a DEF Establish
  <2>4. \A m \in Muxes : m # FirstFree => link'[m] = link[m] /\ sockets'[m] = sockets[m]
    BY <2>2, <2>3 DEF Sound, Linking, Tables
  <2>5. sockets'[FirstFree] = call.by
    BY <2>1, <2>2 DEF Sound, Tables
  <2>6. \/ link'[FirstFree] = link[FirstFree] /\ made' = made
        \/ link'[FirstFree].id = made + 1 /\ made' = made + 1
    BY <2>1, <2>3 DEF Sound, Linking
  <2>7. \A c \in Clients : use[c] => mux[c] # FirstFree /\ c # call.by
    BY <1>a, EntryApart
  <2>8. \A c \in Clients : use[c] => mux'[c] = mux[c] /\ link'[mux[c]] = link[mux[c]]
    BY <1>0, <2>2, <2>4, <2>7 DEF Sound, Tables
  <2>9. made' \in {made, made + 1} /\ made <= made'
    BY <1>0, <2>6
  <2>10. \A m \in Muxes : link'[m].id = link[m].id \/ link'[m].id = made + 1
    BY <2>4, <2>6
  <2>11. ASSUME NEW m \in Muxes
         PROVE  /\ link'[m].id <= made'
                /\ link'[m].id # 0 => sockets'[m] # None
                /\ link'[m].open => link'[m].id # 0
    <3>1. CASE m = FirstFree
      BY <1>0, <2>1, <2>5, <2>6, <2>9, <3>1 DEF Linked
    <3>2. CASE m # FirstFree
      BY <1>0, <2>4, <2>9, <3>2 DEF Linked
    <3>3. QED
      BY <3>1, <3>2
  <2>12. QED
    BY <2>8, <2>9, <2>10, <2>11
<1>4. CASE ConnectFails
  <2>1. /\ pc = "open" /\ pc' # "crashed" /\ Free # {} /\ TakeEntry(FirstFree)
        /\ Establish(FirstFree) \/ (link' = link /\ made' = made)
        /\ use' = use /\ gen' = gen
    BY <1>4 DEF ConnectFails, Return, userVars
  <2>2. ASSUME NEW c \in Clients, use[c]
        PROVE  /\ gen[c] \in 1 .. made'
               /\ link'[mux'[c]].id \in {0, gen[c]}
               /\ \A m \in Muxes : link'[m].id = gen[c] => m = mux'[c]
    <3>1. gen[c] \in 1 .. made /\ link[mux[c]].id \in {0, gen[c]}
      BY <2>2 DEF Linked
    <3>2. \A m \in Muxes : link[m].id = gen[c] => m = mux[c]
      BY <2>2 DEF Linked
    <3>3. /\ made' \in {made, made + 1}
          /\ \A m \in Muxes : link'[m].id = link[m].id \/ link'[m].id = made + 1
          /\ mux'[c] = mux[c] /\ link'[mux[c]] = link[mux[c]]
      BY <1>a, <2>1, <2>2
    <3>4. QED
      BY <1>0, <3>1, <3>2, <3>3
  <2>3. QED
    BY <1>a, <2>1, <2>2 DEF Linked
<1>5. CASE ConnectOk
  <2>1. /\ pc = "open" /\ pc' # "crashed" /\ Free # {} /\ TakeEntry(FirstFree)
        /\ Establish(FirstFree)
        /\ use' = [use EXCEPT ![call.by] = TRUE] /\ gen' = [gen EXCEPT ![call.by] = made']
    BY <1>5 DEF ConnectOk, Return
  <2>2. ASSUME NEW c \in Clients, use'[c]
        PROVE  /\ gen'[c] \in 1 .. made'
               /\ link'[mux'[c]].id \in {0, gen'[c]}
               /\ \A m \in Muxes : link'[m].id = gen'[c] => m = mux'[c]
    <3>1. made' = made + 1
      BY <2>1 DEF Establish
    <3>2. CASE c = call.by
      <4>1. gen'[c] = made + 1 /\ mux'[c] = FirstFree /\ FirstFree \in Muxes
        BY <2>1, <3>1, <3>2, FreeEntry DEF TakeEntry, Sound, Tables
      <4>2. link'[FirstFree].id = made + 1 /\ \A m \in Muxes : m # FirstFree => link'[m] = link[m]
        BY <2>1, <3>1, <4>1 DEF Establish, Sound, Linking
      <4>3. \A m \in Muxes : link[m].id # made + 1
        BY <1>0 DEF Linked
      <4>4. QED
        BY <1>0, <3>1, <4>1, <4>2, <4>3
    <3>3. CASE c # call.by
      <4>1. use[c] /\ gen'[c] = gen[c]
        BY <2>1, <2>2, <3>3 DEF Sound, Tables, Flags
      <4>2. gen[c] \in 1 .. made /\ link[mux[c]].id \in {0, gen[c]}
        BY <4>1 DEF Linked
      <4>3. \A m \in Muxes : link[m].id = gen[c] => m = mux[c]
        BY <4>1 DEF Linked
      <4>4. /\ \A m \in Muxes : link'[m].id = link[m].id \/ link'[m].id = made + 1
            /\ mux'[c] = mux[c] /\ link'[mux[c]] = link[mux[c]]
        BY <1>a, <2>1, <4>1
      <4>5. QED
        BY <1>0, <3>1, <4>1, <4>2, <4>3, <4>4
    <3>4. QED
      BY <3>2, <3>3
  <2>3. QED
    BY <1>a, <2>1, <2>2 DEF Linked
<1>6. CASE Stop
  <2>1. /\ pc' = "app" /\ use[call.by] /\ made' = made /\ mux' = mux
        /\ sockets' = [sockets EXCEPT ![mux[call.by]] = None]
        /\ link' = [link EXCEPT ![mux[call.by]] = Absent]
        /\ use' = [use EXCEPT ![call.by] = FALSE] /\ gen' = [gen EXCEPT ![call.by] = 0]
    BY <1>6 DEF Stop, Return, Forget, Sound, InPlace
  <2>2. \A m \in Muxes : /\ m # mux[call.by] => link'[m] = link[m] /\ sockets'[m] = sockets[m]
                         /\ m = mux[call.by] => link'[m] = Absent
    BY <2>1 DEF Sound, Linking, Tables
  <2>3. Absent.id = 0 /\ ~Absent.open
    BY DEF Absent
  <2>4. \A c \in Clients : use'[c] => use[c] /\ gen'[c] = gen[c]
    BY <2>1 DEF Sound, Flags, Tables
  <2>5. \A m \in Muxes : /\ link'[m].id <= made'
                         /\ link'[m].id # 0 => sockets'[m] # None
                         /\ link'[m].open => link'[m].id # 0
    BY <1>0, <2>1, <2>2, <2>3 DEF Linked
  <2>6. ASSUME NEW c \in Clients, use'[c]
        PROVE  /\ gen'[c] \in 1 .. made'
               /\ link'[mux'[c]].id \in {0, gen'[c]}
               /\ \A m \in Muxes : link'[m].id = gen'[c] => m = mux'[c]
    <3>1. use[c] /\ gen'[c] = gen[c] /\ gen[c] \in 1 .. made /\ link[mux[c]].id \in {0, gen[c]}
      BY <2>4, <2>6 DEF Linked
    <3>2. \A m \in Muxes : link[m].id = gen[c] => m = mux[c]
      BY <3>1 DEF Linked
    <3>3. QED
      BY <1>0, <2>1, <2>2, <2>3, <3>1, <3>2
  <2>7. QED
    BY <2>1, <2>5, <2>6 DEF Linked
(* The connections stay, whatever bytes they carry. *)
<1>b. ASSUME pc' # "crashed", UNCHANGED <<sockets, mux, use, gen, made>>,
             \A m \in Muxes : link'[m].id = link[m].id /\ (link'[m].open => link[m].open)
      PROVE  Linked'
  BY <1>0, <1>b DEF Linked
<1>7. CASE LoopTakes
  <2>1. UNCHANGED <<sockets, mux, use, gen, made>> /\ link' = link /\ pc' = "loop"
    BY <1>7 DEF LoopTakes, netVars
  <2>2. QED
    BY <1>b, <2>1
<1>8. CASE Fetch
  <2>1. mux[call.by] \in Muxes /\ sockets[mux[call.by]] # None
    BY <1>0, <1>8, SMTT(40) DEF Fetch, Sound, InPlace, Linked
  <2>2. pc' = "loop" /\ UNCHANGED <<sockets, mux, use, gen, made>>
    BY <1>8, <2>1, SMTT(40) DEF Fetch, userVars
  <2>3. PICK d : link' = [link EXCEPT ![mux[call.by]].data = d]
    BY <1>8 DEF Fetch
  <2>4. \A m \in Muxes : link'[m].id = link[m].id /\ link'[m].open = link[m].open
    BY <2>1, <2>3 DEF Sound, Linking, Links
  <2>5. QED
    BY <1>b, <2>2, <2>4, SMTT(40)
<1>9. ASSUME NEW m \in Muxes, ServerSends(m)
      PROVE  Linked'
  <2>1. pc' = pc /\ UNCHANGED <<sockets, mux, use, gen, made>>
    BY <1>9 DEF ServerSends, tableVars, userVars
  <2>2. PICK n, d : link' = [link EXCEPT ![m].sent = n, ![m].data = d]
    BY <1>9 DEF ServerSends
  <2>3. \A k \in Muxes : link'[k].id = link[k].id /\ link'[k].open = link[k].open
    BY <2>2 DEF Sound, Linking, Links
  <2>4. QED
    BY <1>b, <2>1, <2>3 DEF Linked
<1>10. ASSUME NEW m \in Muxes, ServerCloses(m)
       PROVE  Linked'
  <2>1. pc' = pc /\ UNCHANGED <<sockets, mux, use, gen, made>>
    BY <1>10 DEF ServerCloses, tableVars, userVars
  <2>2. link' = [link EXCEPT ![m].open = FALSE]
    BY <1>10 DEF ServerCloses
  <2>3. \A k \in Muxes : link'[k].id = link[k].id /\ (link'[k].open => link[k].open)
    BY <2>2 DEF Sound, Linking, Links
  <2>4. QED
    BY <1>b, <2>1, <2>3 DEF Linked
<1>11. QED
  BY <1>1, <1>2, <1>3, <1>4, <1>5, <1>6, <1>7, <1>8, <1>9, <1>10, StepKinds DEF Sound

(* The modem is asked for bytes with no notice left to read.                  *)
LEMMA NoticeStep ==
  Faults = {} /\ Flags /\ NoticeRead /\ [Next]_vars => NoticeRead'
<1> SUFFICES ASSUME Faults = {}, Flags, NoticeRead, [Next]_vars
             PROVE  NoticeRead'
  OBVIOUS
<1>1. CASE PollEmpty \/ PollCount \/ PollStatus
  BY <1>1 DEF PollEmpty, NextEntry, PollCount, Counted, PollStatus, tableVars, pollVars,
     userVars, netVars, NoticeRead
<1>2. CASE Drain
  BY <1>2 DEF Drain, ReadNotices, tableVars, pollVars, userVars, netVars, NoticeRead
<1>3. CASE HttpStart \/ WriteCalled \/ ReadCalled \/ DataCalled
  BY <1>3 DEF HttpStart, WriteCalled, Maintain, ReadCalled, EnterRead, DataCalled,
     AskConnected, tableVars, pollVars, userVars, netVars, NoticeRead
<1>4. CASE Send \/ LineAsks \/ AskedConnected \/ AskedClosed
  BY <1>4 DEF Send, Return, LineAsks, AskConnected, Maintain, AskedConnected, EnterRead,
     AskedClosed, tableVars, pollVars, userVars, netVars, NoticeRead
<1>5. CASE LoopMaintains \/ LoopEnds \/ FetchFails \/ ReadReturns \/ LineGoesOn \/
          HeaderEnds \/ Tick
  BY <1>5 DEF LoopMaintains, Maintain, LoopEnds, FetchFails, ReadReturns, Return,
     LineGoesOn, EmptyReads, HeaderEnds, Tick, tableVars, pollVars, userVars, netVars,
     NoticeRead
<1>6. CASE InitModem \/ ConnectNoEntry \/ ConnectOk \/ ConnectFails \/ Stop \/ LoopTakes \/
          Fetch
  BY <1>6 DEF InitModem, Forget, TestAT, ResetReaches, ConnectNoEntry, Return, ConnectOk,
     TakeEntry, ReadNotices, Establish, FirstFree, ConnectFails, Stop, LoopTakes, Fetch,
     tableVars, pollVars, userVars, netVars, NoticeRead
<1>7. ASSUME NEW c \in Clients, CloseCalled(c)
      PROVE  NoticeRead'
  BY <1>7 DEF CloseCalled, NoticeRead
<1>8. ASSUME NEW m \in Muxes, ServerSends(m) \/ ServerCloses(m)
      PROVE  NoticeRead'
  BY <1>8 DEF ServerSends, ServerCloses, MayNotice, NoticeRead
<1>9. CASE UNCHANGED vars
  BY <1>9 DEF vars, netVars, NoticeRead
<1>10. QED
  BY <1>1, <1>2, <1>3, <1>4, <1>5, <1>6, <1>7, <1>8, <1>9 DEF Next, Driver, Caller, Network

(* A client whose bytes and whose connection stay as they are.               *)
LEMMA FollowsStays ==
  ASSUME NEW c \in Clients, Follows(c), gen[c] # 0,
         got'[c] = got[c], rx'[c] = rx[c], gen'[c] = gen[c], mux'[c] = mux[c],
         link'[mux[c]] = link[mux[c]] \/ link'[mux[c]].id = 0
  PROVE  Follows(c)'
<1>1. link'[mux'[c]] = link[mux[c]] \/ link'[mux'[c]].id # gen'[c]
  OBVIOUS
<1>2. QED
  BY <1>1 DEF Follows

(* The caller takes n bytes from its FIFO.                                    *)
LEMMA FollowsTake ==
  ASSUME NEW c \in Clients, NEW n \in Nat, got[c] \in Seq(Byte), rx[c] \in Seq(Byte),
         n <= Len(rx[c]), Follows(c),
         got'[c] = Taken(got[c], rx[c], n), rx'[c] = Left(rx[c], n),
         gen'[c] = gen[c], mux'[c] = mux[c], link' = link
  PROVE  Follows(c)'
<1>1. /\ Numbered(got[c], gen[c], 0) /\ Numbered(rx[c], gen[c], Len(got[c]))
      /\ link[mux[c]].id = gen[c] =>
           Len(got[c]) + Len(rx[c]) + Len(link[mux[c]].data) = link[mux[c]].sent
  BY DEF Follows
<1>2. PICK z \in Nat : z = 0
  OBVIOUS
<1>3. \A k \in Nat : z + k = k
  BY <1>2
<1>4. /\ Numbered(got'[c], gen[c], 0) /\ Numbered(rx'[c], gen[c], Len(got'[c]))
      /\ Len(got'[c]) + Len(rx'[c]) = Len(got[c]) + Len(rx[c])
  <2>0. PICK g : g = gen[c]
    BY Zenon
  <2>1. PICK s \in Seq(Byte), r \in Seq(Byte) : s = got[c] /\ r = rx[c] /\ g = gen[c]
    BY <2>0, Zenon
  <2>2. n <= Len(r) /\ Numbered(s, g, z) /\ Numbered(r, g, z + Len(s))
    BY <1>1, <1>2, <1>3, <2>1, Lengths, Zenon
  <2> DEFINE t == Taken(s, r, n)
             u == Left(r, n)
  <2>3. /\ t \in Seq(Byte) /\ Numbered(t, g, z) /\ Numbered(u, g, z + Len(t))
        /\ Len(t) + Len(u) = Len(s) + Len(r)
    BY <2>2, MovedBytes, Zenon
  <2>4. got'[c] = t /\ rx'[c] = u
    BY <2>1
  <2> HIDE DEF t, u
  <2>5. Numbered(t, g, 0) /\ Numbered(u, g, Len(t))
    BY <1>2, <1>3, <2>3, Lengths, Zenon
  <2>6. QED
    BY <2>1, <2>3, <2>4, <2>5, Zenon
<1>5. Numbered(got'[c], gen'[c], 0) /\ Numbered(rx'[c], gen'[c], Len(got'[c]))
  BY <1>4, Zenon
<1>6. link'[mux'[c]].id = gen'[c] =>
        Len(got'[c]) + Len(rx'[c]) + Len(link'[mux'[c]].data) = link'[mux'[c]].sent
  BY <1>1, <1>4, Zenon
<1>7. QED
  BY <1>5, <1>6, Zenon DEF Follows

(* n bytes go from the modem to the FIFO.                                     *)
FetchedBy(c, m, n) ==
  /\ n <= Len(link[m].data) /\ m = mux[c]
  /\ link[m].data \in Seq(Byte) /\ link[m].sent \in Nat /\ link[m].id = gen[c]
  /\ got[c] \in Seq(Byte) /\ rx[c] \in Seq(Byte) /\ Follows(c) /\ Keeps(m)
  /\ rx'[c] = Taken(rx[c], link[m].data, n) /\ link'[m].data = Left(link[m].data, n)
  /\ link'[m].id = gen[c] /\ link'[m].sent = link[m].sent
  /\ got'[c] = got[c] /\ gen'[c] = gen[c] /\ mux'[c] = mux[c]

LEMMA FollowsFetch ==
  ASSUME NEW c \in Clients, NEW m, NEW n \in Nat, FetchedBy(c, m, n)
  PROVE  Follows(c)' /\ Keeps(m)'
<1>0. PICK g : g = gen[c]
  BY Zenon
<1>1. PICK r \in Seq(Byte), d \in Seq(Byte), k \in Nat, j \in Nat :
        /\ r = rx[c] /\ d = link[m].data /\ k = Len(got[c]) /\ j = link[m].sent /\ g = gen[c]
        /\ n <= Len(d) /\ Numbered(r, g, k) /\ Numbered(d, g, j - Len(d))
        /\ k + Len(r) + Len(d) = j
  BY <1>0, Lengths, Zenon DEF FetchedBy, Follows, Keeps
<1>2. /\ Numbered(Taken(r, d, n), g, k)
      /\ Numbered(Left(d, n), g, j - Len(Left(d, n)))
      /\ k + Len(Taken(r, d, n)) + Len(Left(d, n)) = j
  <2>1. n <= Len(d) /\ Numbered(r, g, k) /\ Numbered(d, g, j - Len(d)) /\ k + Len(r) + Len(d) = j
    BY <1>1
  <2>2. QED
    BY <2>1, FetchedBytes
<1>3. /\ Numbered(rx'[c], gen[c], Len(got[c]))
      /\ Numbered(link'[m].data, gen[c], link[m].sent - Len(link'[m].data))
      /\ Len(got[c]) + Len(rx'[c]) + Len(link'[m].data) = link[m].sent
  BY <1>1, <1>2, Zenon DEF FetchedBy
<1>4. Keeps(m)'
  BY <1>3, Zenon DEF Keeps, FetchedBy
<1>5. Follows(c)'
  BY <1>3, Zenon DEF Follows, FetchedBy
<1>6. QED
  BY <1>4, <1>5

(* The server sends a byte on m.                                              *)
LEMMA KeepsGrown ==
  ASSUME NEW m \in Muxes, NEW d \in Seq(Byte), NEW j \in Nat, NEW g \in Nat,
         d = link[m].data, j = link[m].sent, g = link[m].id, Keeps(m),
         link'[m].data = Append(d, <<g, j + 1>>), link'[m].sent = j + 1, link'[m].id = g
  PROVE  Keeps(m)' /\ Len(link'[m].data) = Len(d) + 1
<1> DEFINE k == j - Len(d)
           t == Append(d, <<g, k + Len(d) + 1>>)
<1>1. Numbered(d, g, k)
  BY DEF Keeps
<1>2. k \in Int /\ k + Len(d) + 1 = j + 1 /\ <<g, k + Len(d) + 1>> \in Byte
  <2>1. Len(d) \in Nat
    OBVIOUS
  <2>2. k \in Int /\ k + Len(d) + 1 = j + 1
    BY <2>1
  <2>3. QED
    BY <2>2 DEF Byte
<1> HIDE DEF k
<1>3. Numbered(t, g, k) /\ Len(t) = Len(d) + 1
  BY <1>1, <1>2, Grown
<1>4. link'[m].data = t
  BY <1>2, Zenon
<1> HIDE DEF t
<1>5. (j + 1) - (Len(d) + 1) = k
  BY Lengths, SumGrown, Zenon DEF k
<1>6. QED
  BY <1>3, <1>4, <1>5, Zenon DEF Keeps

(* Another byte the modem holds.                                              *)
LEMMA FollowsGrown ==
  ASSUME NEW c \in Clients, NEW m, m = mux[c], Follows(c),
         got[c] \in Seq(Byte), rx[c] \in Seq(Byte), link[m].data \in Seq(Byte),
         link[m].sent \in Nat, Len(link'[m].data) = Len(link[m].data) + 1,
         link'[m].sent = link[m].sent + 1, link'[m].id = link[m].id,
         got'[c] = got[c], rx'[c] = rx[c], gen'[c] = gen[c], mux'[c] = mux[c]
  PROVE  Follows(c)'
<1>1. \A s, r, d \in Seq(Byte) : Len(s) + Len(r) + (Len(d) + 1) = (Len(s) + Len(r) + Len(d)) + 1
  OBVIOUS
<1>2. Len(got[c]) + Len(rx[c]) + (Len(link[m].data) + 1) =
        (Len(got[c]) + Len(rx[c]) + Len(link[m].data)) + 1
  BY <1>1, Zenon
<1>3. QED
  BY <1>2, Zenon DEF Follows

(* The bytes of every connection stay in order, each step of the driver and of the network. *)
LEMMA OrderStep ==
  Faults = {} /\ Sound /\ Linked /\ NoticeRead /\ InOrder /\ [Next]_vars => InOrder'
<1> SUFFICES ASSUME Faults = {}, Sound, Linked, NoticeRead, InOrder, [Next]_vars
             PROVE  InOrder'
  OBVIOUS
<1>0. /\ call.by \in Clients
      /\ \A c \in Clients : use[c] => mux[c] \in Muxes /\ gen[c] \in Nat /\ gen[c] # 0
      /\ \A c \in Clients : use[c] => Follows(c)
      /\ \A m \in Muxes : Keeps(m)
  BY DEF Sound, Calling, Calls, HasEntry, Linked, InOrder
<1>e. Len(<<>>) = 0 /\ \A g, k : Numbered(<<>>, g, k)
  BY NoneNumbered
<1>k. ASSUME NEW m \in Muxes, link'[m] = link[m] \/ link'[m].data = <<>>
      PROVE  Keeps(m)'
  BY <1>0, <1>e, <1>k DEF Keeps
<1>1. CASE Still
  BY <1>1 DEF Still, InOrder, Follows, Keeps
<1>2. CASE InitModem
  <2>1. /\ link' = [m \in Muxes |-> Absent] /\ rx' = rx
        /\ use' = [use EXCEPT !["mqtt"] = FALSE] /\ gen' = [gen EXCEPT !["mqtt"] = 0]
        /\ mux' = [mux EXCEPT !["mqtt"] = INVALID_MUX] /\ got' = [got EXCEPT !["mqtt"] = <<>>]
    BY <1>2 DEF InitModem, TestAT, ResetReaches, Forget
  <2>2. \A m \in Muxes : link'[m].data = <<>> /\ link'[m].id = 0
    BY <2>1 DEF Absent
  <2>3. ASSUME NEW c \in Clients, use'[c]
        PROVE  Follows(c)'
    <3>1. use[c] /\ gen'[c] = gen[c] /\ mux'[c] = mux[c] /\ got'[c] = got[c]
      BY <2>1, <2>3 DEF Sound, Flags, Tables, Bytes
    <3>2. QED
      BY <1>0, <2>1, <2>2, <3>1, FollowsStays
  <2>4. QED
    BY <1>k, <2>2, <2>3 DEF InOrder
<1>3. CASE ConnectNoEntry
  <2>1. /\ link' = link /\ pc = "open" /\ use' = use /\ gen' = gen /\ got' = got
        /\ mux' = [mux EXCEPT ![call.by] = INVALID_MUX]
        /\ rx' = [rx EXCEPT ![call.by] = <<>>]
    BY <1>3 DEF ConnectNoEntry, userVars, netVars
  <2>2. ASSUME NEW c \in Clients, use[c]
        PROVE  Follows(c)'
    <3>1. mux'[c] = mux[c] /\ rx'[c] = rx[c]
      BY <2>1, <2>2 DEF Sound, InPlace, Tables, Bytes
    <3>2. QED
      BY <1>0, <2>1, <2>2, <3>1, FollowsStays
  <2>3. QED
    BY <1>k, <2>1, <2>2 DEF InOrder
(* A connection is made, or not, in the entry taken. *)
<1>a. ASSUME pc = "open", Free # {}, TakeEntry(FirstFree),
             Establish(FirstFree) \/ (link' = link /\ made' = made)
      PROVE  /\ \A m \in Muxes : link'[m] = link[m] \/ link'[m].data = <<>>
             /\ \A c \in Clients : use[c] =>
                  /\ c # call.by /\ mux'[c] = mux[c] /\ rx'[c] = rx[c]
                  /\ link'[mux[c]] = link[mux[c]]
  <2>1. /\ mux' = [mux EXCEPT ![call.by] = FirstFree]
        /\ rx' = [rx EXCEPT ![call.by] = <<>>]
    BY <1>a DEF TakeEntry
  <2>2. \/ link' = link
        \/ link' = [link EXCEPT ![FirstFree] = [id |-> made', open |-> TRUE, sent |-> 0, data |-> <<>>]]
    BY <1>a DEF Establish
  <2>3. \A m \in Muxes : /\ m # FirstFree => link'[m] = link[m]
                         /\ link'[m] = link[m] \/ link'[m].data = <<>>
    BY <2>2 DEF Sound, Linking
  <2>4. \A c \in Clients : use[c] => mux[c] # FirstFree /\ c # call.by
    BY <1>a, EntryApart
  <2>5. QED
    BY <1>0, <2>1, <2>3, <2>4 DEF Sound, Tables, Bytes
<1>4. CASE ConnectFails
  <2>1. /\ pc = "open" /\ Free # {} /\ TakeEntry(FirstFree)
        /\ Establish(FirstFree) \/ (link' = link /\ made' = made)
        /\ use' = use /\ gen' = gen /\ got' = got
    BY <1>4 DEF ConnectFails, userVars
  <2>2. ASSUME NEW c \in Clients, use[c]
        PROVE  Follows(c)'
    BY <1>0, <1>a, <2>1, <2>2, FollowsStays
  <2>3. QED
    BY <1>a, <1>k, <2>1, <2>2 DEF InOrder
<1>5. CASE ConnectOk
  <2>1. /\ pc = "open" /\ Free # {} /\ TakeEntry(FirstFree)
        /\ Establish(FirstFree)
        /\ use' = [use EXCEPT ![call.by] = TRUE] /\ gen' = [gen EXCEPT ![call.by] = made']
        /\ got' = [got EXCEPT ![call.by] = <<>>]
    BY <1>5 DEF ConnectOk
  <2>2. ASSUME NEW c \in Clients, use'[c], c # call.by
        PROVE  Follows(c)'
    <3>1. use[c] /\ gen'[c] = gen[c] /\ got'[c] = got[c]
      BY <2>1, <2>2 DEF Sound, Flags, Tables, Bytes
    <3>2. QED
      BY <1>0, <1>a, <2>1, <3>1, FollowsStays
  <2>3. ASSUME NEW c \in Clients, c = call.by
        PROVE  Follows(c)'
    <3>1. FirstFree \in Muxes
      BY <2>1, FreeEntry
    <3>2. got'[c] = <<>> /\ rx'[c] = <<>> /\ mux'[c] = FirstFree
      BY <2>1, <2>3 DEF TakeEntry, Sound, Tables, Bytes
    <3>3. link'[FirstFree].sent = 0 /\ link'[FirstFree].data = <<>>
      BY <2>1, <3>1 DEF Establish, Sound, Linking
    <3>4. QED
      BY <1>e, <3>2, <3>3 DEF Follows
  <2>4. \A m \in Muxes : Keeps(m)'
    BY <1>a, <1>k, <2>1
  <2>5. QED
    BY <2>2, <2>3, <2>4 DEF InOrder
<1>6. CASE Stop
  <2>1. /\ use[call.by] /\ mux' = mux
        /\ rx' = [rx EXCEPT ![call.by] = <<>>]
        /\ link' = [link EXCEPT ![mux[call.by]] = Absent]
        /\ use' = [use EXCEPT ![call.by] = FALSE] /\ gen' = [gen EXCEPT ![call.by] = 0]
        /\ got' = [got EXCEPT ![call.by] = <<>>]
    BY <1>6 DEF Stop, Forget, Sound, InPlace
  <2>2. \A m \in Muxes : /\ m # mux[call.by] => link'[m] = link[m]
                         /\ link'[m] = link[m] \/ link'[m].data = <<>>
    BY <2>1 DEF Sound, Linking, Absent
  <2>3. ASSUME NEW c \in Clients, use'[c]
        PROVE  Follows(c)'
    <3>1. use[c] /\ c # call.by
      BY <2>1, <2>3 DEF Sound, Flags
    <3>2. gen'[c] = gen[c] /\ got'[c] = got[c] /\ rx'[c] = rx[c]
      BY <2>1, <3>1 DEF Sound, Tables, Bytes
    <3>3. mux[c] # mux[call.by]
      BY <1>0, <2>1, <3>1, EntriesApart DEF Sound
    <3>4. QED
      BY <1>0, <2>1, <2>2, <3>1, <3>2, <3>3, FollowsStays
  <2>4. QED
    BY <1>k, <2>2, <2>3 DEF InOrder
<1>b. \A c \in Clients : rx[c] \in Seq(Byte) /\ got[c] \in Seq(Byte) /\ Len(rx[c]) <= FifoRoom
  BY DEF Sound, Bytes, Byte
<1>7. CASE LoopTakes
  <2>1. PICK c \in Clients, n \in Nat :
          /\ c = call.by /\ use[c] /\ n <= Len(rx[c])
          /\ got' = [got EXCEPT ![c] = got[c] \o SubSeq(rx[c], 1, n)]
          /\ rx' = [rx EXCEPT ![c] = SubSeq(rx[c], n + 1, Len(rx[c]))]
    <3>1. Len(rx[call.by]) \in Nat /\ call.want \in Nat /\ use[call.by]
      BY <1>0, <1>b, <1>7 DEF LoopTakes, Sound, InPlace, Calling, Calls
    <3>2. /\ Lesser(Len(rx[call.by]), call.want) \in Nat
          /\ Lesser(Len(rx[call.by]), call.want) <= Len(rx[call.by])
      BY <3>1 DEF Lesser
    <3>3. QED
      BY <1>0, <1>7, <3>1, <3>2, Zenon DEF LoopTakes
  <2>2. use' = use /\ gen' = gen /\ mux' = mux /\ link' = link
    BY <1>7 DEF LoopTakes, netVars
  <2>3. /\ got'[c] = Taken(got[c], rx[c], n) /\ rx'[c] = Left(rx[c], n)
        /\ \A d \in Clients : d # c => got'[d] = got[d] /\ rx'[d] = rx[d]
    BY <2>1 DEF Sound, Bytes, Taken, Left
  <2>4. ASSUME NEW d \in Clients, use'[d]
        PROVE  Follows(d)'
    <3>1. CASE d = c
      BY <1>0, <1>b, <2>1, <2>2, <2>3, <3>1, FollowsTake
    <3>2. CASE d # c
      BY <1>0, <2>2, <2>3, <2>4, <3>2, FollowsStays
    <3>3. QED
      BY <3>1, <3>2
  <2>5. \A m \in Muxes : Keeps(m)'
    BY <1>k, <2>2, Zenon
  <2>6. QED
    BY <2>4, <2>5, Zenon DEF InOrder
<1>8. CASE Fetch
  <2>1. /\ use[call.by] /\ mux[call.by] \in Muxes /\ ~notice
        /\ sockets[mux[call.by]] = call.by /\ link[mux[call.by]].id = gen[call.by]
    <3>1. use[call.by] /\ mux[call.by] \in Muxes /\ ~notice
      BY <1>0, <1>8, SMTT(40) DEF Fetch, Sound, InPlace, NoticeRead
    <3>2. link[mux[call.by]].id \in {0, gen[call.by]} /\ sockets[mux[call.by]] # None
      BY <1>0, <1>8, <3>1 DEF Fetch, Linked
    <3>3. QED
      BY <1>0, <1>8, <3>1, <3>2, SMTT(40) DEF Fetch, Sound, Entries, Clients
  <2>2. PICK c \in Clients, m \in Muxes, d \in Seq(Byte), j \in Nat :
          c = call.by /\ m = mux[c] /\ d = link[m].data /\ j = link[m].sent
    <3>1. /\ link[mux[call.by]].data \in Seq(Byte)
          /\ link[mux[call.by]].sent \in Nat
      BY <2>1 DEF Sound, Linking, Links, Byte
    <3>2. QED
      BY <1>0, <2>1, <3>1, Zenon
  <2>3. c # None
    BY SMTT(40) DEF Clients, None
  <2> DEFINE n == Lesser(FifoRoom - Len(rx[c]), Len(d))
             t == rx[c] \o SubSeq(d, 1, n)
  <2>4. /\ link' = [link EXCEPT ![m].data = SubSeq(d, n + 1, Len(d))]
        /\ rx' = [rx EXCEPT ![c] = SubSeq(t, 1, Lesser(FifoRoom, Len(t)))]
        /\ use' = use /\ gen' = gen /\ got' = got /\ mux' = mux
    BY <1>8, <2>1, <2>2, <2>3 DEF Fetch, userVars
  <2>5. n \in Nat /\ n <= Len(d) /\ Len(rx[c]) + n <= FifoRoom /\ Len(rx[c]) \in Nat
    <3>1. Len(rx[c]) \in Nat /\ Len(rx[c]) <= FifoRoom /\ Len(d) \in Nat /\ FifoRoom \in Nat
      BY <1>b, Constants
    <3>2. QED
      BY <3>1, Room, Zenon
  <2> HIDE DEF n
  <2>6. SubSeq(t, 1, Lesser(FifoRoom, Len(t))) = t
    <3>1. SubSeq(d, 1, n) \in Seq(Byte) /\ Len(SubSeq(d, 1, n)) = n
      BY <2>5, FirstPart
    <3>2. t \in Seq(Byte) /\ Len(t) = Len(rx[c]) + n
      BY <1>b, <3>1, Joined
    <3> HIDE DEF t
    <3>3. Lesser(FifoRoom, Len(t)) = Len(t)
      <4>1. ~(FifoRoom < Len(t)) \/ FifoRoom = Len(t)
        BY <2>5, <3>2, Constants
      <4>2. QED
        BY <4>1 DEF Lesser
    <3>4. QED
      BY <3>2, <3>3, SubSeqFull
  <2>7. /\ rx'[c] = t /\ \A e \in Clients : e # c => rx'[e] = rx[e]
    BY <2>4, <2>6 DEF Sound, Bytes
  <2>8. /\ link'[m].data = SubSeq(d, n + 1, Len(d)) /\ link'[m].id = gen[c] /\ link'[m].sent = j
        /\ \A k \in Muxes : k # m => link'[k] = link[k]
    BY <2>1, <2>2, <2>4, ZenonT(40) DEF Sound, Linking, Links
  <2>9. /\ Follows(c) /\ Keeps(m) /\ link[m].id = gen[c]
        /\ rx[c] \in Seq(Byte) /\ got[c] \in Seq(Byte)
        /\ got'[c] = got[c] /\ gen'[c] = gen[c] /\ mux'[c] = mux[c]
    BY <1>0, <1>b, <2>1, <2>2, <2>4
  <2>a. rx'[c] = Taken(rx[c], d, n) /\ link'[m].data = Left(d, n)
    BY <2>7, <2>8 DEF Taken, Left
  <2>10. Follows(c)' /\ Keeps(m)'
    <3>1. FetchedBy(c, m, n)
      BY <2>2, <2>5, <2>a, <2>8, <2>9 DEF FetchedBy
    <3>2. QED
      BY <2>5, <3>1, FollowsFetch
  <2>11. ASSUME NEW e \in Clients, use'[e]
         PROVE  Follows(e)'
    <3>1. CASE e = c
      BY <2>10, <3>1
    <3>2. CASE e # c
      <4>1. mux[e] # m /\ mux[e] \in Muxes /\ use[e]
        BY <1>0, <2>1, <2>2, <2>4, <2>11, <3>2, EntriesApart DEF Sound
      <4>2. QED
        BY <1>0, <2>4, <2>7, <2>8, <3>2, <4>1, FollowsStays
    <3>3. QED
      BY <3>1, <3>2
  <2>12. \A k \in Muxes : Keeps(k)'
    BY <1>k, <2>8, <2>10, Zenon
  <2>13. QED
    BY <2>11, <2>12, Zenon DEF InOrder
<1>9. ASSUME NEW m \in Muxes, ServerSends(m)
      PROVE  InOrder'
  <2>1. PICK d \in Seq(Byte), j \in Nat, g \in Nat :
          d = link[m].data /\ j = link[m].sent /\ g = link[m].id
    <3>1. link[m].data \in Seq(Byte) /\ link[m].sent \in Nat /\ link[m].id \in Nat
      BY DEF Sound, Linking, Links, Byte
    <3>2. QED
      BY <3>1, Zenon
  <2>2. rx' = rx /\ mux' = mux /\ use' = use /\ gen' = gen /\ got' = got
    BY <1>9 DEF ServerSends, tableVars, userVars
  <2>3. link' = [link EXCEPT ![m].sent = j + 1, ![m].data = Append(d, <<g, j + 1>>)]
    BY <1>9, <2>1 DEF ServerSends, Sound, Linking
  <2>4. /\ link'[m].sent = j + 1 /\ link'[m].data = Append(d, <<g, j + 1>>) /\ link'[m].id = g
        /\ \A k \in Muxes : k # m => link'[k] = link[k]
    BY <2>1, <2>3 DEF Sound, Linking, Links
  <2>5. Keeps(m)' /\ Len(link'[m].data) = Len(d) + 1
    <3>1. Keeps(m)
      BY <1>0
    <3>2. QED
      BY <2>1, <2>4, <3>1, KeepsGrown, Zenon
  <2>6. ASSUME NEW c \in Clients, use'[c]
        PROVE  Follows(c)'
    <3>1. use[c] /\ mux[c] \in Muxes /\ Follows(c)
      BY <1>0, <2>2, <2>6
    <3>2. CASE mux[c] = m
      BY <1>b, <2>1, <2>2, <2>4, <2>5, <3>1, <3>2, FollowsGrown
    <3>3. CASE mux[c] # m
      BY <1>0, <2>2, <2>4, <3>1, <3>3, FollowsStays
    <3>4. QED
      BY <3>2, <3>3
  <2>7. \A k \in Muxes : Keeps(k)'
    BY <1>k, <2>4, <2>5, Zenon
  <2>8. QED
    BY <2>6, <2>7, Zenon DEF InOrder
<1>10. ASSUME NEW m \in Muxes, ServerCloses(m)
       PROVE  InOrder'
  <2>1. UNCHANGED <<rx, mux, use, gen, got>> /\ link' = [link EXCEPT ![m].open = FALSE]
    BY <1>10 DEF ServerCloses, tableVars, userVars
  <2>2. \A k \in Muxes : /\ link'[k].id = link[k].id /\ link'[k].sent = link[k].sent
                         /\ link'[k].data = link[k].data
    BY <2>1 DEF Sound, Linking, Links
  <2>3. \A k \in Muxes : Keeps(k)'
    BY <1>0, <2>2 DEF Keeps
  <2>4. ASSUME NEW c \in Clients, use'[c]
        PROVE  Follows(c)'
    <3>1. mux[c] \in Muxes /\ Follows(c)
      BY <1>0, <2>1, <2>4
    <3>2. QED
      BY <2>1, <2>2, <3>1 DEF Follows
  <2>5. QED
    BY <2>1, <2>3, <2>4 DEF InOrder
<1>11. QED
  BY <1>1, <1>2, <1>3, <1>4, <1>5, <1>6, <1>7, <1>8, <1>9, <1>10, StepKinds DEF Sound

-----------------------------------------------------------------------------
(* What a client has read and its FIFO, as one sequence.                      *)
LEMMA HeldInOrder ==
  ASSUME NEW S, NEW s \in Seq(S), NEW r \in Seq(S), NEW g, Numbered(s, g, 0), Numbered(r, g, Len(s))
  PROVE  /\ \A i \in DOMAIN (s \o r) : (s \o r)[i] = <<g, i>>
         /\ Len(s \o r) = Len(s) + Len(r)
<1> DEFINE t == s \o r
<1>1. /\ t \in Seq(S) /\ Len(t) = Len(s) + Len(r) /\ Len(s) \in Nat /\ Len(r) \in Nat
      /\ \A i \in 1 .. Len(s) : t[i] = s[i]
      /\ \A i \in 1 .. Len(r) : t[Len(s) + i] = r[i]
  BY Joined
<1> HIDE DEF t
<1>2. DOMAIN t = 1 .. Len(s) + Len(r)
  BY <1>1
<1>3. SUFFICES ASSUME NEW i \in 1 .. Len(s) + Len(r)
               PROVE  t[i] = <<g, i>>
  BY <1>1, <1>2, Zenon DEF t
<1>4. CASE i \in 1 .. Len(s)
  BY <1>1, <1>4 DEF Numbered
<1>5. CASE i \notin 1 .. Len(s)
  <2> DEFINE j == i - Len(s)
  <2>1. j \in 1 .. Len(r) /\ Len(s) + j = i
    BY <1>1, <1>5
  <2> HIDE DEF j
  <2>2. t[Len(s) + j] = <<g, Len(s) + j>>
    BY <1>1, <2>1, Zenon DEF Numbered
  <2>3. QED
    BY <2>1, <2>2, Zenon
<1>6. QED
  BY <1>4, <1>5

(* What every state satisfies where the modem does nothing wrong.             *)
KeptInv == TypeInv /\ Entries /\ Linked /\ NoticeRead /\ InOrder

LEMMA InitKept == Init => KeptInv
<1> SUFFICES ASSUME Init
             PROVE  KeptInv
  OBVIOUS
<1>1. Linked
  BY Constants DEF Init, Linked, Absent
<1>2. NoticeRead
  BY DEF Init, NoticeRead
<1>3. ASSUME NEW m \in Muxes
      PROVE  Keeps(m)
  <2>1. link[m].data = <<>>
    BY DEF Init, Absent
  <2>2. QED
    BY <2>1, NoneNumbered DEF Keeps
<1>4. \A c \in Clients : ~use[c]
  BY DEF Init
<1>5. QED
  BY <1>1, <1>2, <1>3, <1>4, InitTyped, InitEntries DEF KeptInv, InOrder

LEMMA KeptStep == Faults = {} /\ KeptInv /\ [Next]_vars => KeptInv'
<1> SUFFICES ASSUME Faults = {}, KeptInv, [Next]_vars
             PROVE  KeptInv'
  OBVIOUS
<1>1. Sound /\ Linked /\ NoticeRead /\ InOrder /\ TypeInv /\ Entries
  BY TypeParts DEF KeptInv, Sound, TypeInv
<1>2. "silent" \notin Faults /\ Flags
  BY <1>1 DEF Sound
<1>3. (TypeInv /\ Entries)'
  BY <1>1, <1>2, EntriesKept
<1>4. Linked' /\ NoticeRead' /\ InOrder'
  BY <1>1, <1>2, LinkedStep, NoticeStep, OrderStep
<1>5. QED
  BY <1>3, <1>4 DEF KeptInv

LEMMA KeptAlways ==
  ASSUME Faults = {}
  PROVE  Spec => []KeptInv
<1>1. KeptInv /\ [Next]_vars => KeptInv'
  BY KeptStep
<1>2. QED
  BY <1>1, InitKept, PTL DEF Spec

(* Where the modem does nothing wrong, no byte is lost, doubled or handed to   *)
(* the other client on its way through the FIFO of HeraclesTcpClient.c.       *)
THEOREM NoByteIsLost ==
  ASSUME Faults = {}
  PROVE  Spec => []NothingIsLost
<1>1. ASSUME KeptInv
      PROVE  NothingIsLost
  <2>1. SUFFICES ASSUME NEW c \in Clients, use[c]
                 PROVE  LET held == got[c] \o rx[c] IN
                        /\ \A i \in DOMAIN held : held[i] = <<gen[c], i>>
                        /\ link[mux[c]].id = gen[c] =>
                             Len(held) + Len(link[mux[c]].data) = link[mux[c]].sent
    BY DEF NothingIsLost
  <2>2. /\ Numbered(got[c], gen[c], 0) /\ Numbered(rx[c], gen[c], Len(got[c]))
        /\ link[mux[c]].id = gen[c] =>
             Len(got[c]) + Len(rx[c]) + Len(link[mux[c]].data) = link[mux[c]].sent
    BY <1>1, <2>1 DEF KeptInv, InOrder, Follows
  <2>3. got[c] \in Seq(Byte) /\ rx[c] \in Seq(Byte)
    BY <1>1, TypeParts DEF KeptInv, TypeInv, Bytes, Byte
  <2>4. /\ \A i \in DOMAIN (got[c] \o rx[c]) : (got[c] \o rx[c])[i] = <<gen[c], i>>
        /\ Len(got[c] \o rx[c]) = Len(got[c]) + Len(rx[c])
    BY <2>2, <2>3, HeldInOrder, Zenon
  <2>5. QED
    BY <2>2, <2>4, Zenon
<1>2. QED
  BY <1>1, KeptAlways, PTL

(* Then HeraclesModem__Read never finds the entry of its connection empty,     *)
(* where it would follow a null pointer.                                      *)
THEOREM NeverCrashes ==
  ASSUME Faults = {}
  PROVE  Spec => [](pc # "crashed")
<1>1. KeptInv => pc # "crashed"
  BY DEF KeptInv, Linked
<1>2. QED
  BY <1>1, KeptAlways, PTL

(* The step of one client leaves the connection of the other alone.           *)
LEMMA OwnLinkStep ==
  ASSUME Faults = {}, Sound, Linked, NoticeRead, [Next]_vars,
         NEW c \in Clients, NEW m \in Muxes, use[c], link[m].id = gen[c],
         call.by # c, call'.op # "open"
  PROVE  link'[m].id = gen[c] /\ Len(link'[m].data) >= Len(link[m].data)
<1>0. /\ call.by \in Clients /\ m = mux[c]
      /\ link[m] \in Links /\ Len(link[m].data) \in Nat
  <2>1. call.by \in Clients /\ link[m] \in Links
    BY DEF Sound, Calling, Calls, Linking
  <2>2. Len(link[m].data) \in Nat
    BY <2>1 DEF Links
  <2>3. QED
    BY <2>1, <2>2 DEF Linked
<1>s. ASSUME link'[m] = link[m]
      PROVE  link'[m].id = gen[c] /\ Len(link'[m].data) >= Len(link[m].data)
  BY <1>0, <1>s
<1>1. CASE Still \/ ConnectNoEntry \/ LoopTakes
  BY <1>1, <1>s DEF Still, ConnectNoEntry, LoopTakes, netVars
<1>2. CASE InitModem
  BY <1>2 DEF InitModem, NoCall
<1>3. CASE ConnectOk \/ ConnectFails
  <2>1. /\ pc = "open" /\ Free # {}
        /\ Establish(FirstFree) \/ link' = link
    BY <1>3 DEF ConnectOk, ConnectFails
  <2>2. FirstFree # m
    BY <1>0, <2>1, EntryApart
  <2>3. QED
    BY <1>s, <2>1, <2>2 DEF Establish, Sound, Linking
<1>4. CASE Stop
  <2>1. use[call.by] /\ link' = [link EXCEPT ![mux[call.by]] = Absent]
    BY <1>4 DEF Stop, Sound, InPlace
  <2>2. mux[call.by] # m
    BY <1>0, <2>1, EntriesApart DEF Sound
  <2>3. QED
    BY <1>s, <2>1, <2>2 DEF Sound, Linking
<1>5. CASE Fetch
  <2>1. use[call.by]
    BY <1>5, SMTT(40) DEF Fetch, Sound, InPlace
  <2>2. PICK d : link' = [link EXCEPT ![mux[call.by]].data = d]
    BY <1>5 DEF Fetch
  <2>3. mux[call.by] # m
    BY <1>0, <2>1, EntriesApart DEF Sound
  <2>4. QED
    BY <1>s, <2>2, <2>3, SMTT(40) DEF Sound, Linking
<1>6. ASSUME NEW k \in Muxes, ServerSends(k)
      PROVE  link'[m].id = gen[c] /\ Len(link'[m].data) >= Len(link[m].data)
  <2>1. CASE k # m
    BY <1>6, <1>s, <2>1 DEF ServerSends, Sound, Linking
  <2>2. CASE k = m
    <3>1. PICK b \in Byte : \E n : link' = [link EXCEPT ![m].sent = n, ![m].data = Append(link[m].data, b)]
      <4>1. <<link[m].id, link[m].sent + 1>> \in Byte
        BY <1>0 DEF Links, Byte
      <4>2. link' = [link EXCEPT ![m].sent = link[m].sent + 1,
                                 ![m].data = Append(link[m].data, <<link[m].id, link[m].sent + 1>>)]
        BY <1>6, <2>2 DEF ServerSends, Sound, Linking
      <4>3. QED
        BY <4>1, <4>2
    <3>2. link'[m].id = link[m].id /\ link'[m].data = Append(link[m].data, b)
      BY <1>0, <3>1 DEF Sound, Linking, Links
    <3>3. Len(Append(link[m].data, b)) = Len(link[m].data) + 1
      BY <1>0, AppendProperties DEF Links, Byte
    <3>4. Len(link[m].data) + 1 >= Len(link[m].data)
      BY <1>0
    <3>5. QED
      BY <3>2, <3>3, <3>4
  <2>3. QED
    BY <2>1, <2>2
<1>7. ASSUME NEW k \in Muxes, ServerCloses(k)
      PROVE  link'[m].id = gen[c] /\ Len(link'[m].data) >= Len(link[m].data)
  <2>1. link' = [link EXCEPT ![k].open = FALSE]
    BY <1>7 DEF ServerCloses
  <2>2. link'[m].id = link[m].id /\ link'[m].data = link[m].data
    BY <1>0, <2>1 DEF Sound, Linking, Links
  <2>3. QED
    BY <1>0, <2>2
<1>8. QED
  BY <1>1, <1>2, <1>3, <1>4, <1>5, <1>6, <1>7, StepKinds DEF Sound

(* Where the modem does nothing wrong, no call of one client but the reset     *)
(* takes bytes from the connection of the other or closes it.                 *)
THEOREM LinksAreOwn ==
  ASSUME Faults = {}
  PROVE  Spec => OnlyOwnLink
<1>1. ASSUME KeptInv, [Next]_vars
      PROVE  [\A c \in Clients, m \in Muxes :
                /\ use[c] /\ link[m].id = gen[c]
                /\ link'[m].id # gen[c] \/ Len(link'[m].data) < Len(link[m].data)
                => call.by = c \/ call'.op = "open"]_vars
  <2>1. Sound /\ Linked /\ NoticeRead /\ \A m \in Muxes : Len(link[m].data) \in Nat
    BY <1>1, TypeParts DEF KeptInv, Sound, TypeInv, Linking, Links
  <2>2. Linking'
    BY <1>1, KeptStep, TypeParts DEF KeptInv, TypeInv, WellTyped, Linking
  <2>3. ASSUME NEW c \in Clients, NEW m \in Muxes, use[c], link[m].id = gen[c],
               call.by # c, call'.op # "open"
        PROVE  link'[m].id = gen[c] /\ ~(Len(link'[m].data) < Len(link[m].data))
    <3>1. link'[m].id = gen[c] /\ Len(link'[m].data) >= Len(link[m].data)
      BY <1>1, <2>1, <2>3, OwnLinkStep
    <3>2. Len(link'[m].data) \in Nat /\ Len(link[m].data) \in Nat
      BY <2>1, <2>2 DEF Linking, Links
    <3>3. QED
      BY <3>1, <3>2
  <2>4. QED
    BY <2>3
<1>2. QED
  BY <1>1, KeptAlways, PTL DEF Spec, OnlyOwnLink
=============================================================================
