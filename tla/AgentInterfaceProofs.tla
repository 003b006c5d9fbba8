------------------------ MODULE AgentInterfaceProofs ------------------------
(***************************************************************************)
(* For any number of clients: any_connections_ is right whenever nobody    *)
(* changes the list, and the destructor leaves no thread behind.           *)
(***************************************************************************)
EXTENDS AgentInterface, SequenceTheorems, TLAPS

-----------------------------------------------------------------------------
(***************************************************************************)
(* The list of connections                                                 *)
(***************************************************************************)

Listed(c, s) == \E i \in DOMAIN s : s[i] = c

\* A connection added is in the list, and so are those that were.
LEMMA AppendLists ==
  ASSUME NEW S, NEW s \in Seq(S), NEW e \in S
  PROVE  /\ Append(s, e) \in Seq(S)
         /\ Listed(e, Append(s, e))
         /\ \A c : Listed(c, s) => Listed(c, Append(s, e))
<1>1. /\ Append(s, e) \in Seq(S)
      /\ DOMAIN Append(s, e) = 1..Len(s) + 1
      /\ DOMAIN s = 1..Len(s)
      /\ Len(s) \in Nat
  OBVIOUS
<1>2. Append(s, e)[Len(s) + 1] = e
  OBVIOUS
<1>3. \A i \in 1..Len(s) : Append(s, e)[i] = s[i]
  OBVIOUS
<1>4. Listed(e, Append(s, e))
  BY <1>1, <1>2 DEF Listed
<1>5. ASSUME NEW c, Listed(c, s)
      PROVE  Listed(c, Append(s, e))
  <2>1. PICK i \in 1..Len(s) : s[i] = c
    BY <1>1, <1>5 DEF Listed
  <2>2. i \in DOMAIN Append(s, e) /\ Append(s, e)[i] = c
    BY <1>1, <1>3, <2>1
  <2>3. QED
    BY <2>2 DEF Listed
<1>6. QED
  BY <1>1, <1>4, <1>5

\* Who is erased is the only one that may leave the list.
LEMMA RemoveKeepsOthers ==
  ASSUME NEW S, NEW s \in Seq(S), NEW k \in 1..Len(s)
  PROVE  /\ RemoveAt(s, k) \in Seq(S)
         /\ \A c : Listed(c, s) /\ c # s[k] => Listed(c, RemoveAt(s, k))
<1> DEFINE before == SubSeq(s, 1, k - 1)
           after == SubSeq(s, k + 1, Len(s))
           rest == before \o after
<1>1. /\ before \in Seq(S) /\ Len(before) = k - 1
      /\ \A i \in 1..k - 1 : before[i] = s[i]
  BY SubSeqProperties
<1>2. /\ after \in Seq(S) /\ Len(after) = Len(s) - k
      /\ \A i \in 1..Len(s) - k : after[i] = s[k + i]
  BY SubSeqProperties
<1> HIDE DEF before, after
<1>3. /\ rest \in Seq(S) /\ DOMAIN rest = 1..Len(s) - 1
      /\ \A i \in 1..k - 1 : rest[i] = s[i]
      /\ \A i \in k..Len(s) - 1 : rest[i] = s[i + 1]
  <2>1. /\ rest \in Seq(S) /\ Len(rest) = Len(before) + Len(after)
        /\ \A i \in 1..Len(before) + Len(after) :
             rest[i] = IF i <= Len(before) THEN before[i] ELSE after[i - Len(before)]
    BY <1>1, <1>2, ConcatProperties
  <2> HIDE DEF rest
  <2>2. DOMAIN rest = 1..Len(s) - 1
    BY <1>1, <1>2, <2>1
  <2>3. ASSUME NEW i \in 1..k - 1
        PROVE  rest[i] = s[i]
    <3>1. i \in 1..Len(before) + Len(after) /\ i <= Len(before)
      BY <1>1, <1>2
    <3>2. rest[i] = before[i]
      BY <2>1, <3>1
    <3>3. QED
      BY <1>1, <3>2
  <2>4. ASSUME NEW i \in k..Len(s) - 1
        PROVE  rest[i] = s[i + 1]
    <3>0. i \in 1..Len(before) + Len(after) /\ ~(i <= Len(before))
      BY <1>1, <1>2
    <3>1. rest[i] = after[i - (k - 1)]
      BY <1>1, <2>1, <3>0
    <3>2. i - (k - 1) \in 1..Len(s) - k
      OBVIOUS
    <3>3. after[i - (k - 1)] = s[k + (i - (k - 1))]
      BY <1>2, <3>2
    <3>4. QED
      BY <3>1, <3>3
  <2>5. QED
    BY <2>1, <2>2, <2>3, <2>4
<1>4. RemoveAt(s, k) = rest
  BY DEF RemoveAt, before, after
<1> HIDE DEF rest
<1>5. ASSUME NEW c, Listed(c, s), c # s[k]
      PROVE  Listed(c, rest)
  <2>1. PICK i \in 1..Len(s) : s[i] = c
    BY <1>5 DEF Listed
  <2>2. CASE i < k
    <3>1. i \in 1..k - 1 /\ i \in 1..Len(s) - 1
      BY <2>1, <2>2
    <3>2. i \in DOMAIN rest /\ rest[i] = c
      BY <2>1, <3>1, <1>3
    <3>3. QED
      BY <3>2 DEF Listed
  <2>3. CASE i > k
    <3>1. i - 1 \in k..Len(s) - 1 /\ rest[i - 1] = c
      BY <2>1, <2>3, <1>3
    <3>2. QED
      BY <3>1, <1>3 DEF Listed
  <2>4. QED
    BY <2>1, <2>2, <2>3, <1>5
<1>6. QED
  BY <1>3, <1>4, <1>5

\* The destructor takes the first.
LEMMA TailKeepsOthers ==
  ASSUME NEW S, NEW s \in Seq(S), s # <<>>
  PROVE  /\ Tail(s) \in Seq(S)
         /\ Head(s) \in S
         /\ \A c : Listed(c, s) /\ c # Head(s) => Listed(c, Tail(s))
<1>1. /\ Tail(s) \in Seq(S) /\ Head(s) = s[1] /\ Head(s) \in S
      /\ DOMAIN s = 1..Len(s) /\ DOMAIN Tail(s) = 1..Len(s) - 1
      /\ \A i \in 1..Len(s) - 1 : Tail(s)[i] = s[i + 1]
  OBVIOUS
<1>2. ASSUME NEW c, Listed(c, s), c # Head(s)
      PROVE  Listed(c, Tail(s))
  <2>1. PICK i \in 1..Len(s) : s[i] = c
    BY <1>1, <1>2 DEF Listed
  <2>2. i - 1 \in 1..Len(s) - 1 /\ Tail(s)[i - 1] = c
    BY <1>1, <1>2, <2>1
  <2>3. QED
    BY <1>1, <2>2 DEF Listed
<1>3. QED
  BY <1>1, <1>2

-----------------------------------------------------------------------------
(***************************************************************************)
(* The invariant                                                           *)
(***************************************************************************)

Sending == {"queue", "active", "erase", "join", "crashed"}

\* Who holds agents_mutex_ is where it has taken it and not released it.
Exclusion ==
  /\ server = "connect" <=> agents_mutex_ = "server"
  /\ emulator \in Sending <=> agents_mutex_ = "emulator"
  /\ main = "clear" <=> agents_mutex_ = "main"

\* How far one thread is says how far the others are.
Phases ==
  /\ emulator # "idle" => main = "running"
  /\ emulator = "join" => agents_ # <<>> /\ to_delete # <<>>
  /\ shutdown_ => main \in {"join server", "destroy", "done"}
  /\ main \in {"destroy", "done"} => server = "ended"
  /\ main = "done" => agents_ = <<>>

\* Only between adding the first connection and saying so is the flag wrong.
FlagRight == agents_mutex_ # "server" /\ agents_ # <<>> => any_connections_

\* A thread that runs is that of a connection in the list.
ThreadsListed ==
  \A c \in Clients : connection[c] \notin {"none", "ended"} => Listed(c, agents_)

IInv == TypeOK /\ Exclusion /\ Phases /\ FlagRight /\ ThreadsListed

LEMMA InitIInv == Init => IInv
<1> SUFFICES ASSUME Init PROVE IInv
  OBVIOUS
<1> USE DEF Init
<1>1. TypeOK
  <2>1. agents_ \in Seq(Clients) /\ to_delete \in Seq(Nat \ {0})
    BY EmptySeq
  <2>2. /\ client \in [Clients -> ClientPlaces]
        /\ connection \in [Clients -> ConnectionPlaces]
        /\ fresh \in [Clients -> BOOLEAN]
        /\ stopping \in [Clients -> BOOLEAN]
    BY DEF ClientPlaces, ConnectionPlaces
  <2>3. server \in ServerPlaces /\ emulator \in EmulatorPlaces /\ main \in MainPlaces
    BY DEF ServerPlaces, EmulatorPlaces, MainPlaces
  <2>4. any_connections_ \in BOOLEAN /\ shutdown_ \in BOOLEAN
    OBVIOUS
  <2>5. index \in Nat \ {0}
    OBVIOUS
  <2>6. agents_mutex_ \in {"server", "emulator", "main", Nobody}
    OBVIOUS
  <2>7. QED
    BY <2>1, <2>2, <2>3, <2>4, <2>5, <2>6, Zenon DEF TypeOK
<1>2. Exclusion /\ Phases
  BY ClientsAssumption DEF Exclusion, Phases, Sending
<1>3. FlagRight /\ ThreadsListed
  BY DEF FlagRight, ThreadsListed
<1>4. QED
  BY <1>1, <1>2, <1>3 DEF IInv

\* What clients do concerns nobody's list, locks or threads.
LEMMA ClientKeeps ==
  ASSUME IInv, NEW c \in Clients, Client(c)
  PROVE  IInv'
<1>1. /\ client' \in [Clients -> ClientPlaces]
      /\ UNCHANGED <<connectionVars, stopping, listVars, shutdown_, server,
                     emulatorVars, main>>
  <2>1. ASSUME NEW from, NEW to \in ClientPlaces, ClientGoes(c, from, to)
        PROVE  /\ client' \in [Clients -> ClientPlaces]
               /\ UNCHANGED <<connectionVars, stopping, listVars, shutdown_, server,
                              emulatorVars, main>>
    BY <2>1 DEF ClientGoes, IInv, TypeOK
  <2>2. QED
    BY <2>1 DEF Client, Connect, Stall, ReadAgain, HangUp, HungUp, ClientPlaces
<1>2. QED
  BY <1>1 DEF IInv, TypeOK, Exclusion, Phases, FlagRight, ThreadsListed, Listed,
              connectionVars, listVars, emulatorVars

\* A thread that goes on was running before, and one that ends is not missed.
LEMMA ConnectionKeeps ==
  ASSUME IInv, NEW c \in Clients, Run(c) \/ Write(c) \/ Receive(c)
  PROVE  IInv'
<1> USE DEF IInv
<1>1. /\ client' \in [Clients -> ClientPlaces]
      /\ fresh' \in [Clients -> BOOLEAN]
      /\ connection' \in [Clients -> ConnectionPlaces]
      /\ UNCHANGED <<stopping, listVars, shutdown_, server, emulatorVars, main>>
      /\ \A d \in Clients : connection'[d] \notin {"none", "ended"}
                           => connection[d] \notin {"none", "ended"}
  <2> USE DEF ConnectionOnly, TypeOK, ClientPlaces, ConnectionPlaces, ConnectionGoes
  <2>1. CASE TakeScreenshot(c)
    BY <2>1 DEF TakeScreenshot
  <2>2. CASE SeesShutdown(c)
    BY <2>2 DEF SeesShutdown
  <2>3. CASE ReadNothing(c)
    BY <2>3 DEF ReadNothing, ToldOfReset, connectionVars
  <2>4. CASE EndRun(c)
    BY <2>4 DEF EndRun
  <2>5. CASE WriteHeader(c)
    BY <2>5 DEF WriteHeader, Written, ToldOfReset, AfterHeader
  <2>6. CASE WritePayload(c)
    BY <2>6 DEF WritePayload, Written, ToldOfReset
  <2>7. CASE ReadHeader(c)
    BY <2>7 DEF ReadHeader
  <2>8. CASE AssertFails(c)
    BY <2>8 DEF AssertFails
  <2>9. CASE ReceivePayload(c)
    BY <2>9 DEF ReceivePayload
  <2>10. CASE ReceiveEnd(c)
    BY <2>10 DEF ReceiveEnd, ToldOfReset
  <2>11. QED
    BY <2>1, <2>2, <2>3, <2>4, <2>5, <2>6, <2>7, <2>8, <2>9, <2>10
    DEF Run, Write, Receive
<1>2. TypeOK'
  BY <1>1 DEF TypeOK, listVars, emulatorVars
<1>3. Exclusion' /\ Phases' /\ FlagRight'
  BY <1>1 DEF Exclusion, Phases, FlagRight, listVars, emulatorVars
<1>4. ThreadsListed'
  BY <1>1 DEF ThreadsListed, Listed, listVars
<1>5. QED
  BY <1>2, <1>3, <1>4

\* The server adds a connection under the lock, and raises the flag before it
\* gives the lock back.
LEMMA ServerKeeps ==
  ASSUME IInv, Server
  PROVE  IInv'
<1> USE DEF IInv, ServerOnly
<1>1. ASSUME NEW from, NEW to \in ServerPlaces, ServerOnlyGoes(from, to),
             from # "connect", to # "connect", from # "ended"
      PROVE  IInv'
  <2> USE <1>1 DEF ServerOnlyGoes, ServerGoes, listVars, emulatorVars
  <2>1. TypeOK'
    BY DEF TypeOK
  <2>2. Exclusion' /\ Phases'
    BY DEF Exclusion, Phases
  <2>3. FlagRight' /\ ThreadsListed'
    BY DEF FlagRight, ThreadsListed, Listed
  <2>4. QED
    BY <2>1, <2>2, <2>3
<1>2. CASE ServerStart
  <2> USE <1>2 DEF ServerStart, ServerGoes, listVars, emulatorVars
  <2>1. TypeOK'
    BY DEF TypeOK, ServerPlaces
  <2>2. Exclusion' /\ Phases'
    BY DEF Exclusion, Phases
  <2>3. FlagRight' /\ ThreadsListed'
    BY DEF FlagRight, ThreadsListed, Listed
  <2>4. QED
    BY <2>1, <2>2, <2>3
<1>3. CASE ServerConnect
  <2>1. PICK c \in Clients, to \in {"loop", "ending"} :
          ConnectionGoes(c, "none", to) /\ agents_' = Append(agents_, c)
    BY <1>3 DEF ServerConnect, Backlog
  <2>2. /\ server = "accept" /\ server' = "connect"
        /\ agents_mutex_ = Nobody /\ agents_mutex_' = "server"
        /\ UNCHANGED <<client, fresh, stopping, emulatorVars, main,
                       any_connections_, shutdown_>>
    BY <1>3 DEF ServerConnect, ServerGoes
  <2>3. /\ agents_' \in Seq(Clients)
        /\ Listed(c, agents_')
        /\ \A d : Listed(d, agents_) => Listed(d, agents_')
    BY <2>1, AppendLists DEF TypeOK
  <2>4. TypeOK'
    BY <2>1, <2>2, <2>3 DEF TypeOK, ServerPlaces, ConnectionPlaces, ConnectionGoes,
                            emulatorVars
  <2>5. Exclusion' /\ Phases'
    BY <2>2, ClientsAssumption DEF Exclusion, Phases, Sending, emulatorVars
  <2>6. FlagRight'
    BY <2>2 DEF FlagRight
  <2>7. ThreadsListed'
    BY <2>1, <2>3 DEF ThreadsListed, ConnectionGoes, TypeOK
  <2>8. QED
    BY <2>4, <2>5, <2>6, <2>7
<1>4. CASE ServerConnected
  <2> USE <1>4 DEF ServerConnected, ServerGoes, emulatorVars
  <2>1. TypeOK'
    BY DEF TypeOK, ServerPlaces
  <2>2. Exclusion' /\ Phases'
    BY ClientsAssumption DEF Exclusion, Phases
  <2>3. FlagRight'
    BY Zenon DEF FlagRight
  <2>4. ThreadsListed'
    BY DEF ThreadsListed, Listed
  <2>5. QED
    BY <2>1, <2>2, <2>3, <2>4
<1>5. QED
  BY <1>1, <1>2, <1>3, <1>4
  DEF Server, ServerWorks, ServerLoop, ServerPoll, ServerLost, ServerPlaces

\* The emulator takes ended connections out under the lock, and lowers the
\* flag only over an empty list.
LEMMA EmulatorKeeps ==
  ASSUME IInv, Emulator
  PROVE  IInv'
<1> USE DEF IInv, EmulatorOnly, EmulatorGoes
<1>1. CASE check_send_screenshot_to_agent
  <2> USE <1>1 DEF check_send_screenshot_to_agent, listVars
  <2>1. TypeOK'
    BY DEF TypeOK, EmulatorPlaces
  <2>2. Exclusion' /\ Phases'
    BY DEF Exclusion, Phases, Sending
  <2>3. FlagRight'
    BY Zenon DEF FlagRight
  <2>4. ThreadsListed'
    BY DEF ThreadsListed, Listed
  <2>5. QED
    BY <2>1, <2>2, <2>3, <2>4
<1>2. CASE SendLock
  <2> USE <1>2 DEF SendLock, listVars
  <2>1. TypeOK'
    BY DEF TypeOK, EmulatorPlaces
  <2>2. Exclusion' /\ Phases'
    BY ClientsAssumption DEF Exclusion, Phases, Sending
  <2>3. FlagRight' /\ ThreadsListed'
    BY ClientsAssumption DEF FlagRight, ThreadsListed, Listed
  <2>4. QED
    BY <2>1, <2>2, <2>3
<1>3. CASE queue_screenshot
  <2> USE <1>3 DEF queue_screenshot, listVars
  <2>1. TypeOK'
    BY DEF TypeOK, EmulatorPlaces
  <2>2. Exclusion' /\ Phases'
    BY DEF Exclusion, Phases, Sending
  <2>3. FlagRight' /\ ThreadsListed'
    BY DEF FlagRight, ThreadsListed, Listed
  <2>4. QED
    BY <2>1, <2>2, <2>3
<1>4. CASE TestActive
  <2> USE <1>4 DEF TestActive, listVars
  <2>1. TypeOK'
    BY DEF TypeOK, EmulatorPlaces
  <2>2. Exclusion' /\ Phases'
    BY DEF Exclusion, Phases, Sending
  <2>3. FlagRight' /\ ThreadsListed'
    BY DEF FlagRight, ThreadsListed, Listed
  <2>4. QED
    BY <2>1, <2>2, <2>3
<1>5. CASE QueuedAll
  <2> USE <1>5 DEF QueuedAll, listVars
  <2>1. TypeOK'
    BY DEF TypeOK, EmulatorPlaces
  <2>2. Exclusion' /\ Phases'
    BY DEF Exclusion, Phases, Sending
  <2>3. FlagRight' /\ ThreadsListed'
    BY DEF FlagRight, ThreadsListed, Listed
  <2>4. QED
    BY <2>1, <2>2, <2>3
<1>6. CASE EraseFlags
  <2> USE <1>6 DEF EraseFlags, listVars, Flag
  <2>1. TypeOK'
    BY DEF TypeOK, EmulatorPlaces
  <2>2. Exclusion' /\ Phases'
    BY DEF Exclusion, Phases, Sending
  <2>3. FlagRight' /\ ThreadsListed'
    BY DEF FlagRight, ThreadsListed, Listed
  <2>4. QED
    BY <2>1, <2>2, <2>3
<1>7. CASE EraseJoins
  <2>1. /\ emulator = "join" /\ emulator' = "erase"
        /\ Joined(agents_[Erased])
        /\ agents_' = RemoveAt(agents_, Erased)
        /\ to_delete' = Tail(to_delete)
        /\ UNCHANGED <<client, connection, shutdown_, server, main, fresh, stopping,
                       agents_mutex_, any_connections_, index>>
    BY <1>7 DEF EraseJoins
  <2>2. agents_ # <<>> /\ to_delete # <<>>
    BY <2>1 DEF Phases
  <2>3. Head(to_delete) \in Nat \ {0} /\ Tail(to_delete) \in Seq(Nat \ {0})
    BY <2>2, TailKeepsOthers DEF TypeOK
  <2>4. Erased \in 1..Len(agents_)
    <3>1. Len(agents_) \in Nat \ {0}
      BY <2>2, EmptySeq DEF TypeOK
    <3>2. QED
      BY <2>3, <3>1 DEF Erased
  <2>5. /\ agents_' \in Seq(Clients)
        /\ \A c : Listed(c, agents_) /\ c # agents_[Erased] => Listed(c, agents_')
    BY <2>1, <2>4, RemoveKeepsOthers DEF TypeOK
  <2>6. TypeOK'
    BY <2>1, <2>3, <2>5 DEF TypeOK, EmulatorPlaces
  <2>7. Exclusion' /\ Phases'
    BY <2>1 DEF Exclusion, Phases, Sending
  <2>8. FlagRight'
    BY <2>1, <2>2 DEF FlagRight
  <2>9. ThreadsListed'
    BY <2>1, <2>5 DEF ThreadsListed, Joined
  <2>10. QED
    BY <2>6, <2>7, <2>8, <2>9
<1>8. CASE EraseOverruns
  <2> USE <1>8 DEF EraseOverruns, listVars
  <2>1. TypeOK'
    BY DEF TypeOK, EmulatorPlaces
  <2>2. Exclusion' /\ Phases'
    BY DEF Exclusion, Phases, Sending
  <2>3. FlagRight' /\ ThreadsListed'
    BY DEF FlagRight, ThreadsListed, Listed
  <2>4. QED
    BY <2>1, <2>2, <2>3
<1>9. CASE SendUnlock
  <2> USE <1>9 DEF SendUnlock, listVars, NoneLeft
  <2>1. TypeOK'
    BY DEF TypeOK, EmulatorPlaces
  <2>2. Exclusion' /\ Phases'
    BY ClientsAssumption DEF Exclusion, Phases, Sending
  <2>3. FlagRight'
    <3>1. agents_mutex_ # "server" /\ agents_' = agents_
      BY DEF Exclusion, Sending
    <3>2. CASE agents_ = <<>>
      BY <3>1, <3>2 DEF FlagRight
    <3>3. CASE agents_ # <<>>
      <4>1. any_connections_ = TRUE
        BY <3>1, <3>3 DEF FlagRight, TypeOK
      <4>2. any_connections_' = TRUE
        BY <3>3, <4>1
      <4>3. QED
        BY <4>2, Zenon DEF FlagRight
    <3>4. QED
      BY <3>2, <3>3
  <2>4. ThreadsListed'
    BY DEF ThreadsListed, Listed
  <2>5. QED
    BY <2>1, <2>2, <2>3, <2>4
<1>10. QED
  BY <1>1, <1>2, <1>3, <1>4, <1>5, <1>6, <1>7, <1>8, <1>9 DEF Emulator, send_screenshot

\* The destructor takes out a connection only after its thread has ended, and
\* goes on to the members when the server can add no more.
LEMMA MainKeeps ==
  ASSUME IInv, Main
  PROVE  IInv'
<1> USE DEF IInv, MainOnly, MainGoes
<1>1. CASE Quit
  <2> USE <1>1 DEF Quit, connectionVars, listVars, emulatorVars
  <2>1. TypeOK'
    BY DEF TypeOK, MainPlaces
  <2>2. Exclusion' /\ Phases'
    BY DEF Exclusion, Phases, Sending
  <2>3. FlagRight' /\ ThreadsListed'
    BY DEF FlagRight, ThreadsListed, Listed
  <2>4. QED
    BY <2>1, <2>2, <2>3
<1>2. CASE ClearLock
  <2> USE <1>2 DEF ClearLock, connectionVars, listVars, emulatorVars
  <2>1. TypeOK'
    BY DEF TypeOK, MainPlaces
  <2>2. Exclusion' /\ Phases'
    BY ClientsAssumption DEF Exclusion, Phases, Sending
  <2>3. FlagRight' /\ ThreadsListed'
    BY ClientsAssumption DEF FlagRight, ThreadsListed, Listed
  <2>4. QED
    BY <2>1, <2>2, <2>3
<1>3. CASE DestroyFlags
  <2> USE <1>3 DEF DestroyFlags, connectionVars, listVars, emulatorVars, Flag
  <2>1. TypeOK'
    BY DEF TypeOK, MainPlaces
  <2>2. Exclusion' /\ Phases'
    BY DEF Exclusion, Phases, Sending
  <2>3. FlagRight' /\ ThreadsListed'
    BY DEF FlagRight, ThreadsListed, Listed
  <2>4. QED
    BY <2>1, <2>2, <2>3
<1>4. CASE DestroyJoins
  <2>1. /\ main \in Destroying /\ agents_ # <<>> /\ Joined(Head(agents_))
        /\ agents_' = Tail(agents_)
        /\ UNCHANGED <<client, connection, fresh, server, emulator, index, to_delete,
                       stopping, agents_mutex_, any_connections_, shutdown_, main>>
    BY <1>4 DEF DestroyJoins, connectionVars, emulatorVars
  <2>2. /\ agents_' \in Seq(Clients)
        /\ \A c : Listed(c, agents_) /\ c # Head(agents_) => Listed(c, agents_')
    BY <2>1, TailKeepsOthers DEF TypeOK
  <2>3. TypeOK'
    BY <2>1, <2>2 DEF TypeOK
  <2>4. Exclusion' /\ Phases'
    BY <2>1 DEF Exclusion, Phases, Destroying
  <2>5. FlagRight'
    BY <2>1 DEF FlagRight
  <2>6. ThreadsListed'
    BY <2>1, <2>2 DEF ThreadsListed, Joined
  <2>7. QED
    BY <2>3, <2>4, <2>5, <2>6
<1>5. CASE Cleared
  <2> USE <1>5 DEF Cleared, connectionVars, listVars, emulatorVars
  <2>1. TypeOK'
    BY DEF TypeOK, MainPlaces
  <2>2. Exclusion' /\ Phases'
    BY ClientsAssumption DEF Exclusion, Phases, Sending
  <2>3. FlagRight' /\ ThreadsListed'
    BY DEF FlagRight, ThreadsListed, Listed
  <2>4. QED
    BY <2>1, <2>2, <2>3
<1>6. CASE RaiseShutdown
  <2> USE <1>6 DEF RaiseShutdown, connectionVars, listVars, emulatorVars
  <2>1. TypeOK'
    BY DEF TypeOK, MainPlaces
  <2>2. Exclusion' /\ Phases'
    BY DEF Exclusion, Phases, Sending
  <2>3. FlagRight' /\ ThreadsListed'
    BY DEF FlagRight, ThreadsListed, Listed
  <2>4. QED
    BY <2>1, <2>2, <2>3
<1>7. CASE JoinServer
  <2> USE <1>7 DEF JoinServer, connectionVars, listVars, emulatorVars, ServerJoined
  <2>1. TypeOK'
    BY DEF TypeOK, MainPlaces
  <2>2. Exclusion' /\ Phases'
    BY DEF Exclusion, Phases, Sending
  <2>3. FlagRight' /\ ThreadsListed'
    BY DEF FlagRight, ThreadsListed, Listed
  <2>4. QED
    BY <2>1, <2>2, <2>3
<1>8. CASE Destroyed
  <2> USE <1>8 DEF Destroyed, connectionVars, listVars, emulatorVars
  <2>1. TypeOK'
    BY DEF TypeOK, MainPlaces
  <2>2. Exclusion' /\ Phases'
    BY DEF Exclusion, Phases, Sending
  <2>3. FlagRight' /\ ThreadsListed'
    BY DEF FlagRight, ThreadsListed, Listed
  <2>4. QED
    BY <2>1, <2>2, <2>3
<1>9. QED
  BY <1>1, <1>2, <1>3, <1>4, <1>5, <1>6, <1>7, <1>8 DEF Main, shutdown

LEMMA NextKeeps == IInv /\ [Next]_vars => IInv'
<1> SUFFICES ASSUME IInv, [Next]_vars PROVE IInv'
  OBVIOUS
<1>1. CASE Next
  BY <1>1, ClientKeeps, ConnectionKeeps, ServerKeeps, EmulatorKeeps, MainKeeps DEF Next
<1>2. CASE UNCHANGED vars
  BY <1>2 DEF IInv, TypeOK, Exclusion, Phases, FlagRight, ThreadsListed, Listed,
              vars, connectionVars, listVars, emulatorVars
<1>3. QED
  BY <1>1, <1>2

\* However many clients come and go: the four facts about mutex, phases, flag and
\* threads hold together, and each step needs the others to keep its own.
THEOREM Invariant == Spec => []IInv
BY InitIInv, NextKeeps, PTL DEF Spec

-----------------------------------------------------------------------------
(***************************************************************************)
(* What the runs check, for any number of clients                          *)
(***************************************************************************)

\* However the server, the emulator and the destructor take turns, a list that
\* nobody changes and that is not empty is one any_connections_ tells of.
THEOREM FlagCorrect == Spec => []AnyConnectionsRight
<1>1. IInv => AnyConnectionsRight
  BY ClientsAssumption DEF IInv, FlagRight, AnyConnectionsRight
<1>2. QED
  BY <1>1, Invariant, PTL

\* When the destructor has returned the server has ended, and so has every
\* connection ever accepted, the ones after the list was cleared included.
THEOREM NoThreadLeft == Spec => []ThreadsJoined
<1>1. IInv => ThreadsJoined
  BY DEF IInv, Phases, ThreadsListed, Listed, ThreadsJoined
<1>2. QED
  BY <1>1, Invariant, PTL
=============================================================================
