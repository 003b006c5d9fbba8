--------------------------- MODULE AgentInterface ---------------------------
(***************************************************************************)
(* The server through which agents watch and play (agent/agent_interface). *)
(* A server thread accepts clients, each connection has a thread of its    *)
(* own that sends it screenshots and receives its messages, the emulator   *)
(* hands a screenshot to all connections and forgets those whose thread    *)
(* has ended, and the main thread destroys everything when the program     *)
(* quits.                                                                  *)
(*                                                                         *)
(* A step is what a thread does between two accesses that another thread   *)
(* can get in between.  agents_mutex_ is a variable; the screenshot_mutex_ *)
(* of a connection is held exactly where its thread writes to the socket.  *)
(* Which buttons a client presses is the subject of Joypads.               *)
(***************************************************************************)
EXTENDS Naturals, Sequences, SequencesExt

CONSTANTS
  Clients,   \* the agents; each connects once, and names its connection
  Nobody     \* the owner of a free mutex

ASSUME ClientsAssumption == Clients # {} /\ Nobody \notin {"server", "emulator", "main"}

VARIABLES
  client,            \* the far end of each connection
  connection,        \* where the thread of each connection is
  fresh,             \* its screenshot_to_send_ is not the one it sent last
  stopping,          \* AgentConnection::shutdown_
  agents_,           \* AgentInterface::agents_
  agents_mutex_,     \* the thread that holds AgentInterface::agents_mutex_
  any_connections_,  \* AgentInterface::any_connections_
  shutdown_,         \* AgentInterface::shutdown_
  server,            \* where the server thread is
  emulator,          \* where the thread that runs the machine is
  index,             \* its position in agents_, from 1
  to_delete,         \* the positions of the connections it will erase
  main               \* where the main thread is

connectionVars == <<connection, fresh>>
listVars == <<agents_, agents_mutex_, any_connections_>>
emulatorVars == <<emulator, index, to_delete>>
vars == <<client, connectionVars, stopping, listVars, shutdown_, server,
          emulatorVars, main>>

\* A client is "reset" when it hangs up without having read everything: the
\* next use of the socket is told so, and the ones after it find it closed.
ClientPlaces == {"away", "reading", "stalled", "reset", "gone"}
ConnectionPlaces ==
  {"none", "loop", "header", "payload", "receive", "aborted", "ending", "ended"}
ServerPlaces == {"start", "loop", "poll", "accept", "connect", "ended"}
EmulatorPlaces == {"idle", "lock", "queue", "active", "erase", "join", "crashed"}
MainPlaces == {"running", "lock", "clear", "stop", "join server", "destroy", "done"}

HungUp == {"reset", "gone"}

\* The empty screenshot a connection starts with has timestamp 0 and
\* last_sent_screenshot_timestamp_ is 1: it is sent like any other.
Init ==
  /\ client = [c \in Clients |-> "away"]
  /\ connection = [c \in Clients |-> "none"]
  /\ fresh = [c \in Clients |-> TRUE]
  /\ stopping = [c \in Clients |-> FALSE]
  /\ agents_ = <<>>
  /\ agents_mutex_ = Nobody
  /\ any_connections_ = FALSE
  /\ shutdown_ = FALSE
  /\ server = "start"
  /\ emulator = "idle"
  /\ index = 1
  /\ to_delete = <<>>
  /\ main = "running"

-----------------------------------------------------------------------------
(* The clients. *)

ClientGoes(c, from, to) ==
  /\ client[c] \in from
  /\ client' = [client EXCEPT ![c] = to]
  /\ UNCHANGED <<connectionVars, stopping, listVars, shutdown_, server,
                 emulatorVars, main>>

\* The kernel queues a client that connects while the acceptor is open.
Connect(c) == server \notin {"start", "ended"} /\ ClientGoes(c, {"away"}, "reading")

\* A client that does not read fills its socket and blocks who writes to it;
\* nobody else can tell, so it stops reading when somebody writes.
Stall(c) == connection[c] \in {"header", "payload"} /\ ClientGoes(c, {"reading"}, "stalled")
ReadAgain(c) == ClientGoes(c, {"stalled"}, "reading")
HangUp(c) == \E to \in HungUp : ClientGoes(c, {"reading", "stalled"}, to)

Client(c) == Connect(c) \/ Stall(c) \/ ReadAgain(c) \/ HangUp(c)

-----------------------------------------------------------------------------
(* AgentConnection::run(). *)

\* Nobody writes to c and its screenshot_mutex_ is free.
ScreenshotFree(c) == connection[c] \notin {"header", "payload"}

ConnectionGoes(c, from, to) ==
  /\ connection[c] = from
  /\ connection' = [connection EXCEPT ![c] = to]

ConnectionOnly == UNCHANGED <<stopping, listVars, shutdown_, server, emulatorVars, main>>

\* The head of the loop, and the lock it takes to look for a screenshot.
TakeScreenshot(c) ==
  /\ ConnectionGoes(c, "loop", "header")
  /\ fresh[c] /\ ~stopping[c]
  /\ fresh' = [fresh EXCEPT ![c] = FALSE]
  /\ ConnectionOnly /\ UNCHANGED client

SeesShutdown(c) ==
  /\ ConnectionGoes(c, "loop", "ending")
  /\ stopping[c]
  /\ ConnectionOnly /\ UNCHANGED <<client, fresh>>

\* A read or write that fails has told of a reset.
ToldOfReset(c) == client' = [client EXCEPT ![c] = IF @ = "reset" THEN "gone" ELSE @]

\* The read at the end of the loop is part of the step before it: nobody else
\* can do anything to it in between but hang up, which the next use finds out.
NothingToSend(c) == connection[c] = "loop" /\ ~fresh[c] /\ ~stopping[c]

\* No header comes within 5 ms, or the socket is closed: the loop goes on.
ReadNothing(c) ==
  /\ NothingToSend(c)
  /\ ToldOfReset(c)
  /\ ConnectionOnly /\ UNCHANGED connectionVars

\* The client has begun a message, ...
ReadHeader(c) ==
  /\ NothingToSend(c)
  /\ ConnectionGoes(c, "loop", "receive")
  /\ ConnectionOnly /\ UNCHANGED <<client, fresh>>

\* ... which has to fit into the buffer: the assertion ends the process.
AssertFails(c) ==
  /\ ConnectionGoes(c, "receive", "aborted")
  /\ ConnectionOnly /\ UNCHANGED <<client, fresh>>

\* read_n() returns when the client has sent the rest of its message, ...
ReceivePayload(c) ==
  /\ client[c] \notin HungUp
  /\ ConnectionGoes(c, "receive", "loop")
  /\ ConnectionOnly /\ UNCHANGED <<client, fresh>>

\* ... or has hung up.
ReceiveEnd(c) ==
  /\ client[c] \in HungUp
  /\ ConnectionGoes(c, "receive", "loop")
  /\ ToldOfReset(c)
  /\ ConnectionOnly /\ UNCHANGED fresh

\* Defect: a client that hung up is only found out while writing a payload.
AfterHeaderIgnoresPipe(c) == IF client[c] = "reading" THEN "payload" ELSE "loop"

\* Where run() goes after the header: EPIPE ends the loop, another error is
\* tried again with the next screenshot.
AfterHeader(c) ==
  CASE client[c] = "reading" -> "payload"
    [] client[c] = "reset" -> "loop"
    [] OTHER -> "ending"

\* A write waits for a client that does not read.
Written(c) == client[c] # "stalled" /\ ToldOfReset(c)

WriteHeader(c) ==
  /\ Written(c)
  /\ ConnectionGoes(c, "header", AfterHeader(c))
  /\ ConnectionOnly /\ UNCHANGED fresh

\* An error with the payload is tried again, and after it the thread reads.
WritePayload(c) ==
  /\ Written(c)
  /\ \/ ConnectionGoes(c, "payload", "loop")
     \/ client[c] = "reading" /\ ConnectionGoes(c, "payload", "receive")
  /\ ConnectionOnly /\ UNCHANGED fresh

\* The guard of run() clears active_.
EndRun(c) ==
  /\ ConnectionGoes(c, "ending", "ended")
  /\ ConnectionOnly /\ UNCHANGED <<client, fresh>>

\* What the thread does by itself, what it does with a client that reads, and
\* what it does with one that sends.
Run(c) ==
  \/ TakeScreenshot(c) \/ SeesShutdown(c) \/ ReadNothing(c)
  \/ ReceiveEnd(c) \/ EndRun(c)
Write(c) == WriteHeader(c) \/ WritePayload(c)
Receive(c) == ReadHeader(c) \/ AssertFails(c) \/ ReceivePayload(c)

active(c) == connection[c] # "ended"

\* Defect: a shutdown() that joins without raising the flag.
FlagForgotten(c) == UNCHANGED stopping

\* The two halves of AgentConnection::shutdown(), called by the destructor.
Flag(c) == stopping' = [stopping EXCEPT ![c] = TRUE]

Joined(c) == stopping[c] /\ connection[c] = "ended"

-----------------------------------------------------------------------------
(* AgentInterface::start() on the server thread. *)

ServerGoes(from, to) == server = from /\ server' = to

ServerOnly == UNCHANGED <<client, fresh, stopping, emulatorVars, main>>

\* start() begins with shutdown_ = false; opening the socket may fail.
ServerStart ==
  /\ \E to \in {"loop", "ended"} : ServerGoes("start", to)
  /\ shutdown_' = FALSE
  /\ ServerOnly /\ UNCHANGED <<connection, listVars>>

ServerOnlyGoes(from, to) ==
  /\ ServerGoes(from, to)
  /\ ServerOnly /\ UNCHANGED <<connection, listVars, shutdown_>>

\* The head of the loop: a shutdown during the poll is seen after it.
ServerLoop == ServerOnlyGoes("loop", IF shutdown_ THEN "ended" ELSE "poll")

Backlog == {c \in Clients : client[c] # "away" /\ connection[c] = "none"}

\* poll() times out after 500 ms or reports a client; the lock is taken after
\* accept().
ServerPoll == ServerOnlyGoes("poll", IF Backlog = {} THEN "loop" ELSE "accept")

\* poll() reports that the socket is lost.
ServerLost == ServerOnlyGoes("poll", "ended")

\* An accept() that fails leaves a socket that ends run() at its first test.
ServerConnect ==
  /\ ServerGoes("accept", "connect")
  /\ agents_mutex_ = Nobody
  /\ agents_mutex_' = "server"
  /\ \E c \in Backlog, to \in {"loop", "ending"} :
       /\ ConnectionGoes(c, "none", to)
       /\ agents_' = Append(agents_, c)
  /\ ServerOnly /\ UNCHANGED <<any_connections_, shutdown_>>

ServerConnected ==
  /\ ServerGoes("connect", "loop")
  /\ any_connections_' = TRUE
  /\ agents_mutex_' = Nobody
  /\ ServerOnly /\ UNCHANGED <<connection, agents_, shutdown_>>

\* The steps start() is bound to take: losing the socket is not one.
ServerWorks ==
  ServerStart \/ ServerLoop \/ ServerPoll \/ ServerConnect \/ ServerConnected

Server == ServerWorks \/ ServerLost

-----------------------------------------------------------------------------
(* AgentInterface::send_screenshot() on the thread that runs the machine. *)

EmulatorGoes(from, to) == emulator = from /\ emulator' = to

EmulatorOnly == UNCHANGED <<client, connection, shutdown_, server, main>>

\* Nes::check_send_screenshot_to_agent(), every half a second of the machine.
\* The machine has stopped when the program quits.
check_send_screenshot_to_agent ==
  /\ EmulatorGoes("idle", "lock")
  /\ main = "running"
  /\ any_connections_
  /\ EmulatorOnly /\ UNCHANGED <<fresh, stopping, listVars, index, to_delete>>

SendLock ==
  /\ EmulatorGoes("lock", "queue")
  /\ agents_mutex_ = Nobody
  /\ agents_mutex_' = "emulator"
  /\ index' = 1
  /\ EmulatorOnly
  /\ UNCHANGED <<fresh, stopping, agents_, any_connections_, to_delete>>

queue_screenshot ==
  /\ index \in DOMAIN agents_
  /\ EmulatorGoes("queue", "active")
  /\ ScreenshotFree(agents_[index])
  /\ fresh' = [fresh EXCEPT ![agents_[index]] = TRUE]
  /\ EmulatorOnly /\ UNCHANGED <<stopping, listVars, index, to_delete>>

TestActive ==
  /\ EmulatorGoes("active", "queue")
  /\ to_delete' = IF active(agents_[index]) THEN to_delete ELSE Append(to_delete, index)
  /\ index' = index + 1
  /\ EmulatorOnly /\ UNCHANGED <<fresh, stopping, listVars>>

QueuedAll ==
  /\ index = Len(agents_) + 1
  /\ EmulatorGoes("queue", "erase")
  /\ EmulatorOnly /\ UNCHANGED <<fresh, stopping, listVars, index, to_delete>>

\* What erase() takes out.  A position past the end is undefined: the build's
\* library destroys the last connection or runs over the end of the vector.
Erased == LET i == Head(to_delete) IN IF i > Len(agents_) THEN Len(agents_) ELSE i

EraseFlags ==
  /\ to_delete # <<>> /\ agents_ # <<>>
  /\ EmulatorGoes("erase", "join")
  /\ Flag(agents_[Erased])
  /\ EmulatorOnly /\ UNCHANGED <<fresh, listVars, index, to_delete>>

EraseJoins ==
  /\ EmulatorGoes("join", "erase")
  /\ Joined(agents_[Erased])
  /\ agents_' = RemoveAt(agents_, Erased)
  /\ to_delete' = Tail(to_delete)
  /\ EmulatorOnly
  /\ UNCHANGED <<fresh, stopping, agents_mutex_, any_connections_, index>>

EraseOverruns ==
  /\ to_delete # <<>> /\ Head(to_delete) > Len(agents_)
  /\ EmulatorGoes("erase", "crashed")
  /\ EmulatorOnly /\ UNCHANGED <<fresh, stopping, listVars, index, to_delete>>

\* Defect: an off-by-one in the test of an empty list.
NoneLeftButOne == Len(agents_) <= 1

NoneLeft == agents_ = <<>>

SendUnlock ==
  /\ to_delete = <<>>
  /\ EmulatorGoes("erase", "idle")
  /\ any_connections_' = IF NoneLeft THEN FALSE ELSE any_connections_
  /\ agents_mutex_' = Nobody
  /\ EmulatorOnly /\ UNCHANGED <<fresh, stopping, agents_, index, to_delete>>

send_screenshot ==
  \/ SendLock \/ queue_screenshot \/ TestActive \/ QueuedAll
  \/ EraseFlags \/ EraseJoins \/ EraseOverruns \/ SendUnlock

Emulator == check_send_screenshot_to_agent \/ send_screenshot

-----------------------------------------------------------------------------
(* ~AgentInterface() on the main thread. *)

MainGoes(from, to) == main = from /\ main' = to

MainOnly == UNCHANGED <<client, connectionVars, server, emulatorVars>>

\* The program quits when the machine has been stopped; shutdown() returns at
\* once when the flag is up.
Quit ==
  /\ MainGoes("running", IF shutdown_ THEN "destroy" ELSE "lock")
  /\ emulator = "idle"
  /\ MainOnly /\ UNCHANGED <<stopping, listVars, shutdown_>>

ClearLock ==
  /\ MainGoes("lock", "clear")
  /\ agents_mutex_ = Nobody
  /\ agents_mutex_' = "main"
  /\ MainOnly /\ UNCHANGED <<stopping, agents_, any_connections_, shutdown_>>

\* Where connections are destroyed: by clear(), under the mutex, and with the
\* members of the object, those that were accepted after it.
Destroying == {"clear", "destroy"}

DestroyFlags ==
  /\ main \in Destroying
  /\ agents_ # <<>> /\ ~stopping[Head(agents_)]
  /\ Flag(Head(agents_))
  /\ MainOnly /\ UNCHANGED <<listVars, shutdown_, main>>

DestroyJoins ==
  /\ main \in Destroying
  /\ agents_ # <<>> /\ Joined(Head(agents_))
  /\ agents_' = Tail(agents_)
  /\ MainOnly
  /\ UNCHANGED <<stopping, agents_mutex_, any_connections_, shutdown_, main>>

Cleared ==
  /\ agents_ = <<>>
  /\ MainGoes("clear", "stop")
  /\ agents_mutex_' = Nobody
  /\ MainOnly /\ UNCHANGED <<stopping, agents_, any_connections_, shutdown_>>

RaiseShutdown ==
  /\ MainGoes("stop", "join server")
  /\ shutdown_' = TRUE
  /\ MainOnly /\ UNCHANGED <<stopping, listVars>>

\* Defect: the server is not waited for.
ServerJoinedEarly == TRUE

ServerJoined == server = "ended"

JoinServer ==
  /\ MainGoes("join server", "destroy")
  /\ ServerJoined
  /\ MainOnly /\ UNCHANGED <<stopping, listVars, shutdown_>>

Destroyed ==
  /\ agents_ = <<>>
  /\ MainGoes("destroy", "done")
  /\ MainOnly /\ UNCHANGED <<stopping, listVars, shutdown_>>

shutdown ==
  \/ ClearLock \/ DestroyFlags \/ DestroyJoins \/ Cleared
  \/ RaiseShutdown \/ JoinServer \/ Destroyed

Main == Quit \/ shutdown

-----------------------------------------------------------------------------
(* The whole interface.  A crash or a failed assertion ends every thread. *)

Alive == emulator # "crashed" /\ \A c \in Clients : connection[c] # "aborted"

Next ==
  /\ Alive
  /\ \/ \E c \in Clients : Client(c) \/ Run(c) \/ Write(c) \/ Receive(c)
     \/ Server
     \/ Emulator
     \/ Main

Spec == Init /\ [][Next]_vars

\* The scheduler runs every thread, the machine goes on, and a client that
\* stopped reading reads again or hangs up, and so does one that has sent the
\* header of a message and not yet the rest.  A blocked write returns when the
\* client reads, however briefly.  Nothing makes clients come or send, or the
\* user quit.
Fairness ==
  /\ \A c \in Clients :
       /\ WF_vars(Alive /\ Run(c))
       /\ SF_vars(Alive /\ Write(c))
       /\ WF_vars(Alive /\ (ReadAgain(c) \/ ReceivePayload(c)))
  /\ WF_vars(Alive /\ ServerWorks)
  /\ WF_vars(Alive /\ Emulator)
  /\ WF_vars(Alive /\ shutdown)

FairSpec == Spec /\ Fairness

-----------------------------------------------------------------------------
(* What makes the interface correct. *)

TypeOK ==
  /\ client \in [Clients -> ClientPlaces]
  /\ connection \in [Clients -> ConnectionPlaces]
  /\ fresh \in [Clients -> BOOLEAN]
  /\ stopping \in [Clients -> BOOLEAN]
  /\ agents_ \in Seq(Clients)
  /\ agents_mutex_ \in {"server", "emulator", "main", Nobody}
  /\ any_connections_ \in BOOLEAN
  /\ shutdown_ \in BOOLEAN
  /\ server \in ServerPlaces
  /\ emulator \in EmulatorPlaces
  /\ index \in Nat \ {0}
  /\ to_delete \in Seq(Nat \ {0})
  /\ main \in MainPlaces

\* send_screenshot() clears any_connections_ while the server may be adding a
\* connection: whenever nobody changes the list, a connection in it is one
\* that any_connections_ tells the emulator of.
AnyConnectionsRight ==
  agents_mutex_ = Nobody /\ agents_ # <<>> => any_connections_

\* A client may be accepted after shutdown() has cleared the list and before
\* the server has seen the flag: when the destructor has returned, no thread
\* of the interface is left, of whatever time its connection is.
ThreadsJoined ==
  main = "done" =>
    /\ server = "ended"
    /\ \A c \in Clients : connection[c] \in {"none", "ended"}

\* A connection whose client hung up, or whose loop has ended, does not stay
\* in the list as long as the machine runs: its thread finds out, ends, and
\* the emulator erases it.
HangUpsRemoved ==
  \A c \in Clients :
    (c \in ToSet(agents_) /\ (client[c] \in HungUp \/ ~active(c)))
      ~> (c \notin ToSet(agents_) \/ ~Alive \/ main # "running")

\* Three threads wait for each other through two kinds of mutexes and three
\* joins, and the thread of a connection for its client, once it has read a
\* header without looking at its flag: a screenshot that is being sent is sent,
\* and the destructor, called when the server has started, returns.
CallsReturn ==
  /\ emulator = "lock" ~> (emulator = "idle" \/ ~Alive)
  /\ (main = "lock" /\ server # "start") ~> (main = "done" \/ ~Alive)

\* "when active is false, the run loop has been exited and the agent can be
\* destroyed" (agent_interface.hpp:76): send_screenshot() destroys no other.
ErasesEndedOnly ==
  [][emulator = "erase" => \A c \in Clients :
       stopping'[c] /\ ~stopping[c] => ~active(c)]_vars
=============================================================================
