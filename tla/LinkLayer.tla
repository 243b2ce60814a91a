----------------------------- MODULE LinkLayer ------------------------------
(***************************************************************************)
(* One LinkLayer object and the three threads that use it: the network     *)
(* layer's thread calls send_frame, the object's own thread loops in       *)
(* send_and_receive, and the main thread calls up and down.  An action is  *)
(* the code between two accesses to what the threads share.                *)
(*                                                                         *)
(* The build does not optimise (CFLAGS has no -O), so the shared fields    *)
(* are read and written where the source says so.  _bufferlck is taken by  *)
(* send_frame only, which only one thread calls: it is never contended and *)
(* has no variable here.                                                   *)
(***************************************************************************)
EXTENDS Integers, Sequences, FiniteSets

CONSTANTS
  Fd,           \* bound: the descriptors create_socket may return, from 0 on
  MaxFrame,     \* bound: the frames the network layer sends, numbered from 1
  MaxCommands,  \* bound: the up and down commands
  MaxInbox,     \* bound: the datagrams queued in a socket
  Closed,       \* the value -1 of s_local
  NoFrame       \* _sbuffer is nullptr

ASSUME LinkAssumption ==
  /\ Fd \subseteq Nat /\ 0 \in Fd
  /\ Closed \notin Fd
  /\ MaxFrame \in Nat /\ MaxCommands \in Nat /\ MaxInbox \in Nat
  /\ NoFrame \notin Nat

VARIABLES
  inbox,         \* the open sockets, and how many datagrams each has queued
  s_local,       \* the interface's socket, or Closed
  _isup,
  _sbuffer,      \* the frame in the slot, or NoFrame
  _sbufferReady,
  frame,         \* the frame the network layer sends, or sends next
  sender,        \* where the network layer's thread is in send_frame
  link,          \* where the object's thread is in send_and_receive
  read_fds,      \* the sets given to select, and what it made of them
  write_fds,
  fdmax,
  mishaps,       \* recv_data: "failed", a recvfrom has; "more", a datagram was not enough
  main,          \* where the main thread is in start-up, up or down
  commands,      \* the commands so far: 0 as long as the interface is as built
  sent,          \* the frames given to the network, in order
  passed         \* what recv_data last passed up

vars == <<inbox, s_local, _isup, _sbuffer, _sbufferReady, frame, sender, link,
          read_fds, write_fds, fdmax, mishaps, main, commands, sent, passed>>

socketVars == <<inbox, s_local, _isup, main, commands>>
slotVars == <<_sbuffer, _sbufferReady, frame, sender, sent>>
selectVars == <<read_fds, write_fds, fdmax>>
loopVars == <<link, selectVars, mishaps, passed>>

IsOpen(fd) == fd \in DOMAIN inbox

InboxOK == \E open \in SUBSET Fd : inbox \in [open -> 0 .. MaxInbox]

LoopOK ==
  /\ read_fds \subseteq Fd \cup {Closed} /\ write_fds \subseteq Fd \cup {Closed}
  /\ fdmax \in Fd \cup {Closed}
  /\ mishaps \subseteq {"failed", "more"}

TypeOK ==
  /\ InboxOK
  /\ LoopOK
  /\ s_local \in Fd \cup {Closed}
  /\ _isup \in BOOLEAN /\ _sbufferReady \in BOOLEAN
  /\ _sbuffer \in (1 .. MaxFrame) \cup {NoFrame}
  /\ frame \in 1 .. MaxFrame + 1
  /\ sender \in {"idle", "test", "wait", "waiting", "fill", "publish",
               "aborted", "crashed"}
  /\ link \in {"top", "setread", "setwrite", "setmax", "select", "read", "recv", "write",
               "sendto", "free", "clear", "signal", "aborted", "crashed"}
  /\ main \in {"starting", "requesting", "idle", "closed", "cleared", "opened",
               "aborted", "crashed"}
  /\ commands \in 0 .. MaxCommands
  /\ sent \in Seq(1 .. MaxFrame)
  /\ passed \in {"nothing", "datagram", "short", "glued"}

Init ==
  /\ inbox = [fd \in {0} |-> 0] /\ s_local = 0 /\ _isup = TRUE
  /\ _sbuffer = NoFrame /\ _sbufferReady = FALSE
  /\ frame = 1 /\ sender = "idle"
  /\ link = "top" /\ mishaps = {}
  /\ read_fds = {} /\ write_fds = {} /\ fdmax = Closed
  /\ main = "starting" /\ commands = 0
  /\ sent = <<>> /\ passed = "nothing"

-----------------------------------------------------------------------------
(* The network layer's thread: send_frame.                                 *)

\* The network layer's queues are filled from RipLayer's constructor on, which sends a
\* request on every interface; the rest comes later.  The frame is dropped without a word
\* if the socket is closed.
SendFrame ==
  /\ sender = "idle" /\ main # "starting" /\ frame <= MaxFrame
  /\ main = "requesting" => frame = 1
  /\ IF s_local = Closed
     THEN frame' = frame + 1 /\ UNCHANGED sender
     ELSE sender' = "test" /\ UNCHANGED frame
  /\ UNCHANGED <<_sbuffer, _sbufferReady, sent, socketVars, loopVars>>

TestSlot ==
  /\ sender = "test"
  /\ sender' = IF _sbufferReady THEN "wait" ELSE "fill"
  /\ UNCHANGED <<_sbuffer, _sbufferReady, frame, sent, socketVars, loopVars>>

\* pthread_cond_wait: from here on a signal is noticed.
Wait ==
  /\ sender = "wait"
  /\ sender' = "waiting"
  /\ UNCHANGED <<_sbuffer, _sbufferReady, frame, sent, socketVars, loopVars>>

\* Mutant: `if` for `while`, the slot is not tested again after a wakeup.
WakeToFill ==
  /\ sender = "waiting"
  /\ sender' = "fill"
  /\ UNCHANGED <<_sbuffer, _sbufferReady, frame, sent, socketVars, loopVars>>

\* POSIX allows pthread_cond_wait to return without a signal.
SpuriousWakeup ==
  /\ sender = "waiting"
  /\ sender' = "test"
  /\ UNCHANGED <<_sbuffer, _sbufferReady, frame, sent, socketVars, loopVars>>

Fill ==
  /\ sender = "fill"
  /\ _sbuffer' = frame
  /\ sender' = "publish"
  /\ UNCHANGED <<_sbufferReady, frame, sent, socketVars, loopVars>>

Publish ==
  /\ sender = "publish"
  /\ _sbufferReady' = TRUE
  /\ sender' = "idle"
  /\ frame' = frame + 1
  /\ UNCHANGED <<_sbuffer, sent, socketVars, loopVars>>

-----------------------------------------------------------------------------
(* The object's thread: send_and_receive, recv_data, send_data.            *)

Top ==
  /\ link = "top" /\ s_local # Closed
  /\ link' = "setread"
  /\ UNCHANGED <<selectVars, mishaps, passed, socketVars, slotVars>>

\* The sets and fdmax are made of s_local as it is by then.  The -1 of a closed socket
\* goes into the sets as the number of a descriptor that is never in select's reach.
SetRead ==
  /\ link = "setread" /\ link' = "setwrite"
  /\ read_fds' = {s_local}
  /\ UNCHANGED <<write_fds, fdmax, mishaps, passed, socketVars, slotVars>>

SetWrite ==
  /\ link = "setwrite" /\ link' = "setmax"
  /\ write_fds' = {s_local}
  /\ UNCHANGED <<read_fds, fdmax, mishaps, passed, socketVars, slotVars>>

SetMax ==
  /\ link = "setmax" /\ link' = "select"
  /\ fdmax' = s_local
  /\ UNCHANGED <<read_fds, write_fds, mishaps, passed, socketVars, slotVars>>

\* select looks at the descriptors up to fdmax.
InReach(fds) == {fd \in fds \cap Fd : fdmax \in Fd /\ fd <= fdmax}

BadDescriptor == \E fd \in InReach(read_fds \cup write_fds) : ~ IsOpen(fd)

\* A datagram socket can always be written.
Readable == {fd \in InReach(read_fds) : inbox[fd] > 0}
Writable == InReach(write_fds)

\* select fails on a descriptor that is closed, and leaves the sets as they were.
SelectFailure ==
  /\ link = "select" /\ link' = "read"
  /\ BadDescriptor
  /\ UNCHANGED <<selectVars, mishaps, passed, socketVars, slotVars>>

\* It has no timeout: with nothing in its reach that can get ready it does not return.
Select ==
  /\ link = "select" /\ link' = "read"
  /\ ~BadDescriptor /\ Readable \cup Writable # {}
  /\ read_fds' = Readable /\ write_fds' = Writable
  /\ UNCHANGED <<fdmax, mishaps, passed, socketVars, slotVars>>

\* FD_ISSET of s_local, which may have changed since the sets were filled.
Read ==
  /\ link = "read"
  /\ mishaps' = {}
  /\ link' = IF s_local \in read_fds THEN "recv" ELSE "write"
  /\ UNCHANGED <<selectVars, passed, socketVars, slotVars>>

\* recvfrom fails and is tried again: totalbytes becomes negative and frame_length is
\* set from what the buffer happens to hold.  One that waited when the socket was closed
\* may fail or wait on.
RecvFailure ==
  /\ link = "recv" /\ ~ IsOpen(s_local)
  /\ mishaps' = mishaps \cup {"failed"}
  /\ UNCHANGED <<link, selectVars, passed, socketVars, slotVars>>

\* The timers' handler is installed without SA_RESTART: on this thread it makes a select
\* or a recvfrom that waits fail.
Interrupt ==
  /\ \/ /\ link = "select" /\ ~BadDescriptor /\ Readable \cup Writable = {}
        /\ link' = "read" /\ UNCHANGED mishaps
     \/ /\ link = "recv" /\ IsOpen(s_local) /\ inbox[s_local] = 0
        /\ mishaps' = mishaps \cup {"failed"} /\ UNCHANGED link
  /\ UNCHANGED <<selectVars, passed, socketVars, slotVars>>

\* recvfrom, which waits for a datagram.
Take ==
  /\ link = "recv" /\ IsOpen(s_local) /\ inbox[s_local] > 0
  /\ inbox' = [inbox EXCEPT ![s_local] = @ - 1]

\* A packet of more than MAXBUFF bytes is cut, so that totalbytes stays below its length,
\* and after a failure it may be below whatever frame_length is: the next datagram is
\* awaited, and will overwrite this one.
RecvMore ==
  /\ Take
  /\ mishaps = {} \/ "failed" \in mishaps
  /\ mishaps' = mishaps \cup {"more"}
  /\ UNCHANGED <<link, selectVars, passed, s_local, _isup, main, commands, slotVars>>

\* What is passed up is the last datagram, taken to be as long as all that came before:
\* with a failure a byte short, with another datagram longer than it is.
Received == IF "more" \in mishaps THEN "glued" ELSE IF mishaps = {} THEN "datagram" ELSE "short"

\* Mutant: what is in the slot is sent only when nothing was received.
RecvOnly ==
  /\ Take /\ main # "starting"
  /\ passed' = Received
  /\ link' = "top"
  /\ UNCHANGED <<selectVars, mishaps, s_local, _isup, main, commands, slotVars>>

RecvDatagram ==
  /\ Take /\ main # "starting"
  /\ passed' = Received
  /\ link' = "write"
  /\ UNCHANGED <<selectVars, mishaps, s_local, _isup, main, commands, slotVars>>

\* free is given a pointer that malloc did not return, one that was never set is
\* followed, or the stack is overwritten: the process ends, and with it its threads and
\* its sockets.
End(how) ==
  /\ link' = how /\ sender' = how /\ main' = how
  /\ inbox' = [fd \in {} |-> 0]
  /\ UNCHANGED <<s_local, _isup, _sbuffer, _sbufferReady, frame, selectVars, mishaps,
                 commands, sent, passed>>

\* The object's thread was started by the constructor: before set_parent, before the
\* interface is among the node's, and before the node has a network layer.
RecvBeforeStarted ==
  /\ link = "recv" /\ IsOpen(s_local) /\ inbox[s_local] > 0
  /\ main = "starting"
  /\ End("crashed")

\* The out-queue's thread is given a datagram before the node has a RIP layer.
TransferBeforeStarted ==
  /\ main = "requesting" /\ passed # "nothing"
  /\ End("crashed")

\* Taken to be longer than it is, a datagram does not fit a rcvmsg.
RecvOverrun ==
  /\ link = "recv" /\ IsOpen(s_local) /\ inbox[s_local] > 0
  /\ "more" \in mishaps
  /\ End("crashed")

Write ==
  /\ link = "write"
  /\ link' = IF _sbufferReady /\ s_local \in write_fds THEN "sendto" ELSE "top"
  /\ UNCHANGED <<selectVars, mishaps, passed, socketVars, slotVars>>

\* The network takes what an open socket is given.
SendTo ==
  /\ link = "sendto" /\ IsOpen(s_local)
  /\ sent' = Append(sent, _sbuffer)
  /\ link' = "free"
  /\ UNCHANGED <<selectVars, mishaps, passed, socketVars,
                 _sbuffer, _sbufferReady, frame, sender>>

\* sendto fails before _sbuffer has moved, yet _sbuffersz is subtracted from it.
SendFailure == link = "sendto" /\ ~ IsOpen(s_local) /\ End("aborted")

\* Mutant: _sbuffer is not moved back before it is freed.
FreeMoved == link = "free" /\ End("aborted")

\* Mutant: _sbufferReady is cleared before the slot is emptied.
FreeReady ==
  /\ link = "free"
  /\ _sbufferReady' = FALSE
  /\ link' = "clear"
  /\ UNCHANGED <<selectVars, mishaps, passed, socketVars,
                 _sbuffer, frame, sender, sent>>

Free ==
  /\ link = "free"
  /\ _sbuffer' = NoFrame
  /\ link' = "clear"
  /\ UNCHANGED <<selectVars, mishaps, passed, socketVars,
                 _sbufferReady, frame, sender, sent>>

\* Mutant: the slot is not declared free.
ClearNothing ==
  /\ link = "clear"
  /\ link' = "signal"
  /\ UNCHANGED <<selectVars, mishaps, passed, socketVars, slotVars>>

Clear ==
  /\ link = "clear"
  /\ _sbufferReady' = FALSE
  /\ link' = "signal"
  /\ UNCHANGED <<selectVars, mishaps, passed, socketVars,
                 _sbuffer, frame, sender, sent>>

\* pthread_cond_signal, without the mutex: lost on a thread that does not wait yet.
Signal ==
  /\ link = "signal"
  /\ sender' = IF sender = "waiting" THEN "test" ELSE sender
  /\ link' = "top"
  /\ UNCHANGED <<selectVars, mishaps, passed, socketVars,
                 _sbuffer, _sbufferReady, frame, sent>>

-----------------------------------------------------------------------------
(* The main thread: start-up, up and down; and the network.                *)

\* The node has a network layer, whose constructor has returned; then a RIP layer.
Started ==
  /\ \/ main = "starting" /\ main' = "requesting"
     \/ main = "requesting" /\ main' = "idle"
  /\ UNCHANGED <<inbox, s_local, _isup, commands, slotVars, loopVars>>

\* The lowest free descriptor becomes a socket bound to the port, which others may be
\* bound to already (SO_REUSEADDR).
CreateSocket(fd) ==
  /\ ~ IsOpen(fd) /\ \A lower \in Fd : lower < fd => IsOpen(lower)
  /\ inbox' = [o \in DOMAIN inbox \cup {fd} |-> IF o = fd THEN 0 ELSE inbox[o]]

\* up: create_socket, then s_local.  A socket that is still open is forgotten.
UpOpen ==
  /\ main = "idle" /\ commands < MaxCommands
  /\ \E fd \in Fd : CreateSocket(fd) /\ s_local' = fd
  /\ commands' = commands + 1
  /\ main' = "opened"
  /\ UNCHANGED <<_isup, slotVars, loopVars>>

UpDone ==
  /\ main = "opened"
  /\ _isup' = TRUE
  /\ main' = "idle"
  /\ UNCHANGED <<inbox, s_local, commands, slotVars, loopVars>>

\* down: the socket is closed (close(-1) does nothing) ...
DownClose ==
  /\ main = "idle" /\ commands < MaxCommands
  /\ inbox' = [o \in DOMAIN inbox \ {s_local} |-> inbox[o]]
  /\ commands' = commands + 1
  /\ main' = "closed"
  /\ UNCHANGED <<s_local, _isup, slotVars, loopVars>>

\* ... before s_local says so ...
DownClear ==
  /\ main = "closed"
  /\ s_local' = Closed
  /\ main' = "cleared"
  /\ UNCHANGED <<inbox, _isup, commands, slotVars, loopVars>>

\* ... and _isup last.
DownDone ==
  /\ main = "cleared"
  /\ _isup' = FALSE
  /\ main' = "idle"
  /\ UNCHANGED <<inbox, s_local, commands, slotVars, loopVars>>

\* A datagram reaches one of the sockets bound to the node's port.
Arrive(fd) ==
  /\ IsOpen(fd) /\ inbox[fd] < MaxInbox
  /\ inbox' = [inbox EXCEPT ![fd] = @ + 1]
  /\ UNCHANGED <<s_local, _isup, main, commands, slotVars, loopVars>>

-----------------------------------------------------------------------------
Sender == SendFrame \/ TestSlot \/ Wait \/ Fill \/ Publish
Loop == \/ Top \/ SetRead \/ SetWrite \/ SetMax \/ Select \/ SelectFailure \/ Read
        \/ RecvMore \/ RecvDatagram \/ RecvBeforeStarted \/ RecvOverrun
        \/ Write \/ SendTo \/ SendFailure \/ Free \/ Clear \/ Signal
Accidents == SpuriousWakeup \/ RecvFailure \/ Interrupt \/ TransferBeforeStarted
Commands == Started \/ UpOpen \/ UpDone \/ DownClose \/ DownClear \/ DownDone

Next == Sender \/ Loop \/ Accidents \/ Commands \/ \E fd \in Fd : Arrive(fd)

Spec == Init /\ [][Next]_vars

\* Threads run; nothing else is promised: no spurious wakeup, no signal on this thread, and
\* not that a recvfrom returns when another thread closes the socket it waits on.
\* totalbytes grows with each datagram and frame_length has 16 bits, so that recv_data
\* does not ask for more for ever.
Fairness == /\ WF_vars(Sender) /\ WF_vars(Loop)
            /\ SF_vars(RecvDatagram \/ RecvBeforeStarted \/ RecvOverrun)

FairSpec == Spec /\ Fairness

\* The neighbour keeps sending, too.
BusySpec == FairSpec /\ \A fd \in Fd : WF_vars(Arrive(fd))

-----------------------------------------------------------------------------
(* Properties.                                                             *)

\* send_frame and send_data never touch the slot at the same time, though only
\* one of them takes _bufferlck: _sbufferReady alone hands the slot over.
SlotExclusive == ~(sender \in {"fill", "publish"} /\ link \in {"sendto", "free", "clear"})

\* The slot as the abstract specification sees it: full from _sbufferReady on
\* until the datagram is with the network.
Pending == _sbufferReady /\ (sent # <<>> => _sbuffer # sent[Len(sent)])

Slot == INSTANCE FrameSlot WITH
          Frame <- 1 .. MaxFrame,
          slot <- IF Pending THEN _sbuffer ELSE NoFrame

\* Whatever the interleaving with up and down, the frames send_frame accepts leave
\* in order and at most once, and none is overwritten in the slot.
AcceptedFramesLeaveInOrder == Slot!Spec

\* Where HandOver's giver is; the frame is put into the slot in two steps.
Giver == CASE sender = "idle" -> "away"
           [] sender = "publish" -> "fill"
           [] sender \in {"aborted", "crashed"} -> "ended"
           [] OTHER -> sender

Hand == INSTANCE HandOver WITH
          full <- _sbufferReady, signalling <- (link = "signal"), giver <- Giver

\* Whatever the commands do, and whether or not they end the process, the slot changes
\* hands as HandOver says: never filled while full, never used after a wakeup untested.
HandedOver == Hand!Spec

\* An interface that no command touches never aborts the process, never passes up what
\* was cut short, always gives select its socket, and waits in recvfrom only for what is to
\* follow a datagram that was not enough.  Another datagram may end the process while the
\* node is being built, when no more than its first request has been sent.
SoundWhileUntouched ==
  commands = 0 =>
    /\ link # "aborted" /\ passed # "short"
    /\ (link = "select" => s_local \in InReach(write_fds))
    /\ (link = "recv" => inbox[s_local] > 0 \/ "more" \in mishaps)
    /\ (link = "crashed" => frame <= 2 \/ "more" \in mishaps)

\* A frame in the slot of an interface that no command touches is sent, unless recv_data
\* waits for ever for what is to follow a datagram, or the process ends.
SlotIsSent ==
  [](commands = 0) /\ []<>("more" \notin mishaps) =>
    (_sbufferReady ~> ~_sbufferReady \/ link = "crashed")

\* Violated: the network layer's thread gets through send_frame while no command
\* touches the interface (README.md: "link layer object has a buffer member that
\* is loaded by network layer.  This triggers the select which makes the sendto be
\* called").  send_data clears and signals without _bufferlck.
FrameIsLoaded ==
  [](commands = 0) => (sender = "wait" ~> sender \in {"idle", "crashed"})

\* Violated: "down" brings an interface down, not the node (Node.hh, help_cmd).
DownIsSurvived == link # "aborted"

\* Violated: once "up" has brought an interface up for good, a frame in its slot is
\* sent (Node.hh, help_cmd), unless the process is gone.
UpInterfaceSends ==
  <>[](_isup /\ main = "idle") => (_sbufferReady ~> ~_sbufferReady \/ link \in {"aborted", "crashed"})

=============================================================================
