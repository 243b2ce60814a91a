-------------------------- MODULE LinkLayerProofs ---------------------------
(***************************************************************************)
(* Proofs about LinkLayer, for any number of frames, commands, datagrams   *)
(* and sockets.                                                            *)
(***************************************************************************)
EXTENDS LinkLayer, SequenceTheorems, TLAPS

-----------------------------------------------------------------------------
(* The actions, by what they do.                                           *)

\* select and what leads to it; recv_data's loop; the ends of the process.
SelectPart == SetRead \/ SetWrite \/ SetMax \/ Select \/ SelectFailure
RecvPart == RecvFailure \/ Interrupt \/ RecvMore \/ RecvDatagram
Ends == RecvBeforeStarted \/ RecvOverrun \/ TransferBeforeStarted \/ SendFailure

LEMMA EndsTheProcess ==
  ASSUME Ends
  PROVE  \E how \in {"aborted", "crashed"} :
           /\ End(how)
           /\ how = "aborted" => ~IsOpen(s_local) /\ link = "sendto"
           /\ how = "crashed" => main \in {"starting", "requesting"} \/ "more" \in mishaps
  BY DEF Ends, RecvBeforeStarted, RecvOverrun, TransferBeforeStarted, SendFailure

-----------------------------------------------------------------------------
(* The slot.                                                               *)

\* Frames that were sent come before f.
SentBefore(f) == \A k \in DOMAIN sent : sent[k] < f

\* _sbufferReady is the lock: false while send_frame fills the slot, true while
\* send_data empties it.  A full slot holds a frame later than all that left.
SlotInv ==
  /\ sent \in Seq(1 .. MaxFrame)
  /\ frame \in Nat /\ frame >= 1 /\ SentBefore(frame)
  /\ sender \notin {"idle", "aborted", "crashed"} => frame <= MaxFrame
  /\ sender \in {"fill", "publish"} => ~_sbufferReady
  /\ sender = "publish" => _sbuffer = frame
  /\ link \in {"sendto", "free", "clear"} => _sbufferReady
  /\ link = "free" => sent # <<>> /\ _sbuffer = sent[Len(sent)]
  /\ link = "clear" => _sbuffer = NoFrame
  /\ _sbufferReady /\ link \notin {"free", "clear", "aborted", "crashed"} =>
       _sbuffer \in 1 .. MaxFrame /\ _sbuffer < frame /\ SentBefore(_sbuffer)

LEMMA InitSlot == Init => SlotInv
  BY DEF Init, SlotInv, SentBefore

LEMMA NextSlot == SlotInv /\ [Next]_vars => SlotInv'
<1> SUFFICES ASSUME SlotInv, [Next]_vars
             PROVE  SlotInv'
  OBVIOUS
<1> USE LinkAssumption DEF SlotInv, SentBefore, socketVars, slotVars, loopVars, selectVars
<1>1. CASE Sender
  <2>1. CASE SendFrame
    BY <2>1 DEF SendFrame
  <2>2. CASE TestSlot
    BY <2>2 DEF TestSlot
  <2>3. CASE Wait
    BY <2>3 DEF Wait
  <2>4. CASE Fill
    BY <2>4 DEF Fill
  <2>5. CASE Publish
    BY <2>5 DEF Publish
  <2> QED
    BY <1>1, <2>1, <2>2, <2>3, <2>4, <2>5 DEF Sender
<1>2. CASE SpuriousWakeup
  BY <1>2 DEF SpuriousWakeup
<1>3. CASE RecvPart \/ Top \/ SelectPart \/ Read \/ Write
  <2>1. UNCHANGED slotVars /\ link' \notin {"free", "clear", "aborted", "crashed"}
        /\ (link' = "sendto" => _sbufferReady)
    BY <1>3 DEF RecvPart, SelectPart, Top, SetRead, SetWrite, SetMax, Select, SelectFailure,
                Interrupt, Read, RecvFailure, RecvMore, RecvDatagram, Take, Write
  <2>2. link \notin {"free", "clear", "aborted", "crashed"}
    BY <1>3 DEF RecvPart, SelectPart, Top, SetRead, SetWrite, SetMax, Select, SelectFailure,
                Interrupt, Read, RecvFailure, RecvMore, RecvDatagram, Take, Write
  <2> QED
    BY <2>1, <2>2
<1>4. CASE SendTo
  <2>1. /\ sent' = Append(sent, _sbuffer) /\ _sbuffer \in 1 .. MaxFrame
        /\ link' = "free"
        /\ UNCHANGED <<_sbuffer, _sbufferReady, frame, sender>>
    BY <1>4 DEF SendTo
  <2>2. /\ sent' \in Seq(1 .. MaxFrame) /\ sent' # <<>> /\ sent'[Len(sent')] = _sbuffer
        /\ DOMAIN sent' = 1 .. Len(sent) + 1
        /\ \A k \in 1 .. Len(sent) : sent'[k] = sent[k]
    BY <2>1, AppendProperties
  <2>3. \A k \in DOMAIN sent' : sent'[k] < frame
    <3> SUFFICES ASSUME NEW k \in DOMAIN sent'
                 PROVE  sent'[k] < frame
      OBVIOUS
    <3>1. CASE k \in 1 .. Len(sent)
      <4>1. k \in DOMAIN sent
        BY <3>1
      <4> QED
        BY <2>2, <3>1, <4>1
    <3>2. CASE k = Len(sent) + 1
      BY <1>4, <2>1, <2>2, <3>2 DEF SendTo
    <3> QED
      BY <2>2, <3>1, <3>2
  <2> QED
    BY <1>4, <2>1, <2>2, <2>3 DEF SendTo
<1>5. CASE Ends
  <2>1. PICK how \in {"aborted", "crashed"} : End(how)
    BY <1>5, EndsTheProcess
  <2> QED
    BY <2>1 DEF End
<1>8. CASE Free \/ Clear \/ Signal
  BY <1>8 DEF Free, Clear, Signal
<1>6. CASE Commands \/ \E fd \in Fd : Arrive(fd)
  BY <1>6 DEF Commands, Started, UpOpen, UpDone, DownClose, DownClear, DownDone, Arrive
<1>7. CASE UNCHANGED vars
  BY <1>7 DEF vars
<1> QED
  BY <1>1, <1>2, <1>3, <1>4, <1>5, <1>6, <1>7, <1>8
     DEF Next, Loop, Accidents, RecvPart, SelectPart, Ends

LEMMA SlotInvHolds == Spec => []SlotInv
  BY InitSlot, NextSlot, PTL DEF Spec

\* send_frame and send_data exclude each other on the slot, without the mutex.
THEOREM SlotExclusiveCorrect == Spec => []SlotExclusive
<1>1. SlotInv => SlotExclusive
  BY DEF SlotInv, SlotExclusive
<1> QED
  BY <1>1, SlotInvHolds, PTL

\* A full slot is pending exactly until its frame is with the network.
LEMMA PendingMeans ==
  ASSUME SlotInv
  PROVE  /\ link = "free" => ~Pending
         /\ _sbufferReady /\ link \notin {"free", "clear", "aborted", "crashed"} => Pending
  BY DEF SlotInv, Pending, SentBefore

\* Every step of the link layer is a step of the abstract slot or leaves it alone.
LEMMA NextRefines ==
  SlotInv /\ SlotInv' /\ [Next]_vars
    => [Slot!Next]_<<IF Pending THEN _sbuffer ELSE NoFrame, sent>>
<1> DEFINE slot == IF Pending THEN _sbuffer ELSE NoFrame
           Same == UNCHANGED <<slot, sent>>
<1> SUFFICES ASSUME SlotInv, SlotInv', [Next]_vars
             PROVE  Slot!Next \/ Same
  OBVIOUS
<1> USE DEF slotVars, socketVars, loopVars, selectVars
<1>1. CASE UNCHANGED <<_sbuffer, _sbufferReady, sent>>
  BY <1>1 DEF Pending
<1>2. CASE Fill
  <2>1. ~_sbufferReady /\ ~_sbufferReady' /\ sent' = sent
    BY <1>2 DEF Fill, SlotInv
  <2> QED
    BY <2>1 DEF Pending
<1>3. CASE Publish
  <2>1. /\ slot = NoFrame /\ sent' = sent
        /\ frame \in 1 .. MaxFrame /\ SentBefore(frame)
        /\ _sbufferReady' /\ _sbuffer' = frame
    BY <1>3, LinkAssumption DEF Publish, SlotInv, Pending
  <2>2. Pending'
    BY <2>1 DEF Pending, SentBefore, SlotInv
  <2>3. Slot!Accept(frame)
    BY <2>1, <2>2 DEF Slot!Accept, SentBefore
  <2> QED
    BY <2>1, <2>3 DEF Slot!Next
<1>4. CASE SendTo
  <2>1. /\ Pending /\ _sbuffer \in 1 .. MaxFrame
        /\ link' = "free" /\ _sbuffer' = _sbuffer /\ sent' = Append(sent, _sbuffer)
    BY <1>4, PendingMeans DEF SendTo, SlotInv
  <2>2. ~Pending'
    BY <2>1 DEF SlotInv, Pending
  <2>3. Slot!Emit
    BY <2>1, <2>2, LinkAssumption DEF Slot!Emit
  <2> QED
    BY <2>3 DEF Slot!Next
<1>5. CASE Free
  <2>1. ~Pending /\ _sbuffer' = NoFrame /\ sent' = sent
    BY <1>5, PendingMeans DEF Free
  <2> QED
    BY <2>1
<1>6. CASE Clear
  <2>1. _sbuffer = NoFrame /\ ~_sbufferReady' /\ sent' = sent
    BY <1>6 DEF Clear, SlotInv
  <2> QED
    BY <2>1 DEF Pending
<1>7. CASE Sender
  BY <1>1, <1>2, <1>3, <1>7 DEF Sender, SendFrame, TestSlot, Wait
<1>8. CASE RecvPart \/ Top \/ SelectPart \/ Read \/ Write \/ Signal
  BY <1>1, <1>8 DEF RecvPart, SelectPart, Top, SetRead, SetWrite, SetMax, Select, SelectFailure,
                    Interrupt, Read, RecvFailure, RecvMore, RecvDatagram, Write, Signal
<1>9. CASE Ends
  BY <1>1, <1>9, EndsTheProcess DEF End
<1>10. CASE SpuriousWakeup \/ Commands \/ (\E fd \in Fd : Arrive(fd)) \/ UNCHANGED vars
  BY <1>1, <1>10 DEF SpuriousWakeup, Commands, Started, UpOpen, UpDone, DownClose, DownClear,
                     DownDone, Arrive, vars
<1> QED
  BY <1>4, <1>5, <1>6, <1>7, <1>8, <1>9, <1>10
     DEF Next, Loop, Accidents, RecvPart, SelectPart, Ends

\* LinkLayer implements FrameSlot: under every interleaving with up and down the
\* frames that send_frame accepts leave in order, each once, none overwritten.
THEOREM Refinement == Spec => AcceptedFramesLeaveInOrder
<1>1. Init => Slot!Init
  BY DEF Init, Slot!Init, Pending
<1> QED
  BY <1>1, NextRefines, SlotInvHolds, PTL
     DEF Spec, AcceptedFramesLeaveInOrder, Slot!Spec

-----------------------------------------------------------------------------
(* Types.                                                                  *)

\* The sockets stay within Fd and their queues within MaxInbox.
LEMMA InboxTyped ==
  ASSUME TypeOK, [Next]_vars
  PROVE  InboxOK'
<1>1. PICK open \in SUBSET Fd : inbox \in [open -> 0 .. MaxInbox]
  BY DEF TypeOK, InboxOK
<1> USE LinkAssumption DEF IsOpen, InboxOK
<1>2. CASE inbox' = inbox
  BY <1>1, <1>2
<1>3. CASE inbox' = [fd \in {} |-> 0]
  <2>1. inbox' \in [{} -> 0 .. MaxInbox]
    BY <1>3
  <2> QED
    BY <2>1
<1>4. ASSUME NEW fd \in Fd, fd \in DOMAIN inbox,
             \/ inbox[fd] < MaxInbox /\ inbox' = [inbox EXCEPT ![fd] = @ + 1]
             \/ inbox[fd] > 0 /\ inbox' = [inbox EXCEPT ![fd] = @ - 1]
      PROVE  InboxOK'
  <2>1. inbox' \in [open -> 0 .. MaxInbox]
    BY <1>1, <1>4
  <2> QED
    BY <2>1
<1>5. CASE UpOpen
  <2>1. PICK fd \in Fd \ DOMAIN inbox :
          inbox' = [o \in DOMAIN inbox \cup {fd} |-> IF o = fd THEN 0 ELSE inbox[o]]
    BY <1>5 DEF UpOpen, CreateSocket
  <2>2. inbox' \in [open \cup {fd} -> 0 .. MaxInbox]
    BY <1>1, <2>1
  <2> QED
    BY <2>2
<1>6. CASE DownClose
  <2>1. inbox' \in [open \ {s_local} -> 0 .. MaxInbox]
    BY <1>1, <1>6 DEF DownClose
  <2> QED
    BY <2>1
<1>7. CASE RecvMore \/ RecvDatagram
  <2>1. Take
    BY <1>7 DEF RecvMore, RecvDatagram
  <2>2. s_local \in Fd
    BY <1>1, <2>1 DEF Take
  <2> QED
    BY <1>4, <2>1, <2>2 DEF Take
<1>8. CASE \/ SelectPart \/ RecvFailure \/ Interrupt \/ Top \/ Read
           \/ Write \/ SendTo \/ Free \/ Clear \/ Signal
  BY <1>2, <1>8
     DEF SelectPart, Top, SetRead, SetWrite, SetMax, Select, SelectFailure, Interrupt, Read,
         RecvFailure, Write, SendTo, Free, Clear, Signal, socketVars
<1>13. CASE Ends
  BY <1>3, <1>13, EndsTheProcess DEF End
<1>9. CASE Sender \/ SpuriousWakeup
  BY <1>2, <1>9 DEF Sender, SendFrame, TestSlot, Wait, Fill, Publish, SpuriousWakeup,
                    socketVars
<1>10. CASE Commands
  BY <1>2, <1>5, <1>6, <1>10 DEF Commands, Started, UpDone, DownClear, DownDone
<1>11. ASSUME NEW fd \in Fd, Arrive(fd)
       PROVE  InboxOK'
  BY <1>4, <1>11 DEF Arrive
<1>12. CASE UNCHANGED vars
  BY <1>2, <1>12 DEF vars
<1> QED
  BY <1>7, <1>8, <1>9, <1>10, <1>11, <1>12, <1>13
     DEF Next, Loop, Accidents, RecvPart, SelectPart, Ends

\* So do select's sets and what recv_data notes.
LEMMA LoopTyped ==
  ASSUME TypeOK, [Next]_vars
  PROVE  LoopOK'
<1>1. LoopOK /\ s_local \in Fd \cup {Closed}
  BY DEF TypeOK
<1> USE <1>1 DEF LoopOK
<1>2. CASE UNCHANGED <<selectVars, mishaps>>
  BY <1>2 DEF selectVars
<1>3. CASE SetRead \/ SetWrite \/ SetMax \/ Select \/ SelectFailure
  BY <1>3 DEF SetRead, SetWrite, SetMax, Select, SelectFailure, Readable, Writable, InReach,
              selectVars
<1>4. CASE Read \/ RecvFailure \/ Interrupt \/ RecvMore
  BY <1>4 DEF Read, RecvFailure, Interrupt, RecvMore, selectVars
<1>5. CASE Sender \/ SpuriousWakeup
  BY <1>2, <1>5 DEF Sender, SendFrame, TestSlot, Wait, Fill, Publish, SpuriousWakeup, loopVars
<1>6. CASE Top \/ RecvDatagram \/ Write \/ SendTo \/ Free \/ Clear \/ Signal
  BY <1>2, <1>6 DEF Top, RecvDatagram, Write, SendTo, Free, Clear, Signal
<1>7. CASE Ends
  BY <1>2, <1>7, EndsTheProcess DEF End
<1>8. CASE Commands \/ (\E fd \in Fd : Arrive(fd)) \/ UNCHANGED vars
  BY <1>2, <1>8 DEF Commands, Started, UpOpen, UpDone, DownClose, DownClear, DownDone,
                    Arrive, loopVars, selectVars, vars
<1> QED
  BY <1>3, <1>4, <1>5, <1>6, <1>7, <1>8 DEF Next, Loop, Accidents, Ends

LEMMA NextTyped == TypeOK /\ SlotInv /\ SlotInv' /\ [Next]_vars => TypeOK'
<1> SUFFICES ASSUME TypeOK, SlotInv, SlotInv', [Next]_vars
             PROVE  TypeOK'
  OBVIOUS
<1>1. InboxOK'
  BY InboxTyped
<1>0. LoopOK'
  BY LoopTyped
<1>2. sent' \in Seq(1 .. MaxFrame)
  BY DEF SlotInv
<1>3. sender \in {"fill", "publish"} => frame \in 1 .. MaxFrame
  BY LinkAssumption DEF SlotInv
<1> HIDE DEF SlotInv
<1> USE <1>0, <1>1, <1>2, LinkAssumption DEF TypeOK, socketVars, slotVars, loopVars, selectVars
<1>4. CASE Sender \/ SpuriousWakeup
  <2>1. CASE SendFrame
    BY <1>3, <2>1 DEF SendFrame
  <2>2. CASE TestSlot
    BY <1>3, <2>2 DEF TestSlot
  <2>3. CASE Wait
    BY <1>3, <2>3 DEF Wait
  <2>4. CASE Fill
    BY <1>3, <2>4 DEF Fill
  <2>5. CASE Publish
    BY <1>3, <2>5 DEF Publish
  <2>6. CASE SpuriousWakeup
    BY <1>3, <2>6 DEF SpuriousWakeup
  <2> QED
    BY <1>4, <2>1, <2>2, <2>3, <2>4, <2>5, <2>6 DEF Sender
<1>5. CASE Top \/ SelectPart \/ Read
  <2>1. CASE Top \/ SetRead \/ SetWrite \/ SetMax
    BY <2>1 DEF Top, SetRead, SetWrite, SetMax
  <2>2. CASE Select \/ SelectFailure
    BY <2>2 DEF Select, SelectFailure
  <2>3. CASE Read
    <3>1. link' \in {"recv", "write"}
      BY <2>3 DEF Read
    <3> QED
      BY <2>3, <3>1 DEF Read
  <2> QED
    BY <1>5, <2>1, <2>2, <2>3 DEF SelectPart
<1>8. CASE RecvPart
  <2>1. CASE RecvFailure \/ Interrupt \/ RecvMore
    <3>1. link' \in {"recv", "read"}
      BY <2>1 DEF RecvFailure, Interrupt, RecvMore, Take
    <3> QED
      BY <2>1, <3>1 DEF RecvFailure, Interrupt, RecvMore
  <2>2. CASE RecvDatagram
    <3>1. passed' \in {"datagram", "short", "glued"}
      BY <2>2 DEF RecvDatagram, Received
    <3> QED
      BY <2>2, <3>1 DEF RecvDatagram
  <2> QED
    BY <1>8, <2>1, <2>2 DEF RecvPart
<1>9. CASE Write \/ SendTo \/ Free \/ Clear \/ Signal
  <2>1. CASE Write
    BY <2>1 DEF Write
  <2>2. CASE SendTo \/ Free
    BY <2>2 DEF SendTo, Free
  <2>3. CASE Clear
    <3>1. _sbufferReady' \in BOOLEAN
      BY <2>3 DEF Clear
    <3> QED
      BY <2>3, <3>1 DEF Clear
  <2>4. CASE Signal
    BY <2>4 DEF Signal
  <2> QED
    BY <1>9, <2>1, <2>2, <2>3, <2>4
<1>10. CASE Ends
  <2>1. PICK how \in {"aborted", "crashed"} : End(how)
    BY <1>10, EndsTheProcess
  <2> QED
    BY <2>1 DEF End
<1>6. CASE Commands
  <2>1. CASE Started
    <3>1. main' \in {"requesting", "idle"}
      BY <2>1 DEF Started
    <3> QED
      BY <2>1, <3>1 DEF Started
  <2>2. CASE UpOpen
    BY <2>2 DEF UpOpen, CreateSocket
  <2>3. CASE UpDone
    BY <2>3 DEF UpDone
  <2>4. CASE DownClose
    BY <2>4 DEF DownClose
  <2>5. CASE DownClear
    BY <2>5 DEF DownClear
  <2>6. CASE DownDone
    <3>1. _isup' \in BOOLEAN
      BY <2>6 DEF DownDone
    <3> QED
      BY <2>6, <3>1 DEF DownDone
  <2> QED
    BY <1>6, <2>1, <2>2, <2>3, <2>4, <2>5, <2>6 DEF Commands
<1>7. CASE \E fd \in Fd : Arrive(fd)
  BY <1>7 DEF Arrive
<1>11. CASE UNCHANGED vars
  BY <1>11 DEF vars
<1> QED
  BY <1>4, <1>5, <1>6, <1>7, <1>8, <1>9, <1>10, <1>11
     DEF Next, Loop, Accidents, RecvPart, SelectPart, Ends

\* The link layer's variables keep their types: what is in the slot is a frame, and
\* sockets and datagrams stay within their bounds.
THEOREM TypeCorrect == Spec => []TypeOK
<1>1. Init => TypeOK
  <2> SUFFICES ASSUME Init PROVE TypeOK
    OBVIOUS
  <2>1. InboxOK
    <3>1. inbox \in [{0} -> 0 .. MaxInbox] /\ {0} \in SUBSET Fd
      BY LinkAssumption DEF Init
    <3> QED
      BY <3>1 DEF InboxOK
  <2>2. sent \in Seq(1 .. MaxFrame)
    BY EmptySeq DEF Init
  <2>3. LoopOK
    BY DEF Init, LoopOK
  <2>4. /\ s_local \in Fd \cup {Closed} /\ _isup \in BOOLEAN /\ _sbufferReady \in BOOLEAN
        /\ frame \in 1 .. MaxFrame + 1 /\ commands \in 0 .. MaxCommands
    BY LinkAssumption DEF Init
  <2> QED
    BY <2>1, <2>2, <2>3, <2>4 DEF Init, TypeOK
<1> QED
  BY <1>1, NextTyped, SlotInvHolds, PTL DEF Spec

-----------------------------------------------------------------------------
(* An interface that no command has touched.                               *)

\* The one socket stays open, so select, recvfrom and sendto are always given it; and
\* before the node is complete no more is sent than a request.
UntouchedInv ==
  /\ commands \in Nat
  /\ main = "starting" => frame = 1 /\ sender = "idle"
  /\ main = "requesting" => frame = 1 \/ (frame = 2 /\ sender = "idle")
  /\ link = "crashed" <=> main = "crashed"
  /\ link = "crashed" => sender = "crashed" /\ (frame <= 2 \/ "more" \in mishaps)
  /\ commands = 0 => link # "aborted" /\ passed # "short"
  /\ commands = 0 /\ link # "crashed" =>
       /\ main \in {"starting", "requesting", "idle"}
       /\ s_local \in Fd /\ s_local \in DOMAIN inbox
       /\ inbox \in [DOMAIN inbox -> Nat]
       /\ link \in {"setwrite", "setmax", "select"} => read_fds = {s_local}
       /\ link \in {"setmax", "select"} => write_fds = {s_local}
       /\ link = "select" => fdmax = s_local
       /\ link = "read" => (s_local \in read_fds => inbox[s_local] > 0)
       /\ link = "recv" => inbox[s_local] > 0 \/ "more" \in mishaps
       /\ mishaps = {} \/ "more" \in mishaps

LEMMA InitUntouched == 0 \in Fd /\ Init => UntouchedInv
  BY DEF Init, UntouchedInv

\* An open socket is in select's reach when fdmax is its number.
LEMMA UntouchedReach ==
  ASSUME UntouchedInv, commands = 0, link = "select"
  PROVE  /\ InReach(read_fds) = {s_local} /\ InReach(write_fds) = {s_local}
         /\ ~BadDescriptor
  BY LinkAssumption DEF UntouchedInv, InReach, BadDescriptor, IsOpen

LEMMA NextUntouched == UntouchedInv /\ [Next]_vars => UntouchedInv'
<1> SUFFICES ASSUME UntouchedInv, [Next]_vars
             PROVE  UntouchedInv'
  OBVIOUS
<1> USE DEF UntouchedInv, socketVars, slotVars, loopVars, selectVars
<1>1. CASE Sender \/ SpuriousWakeup
  <2>1. CASE SendFrame
    <3>1. link # "crashed" /\ main \notin {"starting", "crashed"}
      BY <2>1 DEF SendFrame
    <3>2. main = "requesting" => frame' = 1 \/ (frame' = 2 /\ sender' = "idle")
      BY <2>1 DEF SendFrame
    <3>3. UNCHANGED <<inbox, s_local, main, commands, link, read_fds, write_fds, fdmax,
                      mishaps, passed>>
      BY <2>1 DEF SendFrame
    <3> QED
      BY <3>1, <3>2, <3>3
  <2>2. CASE TestSlot \/ Wait \/ Fill \/ SpuriousWakeup
    BY <2>2 DEF TestSlot, Wait, Fill, SpuriousWakeup
  <2>3. CASE Publish
    BY <2>3 DEF Publish
  <2> QED
    BY <1>1, <2>1, <2>2, <2>3 DEF Sender
<1>2. CASE Top \/ SetRead \/ SetWrite \/ SetMax \/ Read \/ Write
  BY <1>2 DEF Top, SetRead, SetWrite, SetMax, Read, Write, IsOpen
<1>3. CASE Select \/ SelectFailure
  <2>1. commands = 0 => link' = "read" /\ (s_local \in read_fds' => inbox[s_local] > 0)
    BY <1>3, UntouchedReach DEF Select, SelectFailure, Readable
  <2> QED
    BY <1>3, <2>1 DEF Select, SelectFailure
<1>4. CASE RecvFailure \/ Interrupt
  <2>1. commands = 0 => link = "recv" /\ inbox[s_local] = 0 /\ IsOpen(s_local)
    BY <1>4, UntouchedReach DEF RecvFailure, Interrupt, IsOpen, Writable
  <2> QED
    BY <1>4, <2>1 DEF RecvFailure, Interrupt, IsOpen
<1>5. CASE RecvMore
  BY <1>5 DEF RecvMore, Take, IsOpen
<1>6. CASE RecvDatagram
  BY <1>6 DEF RecvDatagram, Take, Received, IsOpen
<1>7. CASE SendTo \/ Free \/ Clear \/ Signal
  BY <1>7 DEF SendTo, Free, Clear, Signal, IsOpen
<1>8. CASE Ends
  <2>1. PICK how \in {"aborted", "crashed"} :
          /\ End(how)
          /\ how = "aborted" => ~IsOpen(s_local) /\ link = "sendto"
          /\ how = "crashed" => main \in {"starting", "requesting"} \/ "more" \in mishaps
    BY <1>8, EndsTheProcess
  <2> QED
    BY <2>1 DEF End, IsOpen
<1>9. CASE Commands
  BY <1>9 DEF Commands, Started, UpOpen, UpDone, DownClose, DownClear, DownDone
<1>10. ASSUME NEW fd \in Fd, Arrive(fd)
       PROVE  UntouchedInv'
  BY <1>10 DEF Arrive, IsOpen
<1>11. CASE UNCHANGED vars
  BY <1>11 DEF vars
<1> QED
  BY <1>1, <1>2, <1>3, <1>4, <1>5, <1>6, <1>7, <1>8, <1>9, <1>10, <1>11
     DEF Next, Loop, Accidents, Ends

\* Without up and down the link layer is sound: it neither aborts, nor passes up a
\* datagram cut short, nor leaves select without its socket, and it waits in recvfrom only
\* when a datagram was not enough; and where a datagram ends the process because the node
\* was not complete, no more than its first request has been sent.
THEOREM SoundWhileUntouchedCorrect == Spec => []SoundWhileUntouched
<1>1. UntouchedInv => SoundWhileUntouched
  BY UntouchedReach DEF UntouchedInv, SoundWhileUntouched
<1>2. 0 \in Fd
  BY LinkAssumption
<1> QED
  BY <1>1, <1>2, InitUntouched, NextUntouched, PTL DEF Spec

-----------------------------------------------------------------------------
(* The hand-over.                                                          *)

\* Every step of the link layer is a step of the hand-over or leaves it alone: the slot
\* is free while send_frame fills it, and full when send_data clears it.
LEMMA NextHandsOver == TypeOK /\ SlotInv /\ [Next]_vars => [Hand!Next]_(Hand!vars)
<1> SUFFICES ASSUME TypeOK, SlotInv, [Next]_vars
             PROVE  Hand!Next \/ UNCHANGED Hand!vars
  OBVIOUS
<1>1. _sbufferReady \in BOOLEAN
  BY DEF TypeOK
<1>2. CASE UNCHANGED <<sender, _sbufferReady, link>>
  BY <1>2 DEF Hand!vars, Giver
<1> USE DEF slotVars, socketVars, loopVars, selectVars
<1>3. CASE SendFrame \/ TestSlot \/ Wait \/ SpuriousWakeup \/ Fill
  BY <1>2, <1>3
     DEF SendFrame, TestSlot, Wait, SpuriousWakeup, Fill, Giver, Hand!vars,
         Hand!Next, Hand!Move, Hand!Call, Hand!Test, Hand!Wait, Hand!Wake
<1>4. CASE Publish
  <2>1. Hand!Fill
    BY <1>4 DEF Publish, SlotInv, Giver, Hand!Move, Hand!Fill
  <2> QED
    BY <2>1 DEF Hand!Next
<1>5. CASE Clear
  <2>1. Hand!Empty
    BY <1>1, <1>5 DEF Clear, SlotInv, Giver, Hand!Empty
  <2> QED
    BY <2>1 DEF Hand!Next
<1>6. CASE Signal
  <2>1. Hand!Signal
    BY <1>6 DEF Signal, Giver, Hand!Signal
  <2> QED
    BY <2>1 DEF Hand!Next
<1>7. CASE Ends
  <2>1. Hand!End
    BY <1>7, EndsTheProcess DEF End, Giver, Hand!End
  <2> QED
    BY <2>1 DEF Hand!Next
<1>8. CASE RecvPart \/ Top \/ SelectPart \/ Read \/ Write \/ SendTo \/ Free
  <2>1. /\ UNCHANGED <<sender, _sbufferReady>>
        /\ link # "signal" /\ link' # "signal"
    BY <1>8 DEF RecvPart, SelectPart, Top, SetRead, SetWrite, SetMax, Select, SelectFailure,
                Interrupt, Read, RecvFailure, RecvMore, RecvDatagram, Take, Write, SendTo, Free
  <2> QED
    BY <2>1 DEF Giver, Hand!vars
<1>9. CASE Commands \/ (\E fd \in Fd : Arrive(fd)) \/ UNCHANGED vars
  BY <1>2, <1>9 DEF Commands, Started, UpOpen, UpDone, DownClose, DownClear, DownDone,
                    Arrive, vars
<1> QED
  BY <1>3, <1>4, <1>5, <1>6, <1>7, <1>8, <1>9
     DEF Next, Sender, Loop, Accidents, RecvPart, SelectPart, Ends

\* LinkLayer implements HandOver: with up and down in any order, and up to the end of
\* the process, the flag and the signal alone hand the slot over.
THEOREM HandedOverCorrect == Spec => HandedOver
<1>1. Init => Hand!Init
  BY DEF Init, Giver, Hand!Init
<1> QED
  BY <1>1, NextHandsOver, SlotInvHolds, TypeCorrect, PTL DEF Spec, HandedOver, Hand!Spec

=============================================================================
