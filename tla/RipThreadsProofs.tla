-------------------------- MODULE RipThreadsProofs --------------------------
(***************************************************************************)
(* Proofs about RipThreads, for any interfaces, addresses, costs and       *)
(* delays.                                                                 *)
(***************************************************************************)
EXTENDS RipThreads, LeastElement

-----------------------------------------------------------------------------
(* The next key, and ages.                                                 *)

LEMMA FromIsFirst ==
  ASSUME DOMAIN rtable \subseteq Nat, NEW k \in Nat
  PROVE  \/ From(k) = End /\ \A j \in DOMAIN rtable : ~(j >= k)
         \/ /\ From(k) \in DOMAIN rtable /\ From(k) >= k
            /\ \A j \in DOMAIN rtable : j >= k => From(k) <= j
<1> DEFINE later == {j \in DOMAIN rtable : j >= k}
<1>1. CASE later = {}
  BY <1>1 DEF From
<1>2. CASE later # {}
  <2>1. \E x \in later : \A y \in later : x <= y
    BY <1>2, LeastNatural
  <2>2. Min(later) \in later /\ \A y \in later : Min(later) <= y
    BY <2>1 DEF Min
  <2> QED
    BY <1>2, <2>2 DEF From
<1> QED
  BY <1>1, <1>2

LEMMA AgeGrows ==
  ASSUME NEW a \in 0 .. MaxAge
  PROVE  Min({a + 1, MaxAge}) = IF a < MaxAge THEN a + 1 ELSE MaxAge
<1> DEFINE m == IF a < MaxAge THEN a + 1 ELSE MaxAge
           S == {a + 1, MaxAge}
<1>1. MaxAge \in Nat
  BY ThreadsAssumption DEF MaxAge
<1>2. m \in S /\ \A y \in S : m <= y
  BY <1>1
<1>3. \A x \in S : (\A y \in S : x <= y) => x = m
  BY <1>1
<1> QED
  BY <1>2, <1>3 DEF Min

-----------------------------------------------------------------------------
(* Types.                                                                  *)

\* What out has in hand while it is at a message, and at an entry of it; and main while
\* it is at a command.
HandInv ==
  /\ pc["out"] \in {"isup", "entries", "find", "insert", "copy", "store", "writing"}
       => msg.ifc \in Ifc
  /\ pc["out"] \in {"find", "insert", "copy", "store", "writing"}
       => msg.address \in Remote
  /\ pc["main"] \in {"remove", "erase", "erasing", "add", "writing"} => ifc \in Ifc

LEMMA Constants ==
  /\ MaxAge \in Nat /\ MaxCost \in Nat /\ MaxCost > 0 /\ MaxWalk \in Nat
  /\ Key \subseteq Nat /\ 0 \notin Key /\ End \notin Nat
  /\ \A i \in Ifc : Own(i) \in Entry
  /\ Phantom \in Entry
  BY ThreadsAssumption DEF MaxAge, Key, End, Own, Phantom, Entry

LEMMA FromTyped ==
  ASSUME TypeOK, NEW k \in Nat
  PROVE  From(k) \in Key \cup {End}
  BY FromIsFirst, Constants DEF TypeOK

LEMMA AfterTyped ==
  ASSUME TypeOK, NEW k \in Key
  PROVE  After(k) \in Key \cup {End}
<1>1. k + 1 \in Nat
  BY Constants
<1> QED
  BY <1>1, FromTyped DEF After

\* A key that is written gets an entry, and all others keep theirs.
LEMMA WithTyped ==
  ASSUME TypeOK, NEW k \in Key, NEW e \in Entry, rtable' = With(k, e)
  PROVE  DOMAIN rtable' \subseteq Key /\ \A j \in DOMAIN rtable' : rtable'[j] \in Entry
  BY DEF TypeOK, With

LEMMA WithoutTyped ==
  ASSUME TypeOK, NEW k, rtable' = Without(k)
  PROVE  DOMAIN rtable' \subseteq Key /\ \A j \in DOMAIN rtable' : rtable'[j] \in Entry
  BY DEF TypeOK, Without

LEMMA TickTyped ==
  ASSUME TypeOK, Tick
  PROVE  DOMAIN rtable' \subseteq Key /\ \A j \in DOMAIN rtable' : rtable'[j] \in Entry
<1> SUFFICES ASSUME NEW j \in DOMAIN rtable
             PROVE  [rtable[j] EXCEPT !.age = Min({@ + 1, MaxAge})] \in Entry
  BY DEF Tick, TypeOK
<1>1. rtable[j] \in Entry
  BY DEF TypeOK
<1>2. Min({rtable[j].age + 1, MaxAge}) \in 0 .. MaxAge
  BY <1>1, AgeGrows, Constants DEF Entry
<1> QED
  BY <1>1, <1>2 DEF Entry

LEMMA InitTyped == Init => TypeOK /\ HandInv
  BY Constants DEF Init, TypeOK, HandInv, Key, Thread, Place, NoMsg, FromIfc, Messages

LEMMA NextTyped == TypeOK /\ HandInv /\ [Next]_vars => TypeOK' /\ HandInv'
<1> SUFFICES ASSUME TypeOK, HandInv, [Next]_vars
             PROVE  TypeOK' /\ HandInv'
  OBVIOUS
<1> USE Constants DEF TypeOK, HandInv, Thread, Place, Goto
<1>1. ASSUME NEW i \in Ifc, Receive(i)
      PROVE  TypeOK' /\ HandInv'
  <2>1. msg' \in Messages /\ msg'.ifc = i
    BY <1>1 DEF Receive, FromIfc, Messages
  <2> QED
    BY <1>1, <2>1 DEF Receive
<1>2. ASSUME NEW e \in Learnable, PickEntry(e)
      PROVE  TypeOK' /\ HandInv'
  <2>1. msg' \in Messages /\ msg'.ifc = msg.ifc /\ msg'.address \in Remote
    BY <1>2 DEF PickEntry, Learnable, Messages
  <2> QED
    BY <1>2, <2>1 DEF PickEntry
<1>3. CASE EndOfMessage \/ Admit
  <2>1. msg' \in Messages
    BY <1>3 DEF EndOfMessage, Admit, NoMsg, Messages
  <2> QED
    BY <1>3, <2>1 DEF EndOfMessage, Admit
<1>4. CASE Find
  BY <1>4 DEF Find
<1>5. CASE Copy
  <2>1. \/ msg' = msg /\ pc' = [pc EXCEPT !["out"] = "store"]
        \/ msg' = FromIfc(msg.ifc) /\ pc' = [pc EXCEPT !["out"] = "entries"]
    BY <1>5, Zenon DEF Copy, NextEntry, Goto
  <2>2. msg' \in Messages /\ msg'.ifc = msg.ifc
    BY <1>5, <2>1 DEF Copy, FromIfc, Messages
  <2>3. DOMAIN rtable' \subseteq Key /\ \A j \in DOMAIN rtable' : rtable'[j] \in Entry
    BY <1>5, WithTyped DEF Copy, Key
  <2> QED
    BY <1>5, <2>1, <2>2, <2>3 DEF Copy
<1>6. CASE Write
  <2>1. msg' = FromIfc(msg.ifc) /\ msg.ifc \in Ifc /\ msg.cost \in 0 .. MaxCost - 1
    BY <1>6 DEF Write, NextEntry, Messages, NoMsg, FromIfc
  <2>2. msg' \in Messages /\ msg'.ifc = msg.ifc
    BY <2>1 DEF FromIfc, Messages
  <2>3. [cost |-> msg.cost + 1, nextHop |-> msg.ifc, age |-> 0] \in Entry
    BY <2>1 DEF Entry
  <2>4. DOMAIN rtable' \subseteq Key /\ \A j \in DOMAIN rtable' : rtable'[j] \in Entry
    BY <1>6, <2>3, WithTyped DEF Write, Key
  <2> QED
    BY <1>6, <2>2, <2>4 DEF Write
<1>7. ASSUME NEW t \in Thread, ReadNext(t)
      PROVE  TypeOK' /\ HandInv'
  <2>1. CASE itr[t] = End
    BY <1>7, <2>1 DEF ReadNext, Stop
  <2>2. CASE itr[t] # End
    <3>1. After(itr[t]) \in Key \cup {End}
      BY <2>2, AfterTyped
    <3>2. /\ itr' = [itr EXCEPT ![t] = After(itr[t])]
          /\ next' = [next EXCEPT ![t] = After(itr[t])]
          /\ UNCHANGED <<rtable, up, pc, dangling, rlock, msg, ifc, snapAge>>
      BY <1>7, <2>2, Zenon DEF ReadNext, MoveTo
    <3> QED
      BY <3>1, <3>2
  <2> QED
    BY <2>1, <2>2
<1>8. ASSUME NEW t \in Thread, Read(t)
      PROVE  TypeOK' /\ HandInv'
  <2>1. From(0) \in Key \cup {End}
    BY FromTyped
  <2> QED
    BY <1>8, <2>1 DEF Read, Walk, MoveTo
<1>9. CASE RefreshNext
  <2>1. CASE itr["rip"] = End
    <3>1. /\ pc' = [pc EXCEPT !["rip"] = "idle"] /\ snapAge' = 0
          /\ UNCHANGED <<rtable, up, itr, next, dangling, rlock, msg, ifc>>
      BY <1>9, <2>1, Zenon DEF RefreshNext, Stop, Goto
    <3> QED
      BY <3>1
  <2>2. CASE itr["rip"] # End
    <3>1. After(itr["rip"]) \in Key \cup {End}
      BY <2>2, AfterTyped
    <3>2. /\ pc' = [pc EXCEPT !["rip"] = "erase"] \/ pc' = pc
          /\ itr' = [itr EXCEPT !["rip"] = After(itr["rip"])] \/ itr' = itr
          /\ next' = [next EXCEPT !["rip"] = After(itr["rip"])]
          /\ UNCHANGED <<rtable, up, dangling, rlock, msg, ifc, snapAge>>
      BY <1>9, <2>2, Zenon DEF RefreshNext, Visit, MoveTo, Goto
    <3>3. /\ itr' \in [Thread -> Key \cup {End}]
          /\ next' \in [Thread -> Key \cup {End}]
      BY <3>1, <3>2
    <3>4. /\ pc' \in [Thread -> Place]
          /\ pc'["out"] = pc["out"]
          /\ pc'["main"] \in {"remove", "erase", "erasing", "add", "writing"} =>
               pc["main"] \in {"remove", "erase", "erasing", "add", "writing"}
      BY <1>9, <3>2 DEF RefreshNext
    <3> QED
      BY <3>2, <3>3, <3>4
  <2> QED
    BY <2>1, <2>2
<1>10. CASE RemoveNext
  <2>1. CASE itr["main"] = End
    <3>1. From(0) \in Key \cup {End}
      BY FromTyped
    <3>2. /\ pc' = [pc EXCEPT !["main"] = "read"]
          /\ itr' = [itr EXCEPT !["main"] = From(0)]
          /\ next' = [next EXCEPT !["main"] = From(0)]
          /\ dangling' = dangling \ {"main"}
          /\ UNCHANGED <<rtable, up, rlock, msg, ifc, snapAge>>
      BY <1>10, <2>1, Zenon DEF RemoveNext, Walk, MoveTo, Goto
    <3> QED
      BY <3>1, <3>2
  <2>2. CASE itr["main"] # End
    <3>1. After(itr["main"]) \in Key \cup {End}
      BY <2>2, AfterTyped
    <3>2. /\ pc' = [pc EXCEPT !["main"] = "erase"] \/ pc' = pc
          /\ itr' = [itr EXCEPT !["main"] = After(itr["main"])] \/ itr' = itr
          /\ next' = [next EXCEPT !["main"] = After(itr["main"])]
          /\ UNCHANGED <<rtable, up, dangling, rlock, msg, ifc, snapAge>>
      BY <1>10, <2>2, Zenon DEF RemoveNext, Visit, MoveTo, Goto
    <3>3. /\ itr' \in [Thread -> Key \cup {End}]
          /\ next' \in [Thread -> Key \cup {End}]
      BY <3>1, <3>2
    <3>4. /\ pc' \in [Thread -> Place]
          /\ pc'["out"] = pc["out"]
          /\ pc'["main"] \in {"remove", "erase", "erasing", "add", "writing"} =>
               pc["main"] \in {"remove", "erase", "erasing", "add", "writing"}
      BY <1>10, <3>2 DEF RemoveNext
    <3> QED
      BY <3>2, <3>3, <3>4
  <2> QED
    BY <2>1, <2>2
<1>11. ASSUME NEW t \in {"rip", "main"}, Erase(t)
       PROVE  TypeOK' /\ HandInv'
  <2>1. DOMAIN rtable' \subseteq Key /\ \A j \in DOMAIN rtable' : rtable'[j] \in Entry
    BY <1>11, WithoutTyped DEF Erase
  <2> QED
    BY <1>11, <2>1 DEF Erase, MoveTo
<1>12. ASSUME NEW t \in Thread, UseDangling(t)
       PROVE  TypeOK' /\ HandInv'
  BY <1>12 DEF UseDangling
<1>13. CASE RefreshTimer
  <2>1. From(0) \in Key \cup {End}
    BY FromTyped
  <2> QED
    BY <1>13, <2>1 DEF RefreshTimer, Walk, MoveTo
<1>14. ASSUME NEW i \in Ifc, Down(i)
       PROVE  TypeOK' /\ HandInv'
  <2>1. From(0) \in Key \cup {End}
    BY FromTyped
  <2> QED
    BY <1>14, <2>1 DEF Down, Walk, MoveTo
<1>15. ASSUME NEW i \in Ifc, Up(i)
       PROVE  TypeOK' /\ HandInv'
  BY <1>15 DEF Up
<1>16. CASE AddEntry
  <2>1. DOMAIN rtable' \subseteq Key /\ \A j \in DOMAIN rtable' : rtable'[j] \in Entry
    BY <1>16, WithTyped DEF AddEntry, Key
  <2> QED
    BY <1>16, <2>1 DEF AddEntry
<1>17. CASE Tick
  <2>1. DOMAIN rtable' \subseteq Key /\ \A j \in DOMAIN rtable' : rtable'[j] \in Entry
    BY <1>17, TickTyped
  <2>2. snapAge' \in 0 .. MaxWalk
    BY <1>17 DEF Tick, Refreshing
  <2>3. UNCHANGED <<up, pc, itr, next, dangling, rlock, msg, ifc>>
    BY <1>17 DEF Tick
  <2> QED
    BY <2>1, <2>2, <2>3
<1>18. CASE OutLocks \/ RipLocks \/ MainLocks
  <2>1. CASE Lock("out", "insert", "writing")
    BY <2>1 DEF Lock
  <2>2. CASE Lock("out", "store", "writing")
    BY <2>2 DEF Lock
  <2>3. CASE Lock("rip", "erase", "erasing")
    BY <2>3 DEF Lock
  <2>4. CASE Lock("main", "erase", "erasing")
    BY <2>4 DEF Lock
  <2>5. CASE Lock("main", "add", "writing")
    BY <2>5 DEF Lock
  <2> QED
    BY <1>18, <2>1, <2>2, <2>3, <2>4, <2>5 DEF OutLocks, RipLocks, MainLocks
<1>19. CASE UNCHANGED vars
  BY <1>19 DEF vars
<1> HIDE DEF TypeOK, HandInv, Goto, Place
<1> QED
  BY <1>1, <1>2, <1>3, <1>4, <1>5, <1>6, <1>7, <1>8, <1>9, <1>10, <1>11, <1>12, <1>13,
     <1>14, <1>15, <1>16, <1>17, <1>18, <1>19
     DEF Next, Out, Rip, Main, OutGoesOn, RipGoesOn, MainGoesOn, UpdateTimer

LEMMA TypeInvHolds == Spec => [](TypeOK /\ HandInv)
  BY InitTyped, NextTyped, PTL DEF Spec

\* The table's variables keep their types: no entry costs more than RIP_MAX_COST and none
\* leads out of a foreign interface, whatever the threads do to one another.
THEOREM TypeCorrect == Spec => []TypeOK
  BY TypeInvHolds, PTL

-----------------------------------------------------------------------------
(* The node's own entries.                                                 *)

Settled(i) == IF up[i] THEN i \in DOMAIN rtable /\ rtable[i] = Own(i)
                       ELSE i \notin DOMAIN rtable

EraseStep == {"erase", "erasing"}
RemoveStep == EraseStep \cup {"remove"}
AddStep == {"add", "writing"}

\* What main has in hand.  While remove_ifc_entry has not come past the interface's own
\* entry, that entry is still before it; its iterator is at no other own entry that it
\* would erase, and unless another thread has erased a node under it, both of its
\* iterators are at keys of the table.
MainInv ==
  /\ pc["main"] \in {"idle", "read"} => \A i \in Ifc : Settled(i)
  /\ pc["main"] \in RemoveStep \cup AddStep => \A i \in Ifc \ {ifc} : Settled(i)
  /\ pc["main"] \in AddStep => up[ifc]
  /\ pc["main"] \in RemoveStep => ~up[ifc]
  /\ pc["main"] = "remove" /\ ifc \in DOMAIN rtable =>
       itr["main"] # End /\ itr["main"] <= ifc
  /\ pc["main"] \in EraseStep /\ ifc \in DOMAIN rtable =>
       itr["main"] = ifc \/ (next["main"] # End /\ next["main"] <= ifc)
  /\ pc["main"] \in RemoveStep /\ "main" \notin dangling =>
       {itr["main"], next["main"]} \subseteq DOMAIN rtable \cup {End}
  /\ pc["main"] \in EraseStep =>
       /\ itr["main"] # End /\ itr["main"] \notin Ifc \ {ifc}
       /\ next["main"] = End \/ next["main"] > itr["main"]

\* refresh_route_table never comes to erase one of the node's own entries.
RipInv == pc["rip"] \in EraseStep => itr["rip"] \notin Ifc

OwnInv == TypeOK /\ HandInv /\ MainInv /\ RipInv

LEMMA AfterIsNext ==
  ASSUME TypeOK, NEW k \in Key
  PROVE  \/ After(k) = End /\ \A j \in DOMAIN rtable : ~(j > k)
         \/ /\ After(k) \in DOMAIN rtable /\ After(k) > k
            /\ \A j \in DOMAIN rtable : j > k => After(k) <= j
<1>1. k \in Nat /\ k + 1 \in Nat
  BY Constants
<1>3. DOMAIN rtable \subseteq Nat
  BY Constants DEF TypeOK
<1>2. \A j \in DOMAIN rtable : j > k <=> j >= k + 1
  BY <1>1, <1>3
<1> QED
  BY <1>1, <1>2, <1>3, FromIsFirst DEF After

\* An interface's own entry is what it was, or still missing.
EntryKept(i) ==
  /\ (i \in DOMAIN rtable') <=> (i \in DOMAIN rtable)
  /\ (i \in DOMAIN rtable) => (rtable'[i] = rtable[i])

\* A step that leaves main where it is and the own entries alone, and main's iterators
\* dangling if it erases what they point to.
ApartFromMain ==
  /\ pc'["main"] = pc["main"] /\ itr'["main"] = itr["main"] /\ next'["main"] = next["main"]
  /\ UNCHANGED <<up, ifc>>
  /\ \A i \in Ifc : EntryKept(i)
  /\ "main" \in dangling => "main" \in dangling'
  /\ "main" \notin dangling' =>
       /\ itr["main"] \in DOMAIN rtable => itr["main"] \in DOMAIN rtable'
       /\ next["main"] \in DOMAIN rtable => next["main"] \in DOMAIN rtable'

LEMMA MainUndisturbed ==
  ASSUME HandInv, MainInv, ApartFromMain
  PROVE  MainInv'
<1> USE DEF ApartFromMain, EntryKept
<1>1. \A i \in Ifc : Settled(i) <=> Settled(i)'
  BY DEF Settled
<1>2. pc["main"] \in RemoveStep \cup AddStep => ifc \in Ifc
  BY DEF HandInv, RemoveStep, EraseStep, AddStep
<1>3. pc["main"] \in RemoveStep \cup AddStep =>
        (ifc \in DOMAIN rtable' <=> ifc \in DOMAIN rtable)
  BY <1>2
<1> HIDE DEF Settled
<1> QED
  BY <1>1, <1>2, <1>3 DEF MainInv, RemoveStep, EraseStep, AddStep

\* The steps of out and rip that change no entry.
LEMMA OthersQuiet ==
  ASSUME OwnInv,
         pc'["main"] = pc["main"], itr'["main"] = itr["main"], next'["main"] = next["main"],
         UNCHANGED <<rtable, up, ifc>>,
         "main" \in dangling' <=> "main" \in dangling
  PROVE  MainInv'
<1>1. ApartFromMain
  BY DEF ApartFromMain, EntryKept
<1> QED
  BY <1>1, MainUndisturbed DEF OwnInv

LEMMA InitOwn == Init => OwnInv
<1> SUFFICES ASSUME Init PROVE OwnInv
  OBVIOUS
<1>1. TypeOK /\ HandInv
  BY InitTyped
<1>2. \A i \in Ifc : Settled(i)
  BY DEF Init, Settled
<1>3. pc["main"] = "idle" /\ pc["rip"] = "idle"
  BY DEF Init, Thread
<1> QED
  BY <1>1, <1>2, <1>3 DEF OwnInv, MainInv, RipInv, RemoveStep, EraseStep, AddStep

\* out: it writes entries of other nodes' addresses only.
LEMMA OutStep ==
  ASSUME OwnInv, NEW e \in Entry,
         rtable' = With(msg.address, e) \/ rtable' = rtable,
         pc["out"] \in {"find", "insert", "copy", "store", "writing"},
         \E where \in Place : Goto("out", where),
         UNCHANGED <<up, itr, next, dangling, ifc>>
  PROVE  MainInv'
<1>1. msg.address \in Remote /\ msg.address \notin Ifc
  BY ThreadsAssumption DEF OwnInv, HandInv
<1>2. pc'["main"] = pc["main"]
  BY DEF Goto
<1>3. /\ DOMAIN rtable \subseteq DOMAIN rtable'
      /\ \A i \in Ifc : EntryKept(i)
  BY <1>1 DEF With, EntryKept
<1>4. ApartFromMain
  BY <1>2, <1>3 DEF ApartFromMain
<1> QED
  BY <1>4, MainUndisturbed DEF OwnInv

\* refresh_route_table erases an entry that is not one's own; if one of main's iterators
\* points to it, that iterator is left dangling.
LEMMA RipErases ==
  ASSUME OwnInv, Erase("rip")
  PROVE  MainInv'
<1>1. itr["rip"] \notin Ifc
  BY DEF OwnInv, RipInv, Erase, EraseStep
<1>2. /\ pc'["main"] = pc["main"] /\ itr'["main"] = itr["main"] /\ next'["main"] = next["main"]
      /\ UNCHANGED <<up, ifc>>
  BY DEF Erase, Goto, MoveTo, OwnInv, TypeOK, Thread
<1>3. /\ DOMAIN rtable' = DOMAIN rtable \ {itr["rip"]}
      /\ \A k \in DOMAIN rtable' : rtable'[k] = rtable[k]
  BY DEF Erase, Without
<1>4. /\ "main" \in dangling => "main" \in dangling'
      /\ itr["rip"] = itr["main"] \/ itr["rip"] = next["main"] => "main" \in dangling'
  BY DEF Erase, Thread
<1>5. \A i \in Ifc : EntryKept(i)
  BY <1>1, <1>3 DEF EntryKept
<1>6. "main" \notin dangling' =>
        /\ itr["main"] \in DOMAIN rtable => itr["main"] \in DOMAIN rtable'
        /\ next["main"] \in DOMAIN rtable => next["main"] \in DOMAIN rtable'
  BY <1>3, <1>4
<1>7. ApartFromMain
  BY <1>2, <1>4, <1>5, <1>6 DEF ApartFromMain
<1> QED
  BY <1>7, MainUndisturbed DEF OwnInv

\* The node's own entries are as old as can be and stay so.
LEMMA TickKeeps ==
  ASSUME OwnInv, Tick
  PROVE  MainInv'
<1>1. \A i \in Ifc : Settled(i) => Settled(i)'
  <2> SUFFICES ASSUME NEW i \in Ifc, Settled(i), up[i]
               PROVE  rtable'[i] = Own(i) /\ i \in DOMAIN rtable'
    BY DEF Settled, Tick
  <2>1. rtable[i] = Own(i) /\ i \in DOMAIN rtable
    BY DEF Settled
  <2>2. rtable'[i] = [Own(i) EXCEPT !.age = Min({Own(i).age + 1, MaxAge})]
    BY <2>1 DEF Tick
  <2>3. Min({Own(i).age + 1, MaxAge}) = MaxAge
    BY AgeGrows, Constants DEF Own
  <2> QED
    BY <2>1, <2>2, <2>3 DEF Own, Tick
<1>2. DOMAIN rtable' = DOMAIN rtable /\ UNCHANGED <<up, pc, itr, next, dangling, ifc>>
  BY DEF Tick
<1> HIDE DEF Settled
<1> QED
  BY <1>1, <1>2 DEF OwnInv, MainInv

\* A command begins, and its locks.
LEMMA CommandBegins ==
  ASSUME OwnInv, NEW i \in Ifc, Down(i) \/ Up(i)
  PROVE  MainInv'
<1>1. /\ rtable' = rtable /\ ifc' = i
      /\ \A j \in Ifc \ {i} : Settled(j)
      /\ \A j \in Ifc \ {i} : up'[j] = up[j]
  BY DEF Down, Up, OwnInv, MainInv, TypeOK
<1>2. \A j \in Ifc \ {i} : Settled(j)'
  BY <1>1 DEF Settled
<1>3. CASE Down(i)
  <2>1. ~up'[i] /\ pc'["main"] = "remove" /\ "main" \notin dangling'
    BY <1>3 DEF Down, Walk, Goto, OwnInv, TypeOK, Thread
  <2>2. itr'["main"] = From(0) /\ next'["main"] = From(0)
    BY <1>3 DEF Down, Walk, MoveTo, OwnInv, TypeOK, Thread
  <2>3. /\ From(0) \in DOMAIN rtable \cup {End}
        /\ i \in DOMAIN rtable => From(0) # End /\ From(0) <= i
    <3>1. DOMAIN rtable \subseteq Nat
      BY Constants DEF OwnInv, TypeOK
    <3>2. \/ From(0) = End /\ \A j \in DOMAIN rtable : ~(j >= 0)
          \/ /\ From(0) \in DOMAIN rtable /\ From(0) >= 0
             /\ \A j \in DOMAIN rtable : j >= 0 => From(0) <= j
      BY <3>1, FromIsFirst
    <3> QED
      BY <3>1, <3>2, Constants
  <2> QED
    BY <1>1, <1>2, <2>1, <2>2, <2>3 DEF MainInv, RemoveStep, EraseStep, AddStep
<1>4. CASE Up(i)
  <2>1. up'[i] /\ pc'["main"] = "add"
    BY <1>4 DEF Up, Goto, OwnInv, TypeOK, Thread
  <2> QED
    BY <1>1, <1>2, <2>1 DEF MainInv, RemoveStep, EraseStep, AddStep
<1> QED
  BY <1>3, <1>4

LEMMA MainGetsLock ==
  ASSUME OwnInv, MainLocks
  PROVE  MainInv'
<1>1. \/ pc["main"] = "erase" /\ pc'["main"] = "erasing"
      \/ pc["main"] = "add" /\ pc'["main"] = "writing"
  BY DEF MainLocks, Lock, Goto, OwnInv, TypeOK, Thread
<1>2. UNCHANGED <<rtable, up, itr, next, dangling, ifc>>
  BY DEF MainLocks, Lock
<1>3. \A i \in Ifc : Settled(i) => Settled(i)'
  BY <1>2 DEF Settled
<1> HIDE DEF Settled
<1> QED
  BY <1>1, <1>2, <1>3 DEF OwnInv, MainInv, RemoveStep, EraseStep, AddStep

\* One turn of remove_ifc_entry's loop.  It comes past the interface's own entry only to
\* erase it, and erases no other own entry: none leads out of a foreign interface.
LEMMA RemoveKeeps ==
  ASSUME OwnInv, RemoveNext
  PROVE  MainInv'
<1> DEFINE k == itr["main"]
<1>1. /\ pc["main"] = "remove" /\ "main" \notin dangling
      /\ ifc \in Ifc /\ ~up[ifc]
      /\ UNCHANGED <<rtable, up, ifc>>
  BY DEF RemoveNext, OwnInv, HandInv, MainInv, RemoveStep, EraseStep
<1>2. /\ k \in DOMAIN rtable \cup {End}
      /\ ifc \in DOMAIN rtable => k # End /\ k <= ifc
      /\ \A i \in Ifc \ {ifc} : Settled(i)
  BY <1>1 DEF OwnInv, MainInv, RemoveStep
<1>3. \A i \in Ifc : Settled(i) => Settled(i)'
  BY <1>1 DEF Settled
<1>4. CASE k = End
  <2>1. pc'["main"] = "read"
    BY <1>4 DEF RemoveNext, Walk, Goto, OwnInv, TypeOK, Thread
  <2>2. Settled(ifc)
    BY <1>1, <1>2, <1>4 DEF Settled
  <2> HIDE DEF Settled
  <2> QED
    BY <1>1, <1>2, <1>3, <2>1, <2>2 DEF MainInv, RemoveStep, EraseStep, AddStep
<1>5. CASE k # End
  <2>1. k \in DOMAIN rtable /\ k \in Key
    BY <1>2, <1>5 DEF OwnInv, TypeOK
  <2>2. \/ After(k) = End /\ \A j \in DOMAIN rtable : ~(j > k)
        \/ /\ After(k) \in DOMAIN rtable /\ After(k) > k
           /\ \A j \in DOMAIN rtable : j > k => After(k) <= j
    BY <2>1, AfterIsNext DEF OwnInv
  <2>3. k \in Nat /\ ifc \in Nat
    BY <1>1, <2>1, Constants DEF Key
  <2>4. ASSUME ifc \in DOMAIN rtable, k # ifc
        PROVE  After(k) # End /\ After(k) <= ifc
    <3>1. ifc > k
      BY <1>2, <2>3, <2>4
    <3>2. After(k) \in DOMAIN rtable /\ After(k) <= ifc
      BY <2>2, <2>4, <3>1
    <3> QED
      BY <3>2, Constants DEF OwnInv, TypeOK
  <2>5. After(k) \in DOMAIN rtable \cup {End}
    BY <2>2
  <2>6. CASE RemoveErases(k)
    <3>1. /\ pc'["main"] = "erase" /\ itr'["main"] = k /\ next'["main"] = After(k)
          /\ dangling' = dangling
      BY <1>5, <2>6 DEF RemoveNext, Visit, Goto, OwnInv, TypeOK, Thread
    <3>2. k \notin Ifc \ {ifc}
      <4> SUFFICES ASSUME k \in Ifc \ {ifc}
                   PROVE  FALSE
        OBVIOUS
      <4>1. rtable[k] = Own(k)
        BY <1>2, <2>1 DEF Settled
      <4> QED
        BY <4>1, <2>6 DEF RemoveErases, Own
    <3>3. After(k) = End \/ After(k) > k
      BY <2>2
    <3> HIDE DEF k, Settled
    <3> QED
      BY <1>1, <1>2, <1>3, <1>5, <2>1, <2>4, <2>5, <3>1, <3>2, <3>3
         DEF MainInv, RemoveStep, EraseStep, AddStep
  <2>7. CASE ~RemoveErases(k)
    <3>1. /\ pc'["main"] = "remove" /\ itr'["main"] = After(k) /\ next'["main"] = After(k)
          /\ dangling' = dangling
      BY <1>1, <1>5, <2>7 DEF RemoveNext, Visit, MoveTo, OwnInv, TypeOK, Thread
    <3>2. k # ifc
      BY <2>7 DEF RemoveErases
    <3> HIDE DEF k, Settled
    <3> QED
      BY <1>1, <1>2, <1>3, <2>4, <2>5, <3>1, <3>2
         DEF MainInv, RemoveStep, EraseStep, AddStep
  <2> QED
    BY <2>6, <2>7
<1> QED
  BY <1>4, <1>5

LEMMA MainErases ==
  ASSUME OwnInv, Erase("main")
  PROVE  MainInv'
<1> DEFINE k == itr["main"]
           n == next["main"]
<1>1. /\ pc["main"] = "erasing" /\ "main" \notin dangling
      /\ ifc \in Ifc /\ ~up[ifc]
      /\ UNCHANGED <<up, ifc>>
  BY DEF Erase, OwnInv, HandInv, MainInv, RemoveStep, EraseStep
<1>2. pc'["main"] = "remove" /\ itr'["main"] = n /\ next'["main"] = n
  BY DEF Erase, Goto, MoveTo, OwnInv, TypeOK, Thread
<1>3. /\ DOMAIN rtable' = DOMAIN rtable \ {k}
      /\ \A j \in DOMAIN rtable' : rtable'[j] = rtable[j]
  BY DEF Erase, Without
<1>4. /\ k # End /\ k \notin Ifc \ {ifc}
      /\ n = End \/ n > k
      /\ n \in DOMAIN rtable \cup {End}
      /\ ifc \in DOMAIN rtable => k = ifc \/ (n # End /\ n <= ifc)
      /\ \A i \in Ifc \ {ifc} : Settled(i)
  BY <1>1 DEF OwnInv, MainInv, RemoveStep, EraseStep
<1>5. \A i \in Ifc \ {ifc} : Settled(i)'
  BY <1>1, <1>3, <1>4 DEF Settled
<1>6. k \in Nat
  BY <1>4, Constants DEF OwnInv, TypeOK, Thread
<1>7. n \in DOMAIN rtable' \cup {End}
  BY <1>3, <1>4, <1>6
<1>8. ifc \in DOMAIN rtable' => n # End /\ n <= ifc
  BY <1>3, <1>4
<1> HIDE DEF k, n, Settled
<1> QED
  BY <1>1, <1>2, <1>5, <1>7, <1>8 DEF MainInv, RemoveStep, EraseStep, AddStep

LEMMA MainAdds ==
  ASSUME OwnInv, AddEntry
  PROVE  MainInv'
<1>1. pc["main"] = "writing" /\ pc'["main"] = "idle" /\ ifc \in Ifc /\ up' = up
  BY DEF AddEntry, Goto, OwnInv, TypeOK, HandInv, Thread
<1>2. up[ifc] /\ \A i \in Ifc \ {ifc} : Settled(i)
  BY <1>1 DEF OwnInv, MainInv, AddStep
<1>3. rtable' = With(ifc, Own(ifc))
  BY DEF AddEntry
<1>4. \A i \in Ifc : Settled(i)'
  BY <1>1, <1>2, <1>3 DEF Settled, With
<1> HIDE DEF Settled
<1> QED
  BY <1>1, <1>4 DEF MainInv, RemoveStep, EraseStep, AddStep

\* main's walks that only read.
LEMMA MainReads ==
  ASSUME OwnInv, Read("main") \/ ReadNext("main")
  PROVE  MainInv'
<1>1. pc["main"] \in {"idle", "read"} /\ pc'["main"] \in {"idle", "read"}
  BY DEF Read, ReadNext, Walk, Stop, Goto, OwnInv, TypeOK, Thread
<1>2. UNCHANGED <<rtable, up>>
  BY DEF Read, ReadNext
<1>3. \A i \in Ifc : Settled(i) /\ Settled(i)'
  BY <1>1, <1>2 DEF OwnInv, MainInv, Settled
<1> HIDE DEF Settled
<1> QED
  BY <1>1, <1>3 DEF MainInv, RemoveStep, EraseStep, AddStep

LEMMA AbortKeeps ==
  ASSUME NEW t \in Thread, UseDangling(t)
  PROVE  MainInv' /\ RipInv'
<1>1. pc'["main"] = "aborted" /\ pc'["rip"] = "aborted"
  BY DEF UseDangling, Thread
<1> QED
  BY <1>1 DEF MainInv, RipInv, RemoveStep, EraseStep, AddStep

\* The steps of out, and those of rip that change no entry.
LEMMA OthersKeep ==
  ASSUME OwnInv, Out \/ Rip, \A t \in Thread : ~UseDangling(t)
  PROVE  MainInv'
<1> USE DEF OwnInv, TypeOK, Thread
<1>1. ASSUME NEW t \in {"out", "rip"}, Read(t) \/ ReadNext(t)
      PROVE  MainInv'
  <2>1. /\ UNCHANGED <<rtable, up, ifc>>
        /\ pc'["main"] = pc["main"] /\ itr'["main"] = itr["main"]
        /\ next'["main"] = next["main"]
        /\ "main" \in dangling' <=> "main" \in dangling
    BY <1>1 DEF Read, ReadNext, Walk, Stop, MoveTo, Goto
  <2> QED
    BY <2>1, OthersQuiet
<1>2. CASE RefreshTimer \/ RefreshNext
  <2>1. /\ UNCHANGED <<rtable, up, ifc>>
        /\ pc'["main"] = pc["main"] /\ itr'["main"] = itr["main"]
        /\ next'["main"] = next["main"]
        /\ "main" \in dangling' <=> "main" \in dangling
    BY <1>2 DEF RefreshTimer, RefreshNext, Visit, Walk, Stop, MoveTo, Goto
  <2> QED
    BY <2>1, OthersQuiet
<1>3. CASE OutLocks \/ RipLocks \/ EndOfMessage \/ Admit \/ Find
           \/ (\E i \in Ifc : Receive(i)) \/ (\E e \in Learnable : PickEntry(e))
  <2>1. /\ UNCHANGED <<rtable, up, itr, next, dangling, ifc>>
        /\ pc'["main"] = pc["main"]
    BY <1>3 DEF OutLocks, RipLocks, Lock, EndOfMessage, Admit, Find, Receive, PickEntry, Goto
  <2> QED
    BY <2>1, OthersQuiet
<1>4. CASE Copy
  <2>1. rtable' = With(msg.address, Phantom) \/ rtable' = rtable
    BY <1>4 DEF Copy
  <2>2. Phantom \in Entry
    BY Constants
  <2>3. \E where \in Place : Goto("out", where)
    BY <1>4 DEF Copy, Place
  <2> QED
    BY <1>4, <2>1, <2>2, <2>3, OutStep DEF Copy
<1>5. CASE Write
  <2>1. [cost |-> msg.cost + 1, nextHop |-> msg.ifc, age |-> 0] \in Entry
    BY <1>5, Constants DEF Write, HandInv, Messages, NoMsg, FromIfc, Entry
  <2>2. \E where \in Place : Goto("out", where)
    BY <1>5 DEF Write, Place
  <2> QED
    BY <1>5, <2>1, <2>2, OutStep DEF Write
<1>6. CASE Erase("rip")
  BY <1>6, RipErases
<1> QED
  BY <1>1, <1>2, <1>3, <1>4, <1>5, <1>6
     DEF Out, Rip, OutGoesOn, RipGoesOn, UpdateTimer

\* refresh_route_table looks for its own addresses before it goes on to erase.
LEMMA NextRip ==
  ASSUME OwnInv, Next
  PROVE  RipInv'
<1> USE DEF OwnInv, TypeOK, Thread
<1>1. CASE RefreshNext
  <2>1. CASE pc'["rip"] = "erase"
    <3>1. itr["rip"] \notin Ifc /\ itr' = itr
      BY <1>1, <2>1 DEF RefreshNext, Visit, Stop, MoveTo, Goto, RefreshErases
    <3> QED
      BY <3>1 DEF RipInv
  <2>2. CASE pc'["rip"] # "erase"
    BY <1>1, <2>2 DEF RefreshNext, Visit, Stop, Goto, RipInv, EraseStep
  <2> QED
    BY <2>1, <2>2
<1>2. CASE Erase("rip") \/ Read("rip") \/ ReadNext("rip") \/ RefreshTimer
  <2>1. pc'["rip"] \notin EraseStep
    BY <1>2 DEF Erase, Read, ReadNext, RefreshTimer, Walk, Stop, Goto, EraseStep
  <2> QED
    BY <2>1 DEF RipInv
<1>3. CASE RipLocks
  BY <1>3 DEF RipLocks, Lock, Goto, RipInv, EraseStep
<1>4. ASSUME NEW t \in Thread, UseDangling(t)
      PROVE  RipInv'
  BY <1>4, AbortKeeps
<1>5. CASE Out /\ ~UseDangling("out")
  <2>1. pc'["rip"] = pc["rip"] /\ itr'["rip"] = itr["rip"]
    BY <1>5 DEF Out, Receive, PickEntry, EndOfMessage, Read, ReadNext, OutGoesOn, OutLocks,
                Lock, Admit, Find, Copy, Write, Walk, Stop, MoveTo, Goto
  <2> QED
    BY <2>1 DEF RipInv
<1>6. CASE Main /\ ~UseDangling("main")
  <2>1. pc'["rip"] = pc["rip"] /\ itr'["rip"] = itr["rip"]
    BY <1>6 DEF Main, Down, Up, MainGoesOn, MainLocks, Lock, Read, ReadNext, RemoveNext,
                Visit, Erase, AddEntry, Walk, Stop, MoveTo, Goto
  <2> QED
    BY <2>1 DEF RipInv
<1>7. CASE Tick
  BY <1>7 DEF Tick, RipInv
<1> QED
  BY <1>1, <1>2, <1>3, <1>4, <1>5, <1>6, <1>7
     DEF Next, Rip, RipGoesOn, UpdateTimer

LEMMA NextOwn == OwnInv /\ [Next]_vars => OwnInv'
<1> SUFFICES ASSUME OwnInv, [Next]_vars
             PROVE  OwnInv'
  OBVIOUS
<1>1. TypeOK' /\ HandInv'
  BY NextTyped DEF OwnInv
<1>2. CASE Next
  <2>1. RipInv'
    BY <1>2, NextRip
  <2>2. MainInv'
    <3>1. ASSUME NEW t \in Thread, UseDangling(t)
          PROVE  MainInv'
      BY <3>1, AbortKeeps
    <3>2. CASE (Out \/ Rip) /\ \A t \in Thread : ~UseDangling(t)
      BY <3>2, OthersKeep
    <3>3. CASE Main /\ \A t \in Thread : ~UseDangling(t)
      BY <3>3, CommandBegins, MainGetsLock, RemoveKeeps, MainErases, MainAdds, MainReads
         DEF Main, MainGoesOn, Thread
    <3>4. CASE Tick
      BY <3>4, TickKeeps
    <3> QED
      BY <1>2, <3>1, <3>2, <3>3, <3>4 DEF Next
  <2> QED
    BY <1>1, <2>1, <2>2 DEF OwnInv
<1>3. CASE UNCHANGED vars
  <2>1. MainInv' /\ RipInv'
    BY <1>3 DEF OwnInv, MainInv, RipInv, Settled, Own, MaxAge, vars
  <2> QED
    BY <1>1, <2>1 DEF OwnInv
<1> QED
  BY <1>2, <1>3

\* When a command is done, the table has the node's own addresses of exactly the
\* interfaces that are up, whatever the timers and the network layer did meanwhile.
THEOREM OwnEntriesKeptCorrect == Spec => []OwnEntriesKept
<1>1. OwnInv => OwnEntriesKept
  BY DEF OwnInv, MainInv, Settled, OwnEntriesKept
<1> QED
  BY <1>1, InitOwn, NextOwn, PTL DEF Spec

-----------------------------------------------------------------------------
(* The iterators.                                                          *)

ReadStep == {"read", "refresh", "remove"}

\* A walking thread under which no one has erased has both iterators in the table, and
\* before an erasure the second one is ahead of the first.
Live(t) ==
  /\ t \notin dangling /\ pc[t] \in ReadStep \cup EraseStep =>
       itr[t] \in DOMAIN rtable \cup {End} /\ next[t] \in DOMAIN rtable \cup {End}
  /\ pc[t] \in EraseStep => itr[t] # End /\ (next[t] = End \/ next[t] > itr[t])

LiveInv == \A t \in Thread : Live(t)

\* A step that leaves t and its iterators alone, or takes t out of its walk.
Leaves(t) ==
  /\ pc'[t] = pc[t] \/ pc'[t] \notin ReadStep \cup EraseStep
  /\ itr'[t] = itr[t] /\ next'[t] = next[t]
  /\ t \in dangling => t \in dangling'

LEMMA LeavesLive ==
  ASSUME NEW t \in Thread, Live(t), Leaves(t), DOMAIN rtable \subseteq DOMAIN rtable'
  PROVE  Live(t)'
  BY DEF Live, Leaves, ReadStep, EraseStep

\* out's handling of a message, the rest of the commands, time and the end.
LEMMA OutsideWalks ==
  ASSUME TypeOK, LiveInv,
         \/ \E i \in Ifc : Receive(i) \/ Up(i)
         \/ \E e \in Learnable : PickEntry(e)
         \/ EndOfMessage \/ Admit \/ Find \/ Copy \/ Write \/ OutLocks
         \/ Lock("main", "add", "writing") \/ AddEntry \/ Tick
         \/ \E t \in Thread : UseDangling(t)
  PROVE  LiveInv'
<1>1. DOMAIN rtable \subseteq DOMAIN rtable'
  BY DEF Receive, Up, PickEntry, EndOfMessage, Admit, Find, Copy, Write, OutLocks, Lock,
         AddEntry, Tick, UseDangling, With
<1>2. ASSUME NEW t \in Thread
      PROVE  Leaves(t)
  BY DEF Receive, Up, PickEntry, EndOfMessage, Admit, Find, Copy, Write, OutLocks, Lock,
         AddEntry, Tick, UseDangling, Leaves, Goto, TypeOK, Thread, ReadStep, EraseStep
<1> QED
  BY <1>1, <1>2, LeavesLive DEF LiveInv

LEMMA WalkBegins ==
  ASSUME TypeOK, LiveInv, NEW u \in Thread, NEW where \in ReadStep, Walk(u, where),
         rtable' = rtable
  PROVE  LiveInv'
<1>1. /\ pc' = [pc EXCEPT ![u] = where] /\ dangling' = dangling \ {u}
      /\ itr' = [itr EXCEPT ![u] = From(0)] /\ next' = [next EXCEPT ![u] = From(0)]
  BY DEF Walk, Goto, MoveTo
<1>2. From(0) \in DOMAIN rtable \cup {End}
  <2>1. DOMAIN rtable \subseteq Nat
    BY Constants DEF TypeOK
  <2> QED
    BY <2>1, FromIsFirst
<1>3. Live(u)'
  BY <1>1, <1>2 DEF Live, TypeOK, ReadStep, EraseStep
<1>4. ASSUME NEW t \in Thread, t # u
      PROVE  Live(t)'
  BY <1>1, <1>4, LeavesLive DEF LiveInv, Leaves, TypeOK
<1> QED
  BY <1>3, <1>4 DEF LiveInv

LEMMA WalkMoves ==
  ASSUME TypeOK, LiveInv, NEW u \in Thread, pc[u] \in ReadStep, u \notin dangling,
         itr[u] # End, MoveTo(u, After(itr[u])), UNCHANGED <<rtable, pc, dangling>>
  PROVE  LiveInv'
<1>1. itr' = [itr EXCEPT ![u] = After(itr[u])] /\ next' = [next EXCEPT ![u] = After(itr[u])]
  BY DEF MoveTo
<1>2. itr[u] \in Key
  BY DEF LiveInv, Live, TypeOK
<1>3. After(itr[u]) \in DOMAIN rtable \cup {End}
  BY <1>2, AfterIsNext
<1>4. Live(u)'
  BY <1>1, <1>3 DEF Live, TypeOK, ReadStep, EraseStep
<1>5. ASSUME NEW t \in Thread, t # u
      PROVE  Live(t)'
  BY <1>1, <1>5, LeavesLive DEF LiveInv, Leaves, TypeOK
<1> QED
  BY <1>4, <1>5 DEF LiveInv

LEMMA WalkStops ==
  ASSUME TypeOK, LiveInv, NEW u \in Thread, Stop(u), rtable' = rtable
  PROVE  LiveInv'
<1>1. ASSUME NEW t \in Thread
      PROVE  Leaves(t)
  BY DEF Stop, Goto, Leaves, TypeOK, ReadStep, EraseStep
<1> QED
  BY <1>1, LeavesLive DEF LiveInv

\* One turn of an erasing loop: the next key is beyond the one it looks at.
LEMMA WalkVisits ==
  ASSUME TypeOK, LiveInv, NEW u \in Thread, pc[u] \in ReadStep, u \notin dangling,
         itr[u] # End, NEW erases \in BOOLEAN, Visit(u, erases), rtable' = rtable
  PROVE  LiveInv'
<1>1. CASE ~erases
  BY <1>1, WalkMoves DEF Visit
<1>2. CASE erases
  <2>1. /\ pc' = [pc EXCEPT ![u] = "erase"] /\ next' = [next EXCEPT ![u] = After(itr[u])]
        /\ itr' = itr /\ dangling' = dangling
    BY <1>2 DEF Visit, Goto
  <2>2. itr[u] \in Key /\ itr[u] \in DOMAIN rtable
    BY DEF LiveInv, Live, TypeOK
  <2>3. After(itr[u]) = End \/ (After(itr[u]) \in DOMAIN rtable /\ After(itr[u]) > itr[u])
    BY <2>2, AfterIsNext
  <2>4. Live(u)'
    BY <2>1, <2>2, <2>3 DEF Live, TypeOK, ReadStep, EraseStep
  <2>5. ASSUME NEW t \in Thread, t # u
        PROVE  Live(t)'
    BY <2>1, <2>5, LeavesLive DEF LiveInv, Leaves, TypeOK
  <2> QED
    BY <2>4, <2>5 DEF LiveInv
<1> QED
  BY <1>1, <1>2

LEMMA WalkLocks ==
  ASSUME TypeOK, LiveInv, NEW u \in Thread, Lock(u, "erase", "erasing")
  PROVE  LiveInv'
<1>1. /\ pc[u] = "erase" /\ pc' = [pc EXCEPT ![u] = "erasing"]
      /\ UNCHANGED <<rtable, itr, next, dangling>>
  BY DEF Lock, Goto
<1> QED
  BY <1>1 DEF LiveInv, Live, TypeOK, ReadStep, EraseStep

\* The eraser steps to the next entry, and who was at the erased one dangles.
LEMMA WalkErases ==
  ASSUME TypeOK, LiveInv, NEW u \in Thread, Erase(u)
  PROVE  LiveInv'
<1>1. /\ pc[u] = "erasing" /\ u \notin dangling
      /\ pc' = [pc EXCEPT ![u] = IF u = "rip" THEN "refresh" ELSE "remove"]
      /\ itr' = [itr EXCEPT ![u] = next[u]] /\ next' = [next EXCEPT ![u] = next[u]]
      /\ DOMAIN rtable' = DOMAIN rtable \ {itr[u]}
      /\ dangling' = dangling \cup {s \in Thread \ {u} : itr[u] \in {itr[s], next[s]}}
  BY DEF Erase, Goto, MoveTo, Without
<1>2. /\ itr[u] \in DOMAIN rtable /\ next[u] \in DOMAIN rtable \cup {End}
      /\ next[u] = End \/ next[u] > itr[u]
  BY <1>1 DEF LiveInv, Live, EraseStep
<1>3. itr[u] \in Nat /\ End \notin Nat
  BY <1>2, Constants DEF TypeOK
<1>4. Live(u)'
  <2>1. next[u] # itr[u]
    BY <1>2, <1>3
  <2>2. next[u] \in DOMAIN rtable' \cup {End}
    BY <1>1, <1>2, <2>1
  <2> QED
    BY <1>1, <2>2 DEF Live, TypeOK, ReadStep, EraseStep
<1>5. ASSUME NEW t \in Thread, t # u
      PROVE  Live(t)'
  <2>1. pc'[t] = pc[t] /\ itr'[t] = itr[t] /\ next'[t] = next[t]
    BY <1>1, <1>5 DEF TypeOK
  <2>2. t \notin dangling' => t \notin dangling /\ itr[t] # itr[u] /\ next[t] # itr[u]
    BY <1>1, <1>5
  <2> QED
    BY <1>1, <2>1, <2>2 DEF LiveInv, Live
<1> QED
  BY <1>4, <1>5 DEF LiveInv

LEMMA NextLive == TypeOK /\ LiveInv /\ [Next]_vars => LiveInv'
<1> SUFFICES ASSUME TypeOK, LiveInv, [Next]_vars
             PROVE  LiveInv'
  OBVIOUS
<1>1. ASSUME NEW t \in Thread, ReadNext(t)
      PROVE  LiveInv'
  <2>1. pc[t] \in ReadStep /\ t \notin dangling /\ rtable' = rtable
    BY <1>1 DEF ReadNext, ReadStep
  <2>2. CASE itr[t] = End
    BY <1>1, <2>1, <2>2, WalkStops DEF ReadNext
  <2>3. CASE itr[t] # End
    <3>1. MoveTo(t, After(itr[t])) /\ UNCHANGED <<rtable, pc, dangling>>
      BY <1>1, <2>3 DEF ReadNext
    <3> QED
      BY <2>1, <2>3, <3>1, WalkMoves
  <2> QED
    BY <2>2, <2>3
<1>2. ASSUME NEW t \in Thread, Read(t)
      PROVE  LiveInv'
  BY <1>2, WalkBegins DEF Read, ReadStep
<1>3. CASE RefreshTimer \/ \E i \in Ifc : Down(i)
  BY <1>3, WalkBegins DEF RefreshTimer, Down, ReadStep, Thread
<1>4. CASE RefreshNext
  <2>1. pc["rip"] \in ReadStep /\ "rip" \notin dangling /\ rtable' = rtable /\ "rip" \in Thread
    BY <1>4 DEF RefreshNext, ReadStep, Thread
  <2>2. CASE itr["rip"] = End
    BY <1>4, <2>1, <2>2, WalkStops DEF RefreshNext
  <2>3. CASE itr["rip"] # End
    <3>1. Visit("rip", RefreshErases(itr["rip"])) /\ RefreshErases(itr["rip"]) \in BOOLEAN
      BY <1>4, <2>3 DEF RefreshNext, RefreshErases
    <3> QED
      BY <2>1, <2>3, <3>1, WalkVisits
  <2> QED
    BY <2>2, <2>3
<1>5. CASE RemoveNext
  <2>1. /\ pc["main"] \in ReadStep /\ "main" \notin dangling /\ rtable' = rtable
        /\ "main" \in Thread /\ "read" \in ReadStep
    BY <1>5 DEF RemoveNext, ReadStep, Thread
  <2>2. CASE itr["main"] = End
    BY <1>5, <2>1, <2>2, WalkBegins DEF RemoveNext
  <2>3. CASE itr["main"] # End
    <3>1. Visit("main", RemoveErases(itr["main"])) /\ RemoveErases(itr["main"]) \in BOOLEAN
      BY <1>5, <2>3 DEF RemoveNext, RemoveErases
    <3> QED
      BY <2>1, <2>3, <3>1, WalkVisits
  <2> QED
    BY <2>2, <2>3
<1>6. CASE Erase("rip") \/ Erase("main")
  BY <1>6, WalkErases DEF Thread
<1>7. CASE Lock("rip", "erase", "erasing") \/ Lock("main", "erase", "erasing")
  BY <1>7, WalkLocks DEF Thread
<1>8. CASE UNCHANGED vars
  BY <1>8 DEF vars, LiveInv, Live
<1> QED
  BY <1>1, <1>2, <1>3, <1>4, <1>5, <1>6, <1>7, <1>8, OutsideWalks
     DEF Next, Out, Rip, Main, OutGoesOn, RipGoesOn, MainGoesOn, OutLocks, RipLocks,
         MainLocks, UpdateTimer, Thread

\* With any addresses and any interleaving, the walks are sound but for what the other
\* erasing loop does to them: nothing else leaves an iterator outside the table.
THEOREM IteratorsLiveCorrect == Spec => []IteratorsLive
<1>1. Init => LiveInv
  BY DEF Init, LiveInv, Live, ReadStep, EraseStep, Thread
<1>2. LiveInv => IteratorsLive
  BY DEF LiveInv, Live, IteratorsLive, ReadStep, EraseStep
<1> QED
  BY <1>1, <1>2, NextLive, TypeCorrect, PTL DEF Spec

-----------------------------------------------------------------------------
(* The foreign entries.                                                    *)

\* A route that was learnt, or what operator[] made.
Sound(e) == (e.cost > 0 /\ e.nextHop \in Ifc) \/ e = Phantom

ForeignInv == \A k \in DOMAIN rtable \cap Remote : Sound(rtable[k])

LEMMA PhantomExpires ==
  ASSUME TypeOK
  PROVE  Expired(Phantom)
<1>1. snapAge \in Nat /\ snapAge <= MaxWalk /\ Expiry \in Nat /\ MaxWalk \in Nat
  BY ThreadsAssumption DEF TypeOK
<1> QED
  BY <1>1 DEF Expired, Phantom, MaxAge

\* Growing older, a route stays one and an entry of zeros what it is.
LEMMA TickKeepsSound ==
  ASSUME TypeOK, NEW e \in Entry, Sound(e)
  PROVE  Sound([e EXCEPT !.age = Min({@ + 1, MaxAge})])
<1>1. CASE e.cost > 0 /\ e.nextHop \in Ifc
  BY <1>1 DEF Sound, Entry
<1>2. CASE e = Phantom
  <2>1. e.age = MaxAge /\ MaxAge \in 0 .. MaxAge
    BY <1>2, Constants DEF Phantom
  <2>2. Min({e.age + 1, MaxAge}) = MaxAge
    BY <2>1, AgeGrows
  <2> QED
    BY <1>2, <2>2 DEF Sound, Phantom
<1> QED
  BY <1>1, <1>2 DEF Sound

LEMMA NextForeign == TypeOK /\ HandInv /\ ForeignInv /\ [Next]_vars => ForeignInv'
<1> SUFFICES ASSUME TypeOK, HandInv, ForeignInv, [Next]_vars,
                    NEW k \in DOMAIN rtable', k \in Remote
             PROVE  Sound(rtable'[k])
  BY DEF ForeignInv, Sound, Phantom, MaxAge
<1>1. k \in DOMAIN rtable => Sound(rtable[k]) /\ rtable[k] \in Entry
  BY DEF ForeignInv, TypeOK
<1>2. CASE Write
  <2>1. Sound([cost |-> msg.cost + 1, nextHop |-> msg.ifc, age |-> 0])
    BY <1>2 DEF Write, HandInv, TypeOK, Messages, NoMsg, FromIfc, Sound
  <2>2. rtable' = With(msg.address, [cost |-> msg.cost + 1, nextHop |-> msg.ifc, age |-> 0])
    BY <1>2 DEF Write
  <2> HIDE DEF Sound
  <2> QED
    BY <1>1, <2>1, <2>2 DEF With
<1>3. CASE Copy
  <2>1. Sound(Phantom)
    BY DEF Sound
  <2> HIDE DEF Sound
  <2> QED
    BY <1>1, <1>3, <2>1 DEF Copy, With
<1>4. CASE AddEntry
  <2>1. k # ifc
    BY <1>4, ThreadsAssumption DEF AddEntry, HandInv
  <2> QED
    BY <1>1, <1>4, <2>1 DEF AddEntry, With
<1>5. CASE Tick
  BY <1>1, <1>5, TickKeepsSound DEF Tick
<1>6. ASSUME NEW t \in Thread, Erase(t)
      PROVE  Sound(rtable'[k])
  BY <1>1, <1>6 DEF Erase, Without
<1>7. CASE UNCHANGED rtable
  BY <1>1, <1>7
<1> QED
  BY <1>2, <1>3, <1>4, <1>5, <1>6, <1>7
     DEF Next, Out, Rip, Main, OutGoesOn, RipGoesOn, MainGoesOn, OutLocks, RipLocks,
         MainLocks, UpdateTimer, Thread, Receive, PickEntry, EndOfMessage, Read, ReadNext,
         Admit, Find, Lock, RefreshTimer, RefreshNext, RemoveNext, Down, Up, UseDangling, vars

\* Every foreign address has a learnt route, or zeros that the next refresh that comes to
\* them erases, for any delays: a walk cannot take so long that they look young.
THEOREM ForeignEntriesCorrect == Spec => []ForeignEntries
<1>1. Init => ForeignInv
  BY ThreadsAssumption DEF Init, ForeignInv
<1>2. TypeOK /\ ForeignInv => ForeignEntries
  BY PhantomExpires DEF ForeignInv, Sound, ForeignEntries
<1> QED
  BY <1>1, <1>2, NextForeign, TypeInvHolds, PTL DEF Spec

-----------------------------------------------------------------------------
(* Routes through an interface that is down.                               *)

LEMMA NextStaysDown ==
  ASSUME OwnInv, [Next]_vars, NEW i \in Ifc, ~up[i], ~up'[i], ~Holding(i)
  PROVE  ~Holding(i)' /\ Through(i)' \subseteq Through(i)
<1> DEFINE Fewer == \A k \in DOMAIN rtable' :
                      rtable'[k].nextHop = i => k \in DOMAIN rtable /\ rtable[k].nextHop = i
<1> SUFFICES ~Holding(i)' /\ Fewer
  BY DEF Through
<1>0. TypeOK /\ HandInv /\ pc \in [Thread -> Place] /\ i # 0 /\ 0 \notin Ifc
  BY ThreadsAssumption DEF OwnInv, TypeOK
<1> USE DEF Holding, Thread
<1>1. CASE Admit
  <2>1. msg.ifc # i \/ pc'["out"] = "idle"
    BY <1>0, <1>1 DEF Admit, Admits, Goto
  <2> QED
    BY <1>0, <1>1, <2>1 DEF Admit, Goto, NoMsg, FromIfc
<1>2. ASSUME (\E j \in Ifc : Receive(j)) \/ EndOfMessage
      PROVE  ~Holding(i)' /\ Fewer
  BY <1>0, <1>2 DEF Receive, EndOfMessage, Goto
<1>3. ASSUME NEW e \in Learnable, PickEntry(e)
      PROVE  ~Holding(i)' /\ Fewer
  BY <1>0, <1>3 DEF PickEntry, Goto
<1>4. CASE Find \/ OutLocks
  BY <1>0, <1>4 DEF Find, OutLocks, Lock, Goto
<1>5. CASE Copy
  <2>1. msg'.ifc = msg.ifc /\ pc["out"] = "copy"
    BY <1>5 DEF Copy, NextEntry, FromIfc
  <2>2. Fewer
    BY <1>0, <1>5 DEF Copy, With, Phantom
  <2> QED
    BY <2>1, <2>2
<1>6. CASE Write
  <2>1. msg'.ifc = msg.ifc /\ pc["out"] = "writing"
    BY <1>6 DEF Write, NextEntry, FromIfc
  <2>2. msg.ifc # i
    BY <2>1
  <2>3. rtable' = With(msg.address, [cost |-> msg.cost + 1, nextHop |-> msg.ifc, age |-> 0])
    BY <1>6 DEF Write
  <2>4. Fewer
    BY <2>2, <2>3 DEF With
  <2> QED
    BY <2>1, <2>2, <2>4
<1>7. CASE AddEntry
  <2>1. ifc # i
    BY <1>7 DEF AddEntry, OwnInv, MainInv, AddStep
  <2>2. rtable' = With(ifc, Own(ifc)) /\ Own(ifc).nextHop = ifc
    BY <1>7 DEF AddEntry, Own
  <2>3. Fewer
    BY <2>1, <2>2 DEF With
  <2> QED
    BY <1>0, <1>7, <2>3 DEF AddEntry, Goto
<1>8. CASE Tick
  <2>1. /\ DOMAIN rtable' = DOMAIN rtable
        /\ \A k \in DOMAIN rtable : rtable'[k].nextHop = rtable[k].nextHop
    <3>1. \A k \in DOMAIN rtable : rtable[k] \in Entry
      BY <1>0 DEF TypeOK
    <3> QED
      BY <1>8, <3>1 DEF Tick, Entry
  <2>2. pc' = pc /\ msg' = msg
    BY <1>8 DEF Tick
  <2> QED
    BY <2>1, <2>2
<1>9. ASSUME NEW t \in {"rip", "main"}, Erase(t)
      PROVE  ~Holding(i)' /\ Fewer
  BY <1>0, <1>9 DEF Erase, Without, Goto
<1>10. ASSUME NEW t \in Thread, UseDangling(t)
       PROVE  ~Holding(i)' /\ Fewer
  BY <1>0, <1>10 DEF UseDangling
<1>11. CASE \/ \E t \in Thread : Read(t) \/ ReadNext(t)
            \/ RefreshTimer \/ RefreshNext \/ RemoveNext \/ RipLocks \/ MainLocks
            \/ \E j \in Ifc : Down(j) \/ Up(j)
  <2>1. rtable' = rtable /\ msg' = msg
    BY <1>11 DEF Read, ReadNext, RefreshTimer, RefreshNext, RemoveNext, RipLocks, MainLocks,
                 Lock, Down, Up
  <2>2. pc'["out"] = pc["out"] \/ pc'["out"] \in {"read", "idle"}
    BY <1>0, <1>11 DEF Read, ReadNext, RefreshTimer, RefreshNext, RemoveNext, RipLocks,
                       MainLocks, Lock, Down, Up, Walk, Stop, Visit, Goto
  <2> QED
    BY <2>1, <2>2
<1>12. CASE UNCHANGED vars
  BY <1>12 DEF vars
<1> HIDE DEF Holding, Fewer
<1> QED
  BY <1>1, <1>2, <1>3, <1>4, <1>5, <1>6, <1>7, <1>8, <1>9, <1>10, <1>11, <1>12
     DEF Next, Out, Rip, Main, OutGoesOn, RipGoesOn, MainGoesOn, UpdateTimer

\* Once the message that passed is_up before the command is done, nothing brings a route
\* through an interface that is down into the table, for any interfaces and delays.
THEOREM DownStaysDownCorrect == Spec => DownStaysDown
<1>1. ASSUME OwnInv, [Next]_vars
      PROVE  [\A i \in Ifc : ~up[i] /\ ~up'[i] /\ ~Holding(i)
                => ~Holding(i)' /\ Through(i)' \subseteq Through(i)]_vars
  BY <1>1, NextStaysDown
<1> QED
  BY <1>1, InitOwn, NextOwn, PTL DEF Spec, DownStaysDown

=============================================================================
