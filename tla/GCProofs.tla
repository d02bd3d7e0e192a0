------------------------------ MODULE GCProofs ------------------------------
(***************************************************************************)
(* What holds of the collector for every heap: any pages and cells, any    *)
(* graph of objects, any level limit and any size of the mark stack.       *)
(*                                                                         *)
(* The invariant has three parts.  The cells are accounted for page by     *)
(* page, also in the middle of a sweep, when the freelist holds the free   *)
(* cells of the pages that have been swept.  While the collector marks,    *)
(* what a marked object refers to is marked, or about to be, unless the    *)
(* object waits in the mark stack or in the scan, or the stack has         *)
(* overflowed; and then there is another pass.  While it sweeps, the       *)
(* objects that are marked, or on a page already swept, contain the roots  *)
(* and are closed under references: this set does not change as the sweep  *)
(* goes on.                                                                *)
(***************************************************************************)
EXTENDS GC, TLAPS, FiniteSetTheorems, SequenceTheorems

Kinds == {"none", "zero", "object", "final"}
Refers == [car : Cell \cup {Nil}, cdr : Cell \cup {Nil}]
Lists == [cell : Cell \cup {Nil}, rest : SUBSET Cell]

HeapType ==
    /\ heaps \subseteq Page /\ emptied \subseteq heaps \ {heap0} /\ heap0 \in heaps
    /\ flags \in [Cell -> Kinds]
    /\ finalize \subseteq Cell /\ freelist \subseteq Cell /\ deferred \subseteq Cell
    /\ wild \in BOOLEAN
ProgramType ==
    /\ ref \in [Cell -> Refers]
    /\ roots \subseteq Cell /\ table \subseteq Cell
    /\ lists \in Seq(Lists)
    /\ phase \in Phases /\ caller \in Callers
MarkType ==
    /\ mark \subseteq Cell /\ scan \subseteq Cell /\ mark_stack \subseteq Cell
    /\ calls \subseteq Cell \X Nat \X BOOLEAN
    /\ overflow \in BOOLEAN
(* heap0 is swept first, when no cell has been found yet.                  *)
SweepType ==
    /\ left \subseteq heaps \ emptied /\ freed \in Nat
    /\ heap0 \in left => freed = 0
    /\ phase # "sweep" => left = {}
TypeInv == HeapType /\ ProgramType /\ MarkType /\ SweepType

(* The cells of the heap, those of the pages to be freed, the freelist.    *)
CellsOK ==
    \A c \in Cell :
        /\ flags[c] # "none" <=> \E p \in heaps : c \in Cells[p]
        /\ (\E p \in emptied : c \in Cells[p]) => flags[c] = "zero"
        /\ c \in freelist <=> /\ flags[c] = "zero"
                              /\ \E p \in heaps \ (emptied \cup left) : c \in Cells[p]

(* The marks, which the sweep takes away, and FL_FINALIZE, are of objects. *)
MarksOK ==
    /\ \A c \in mark \cup finalize : flags[c] = "object"
    /\ phase # "mark" => \A c \in mark : \E p \in left : c \in Cells[p]

(* A dead object is in one list, once, and the entry of the table is taken *)
(* before its finalizer runs.                                              *)
In(c, i) == c \in lists[i].rest \/ c = lists[i].cell
ListsOK ==
    /\ \A c \in Cell : flags[c] = "final" <=> c \in deferred \/ \E i \in 1 .. Len(lists) : In(c, i)
    /\ \A c \in deferred : \A i \in 1 .. Len(lists) : ~In(c, i)
    /\ \A c \in Cell : \A i, j \in 1 .. Len(lists) : In(c, i) /\ In(c, j) => i = j
    /\ \A i \in 1 .. Len(lists) : lists[i].cell \notin lists[i].rest \cup table

TableOK == \A c \in table : flags[c] = "final" \/ (flags[c] = "object" /\ c \in finalize)

(* The objects that survive: all of them, unless a sweep is under way.     *)
Survives(c) == flags[c] = "object" /\ (c \in mark \/ \A p \in left : c \notin Cells[p])
Targets(c) == {ref[c].car, ref[c].cdr} \ {Nil}
ReachOK ==
    /\ \A c \in roots : Survives(c)
    /\ \A c \in Cell : Survives(c) => \A d \in Targets(c) : Survives(d)

(* d is marked, or gc_mark will be called for it.                          *)
Noted(d) == d \in mark \/ \E call \in calls : call[1] = d
MarkingOK ==
    phase = "mark" =>
        /\ \A call \in calls : flags[call[1]] = "object"
        /\ \A c \in roots : Noted(c)
        /\ \A c \in mark : overflow \/ c \in mark_stack \cup scan \/ \A d \in Targets(c) : Noted(d)
        /\ overflow => mark_stack # {}

HeapInv == ~wild => CellsOK /\ MarksOK /\ ListsOK /\ TableOK /\ ReachOK /\ MarkingOK

GCInv == TypeInv /\ HeapInv
-----------------------------------------------------------------------------
(* Types                                                                   *)

LEMMA InitType == Init => TypeInv
  <1> SUFFICES ASSUME Init PROVE TypeInv
    OBVIOUS
  <1>1. HeapType
    BY GCAssumption DEF Init, HeapType, Kinds
  <1>2. ProgramType
    BY DEF Init, ProgramType, Refers, NoRefs, Phases, Callers, Lists
  <1>3. MarkType /\ SweepType
    BY DEF Init, MarkType, SweepType
  <1> QED BY <1>1, <1>2, <1>3 DEF TypeInv

LEMMA NoneLeft == TypeInv /\ phase # "sweep" => left = {}
  BY DEF TypeInv, SweepType

LEMMA AllocateType ==
    ASSUME TypeInv, phase # "sweep", NEW x \in roots \cup {Nil}, NEW y \in roots \cup {Nil}, Allocate(x, y)
    PROVE  TypeInv'
  <1> USE DEF TypeInv
  <1>1. PICK c \in freelist :
           /\ freelist' = freelist \ {c}
           /\ flags' = [flags EXCEPT ![c] = "object"]
           /\ ref' = [ref EXCEPT ![c] = [car |-> x, cdr |-> y]]
           /\ roots' = roots \cup {c}
           /\ phase' = "run"
           /\ UNCHANGED <<heaps, emptied, finalize, deferred, wild, lists, table, dont_gc,
                          caller, marking, sweeping>>
    BY DEF Allocate
  <1>2. c \in Cell /\ roots \subseteq Cell
    BY DEF HeapType, ProgramType
  <1>3. HeapType'
    BY <1>1, <1>2 DEF HeapType, Kinds
  <1>4. ProgramType'
    <2>1. [car |-> x, cdr |-> y] \in Refers
      BY <1>2 DEF Refers
    <2> QED BY <1>1, <1>2, <2>1 DEF ProgramType, Phases
  <1>5. MarkType' /\ SweepType'
    BY <1>1, NoneLeft DEF MarkType, SweepType, marking, sweeping
  <1> QED BY <1>3, <1>4, <1>5

LEMMA ProgramTypeStep == TypeInv /\ Program => TypeInv'
  <1> SUFFICES ASSUME TypeInv, Program PROVE TypeInv'
    OBVIOUS
  <1> USE DEF TypeInv
  <1>1. CASE \E x, y \in roots \cup {Nil} : rb_newobj(x, y) \/ Resume(x, y)
    <2> PICK x \in roots \cup {Nil}, y \in roots \cup {Nil} : rb_newobj(x, y) \/ Resume(x, y)
      BY <1>1
    <2>1. CASE rb_newobj(x, y)
      BY <2>1, AllocateType DEF rb_newobj, Running
    <2>2. CASE phase = "alloc" /\ freelist # {} /\ Allocate(x, y)
      BY <2>2, AllocateType
    <2>3. CASE /\ phase = "alloc" /\ freelist = {}
               /\ phase' = "over"
               /\ UNCHANGED <<heap, program, caller, marking, sweeping>>
      BY <2>3 DEF HeapType, ProgramType, MarkType, SweepType, heap, program, marking, sweeping, Phases
    <2> QED BY <2>1, <2>2, <2>3 DEF Resume
  <1>2. ASSUME NEW r \in SUBSET Cell, NEW t \in SUBSET Cell, NEW f \in SUBSET Cell, Changed(r, t, f)
        PROVE  TypeInv'
    BY <1>2 DEF Changed, HeapType, ProgramType, MarkType, SweepType, marking, sweeping
  <1>3. roots \in SUBSET Cell /\ table \in SUBSET Cell /\ finalize \in SUBSET Cell
    BY DEF HeapType, ProgramType
  <1>4. ASSUME NEW a \in roots, Drop(a) \/ define_final(a) \/ undefine_final(a)
        PROVE  TypeInv'
    <2>1. /\ roots \ {a} \in SUBSET Cell /\ table \cup {a} \in SUBSET Cell
          /\ finalize \cup {a} \in SUBSET Cell /\ table \ {a} \in SUBSET Cell
      BY <1>3
    <2> QED BY <1>2, <1>3, <1>4, <2>1 DEF Drop, define_final, undefine_final
  <1>5. ASSUME NEW a \in roots, NEW b \in roots, rb_gc_copy_finalizer(b, a)
        PROVE  TypeInv'
    <2> DEFINE t == IF a \in table THEN table \cup {b} ELSE table
    <2>1. t \in SUBSET Cell /\ finalize \cup {b} \in SUBSET Cell
      BY <1>3
    <2>2. Changed(roots, t, finalize \cup {b})
      BY <1>5 DEF rb_gc_copy_finalizer
    <2> QED BY <1>2, <1>3, <2>1, <2>2
  <1>6. ASSUME NEW a \in roots, NEW s \in {"car", "cdr"}, Load(a, s)
        PROVE  TypeInv'
    <2>1. ref[a] \in Refers
      BY <1>3 DEF ProgramType
    <2>2. roots \cup {ref[a][s]} \in SUBSET Cell
      BY <1>3, <1>6, <2>1 DEF Refers, Load
    <2> QED BY <1>2, <1>3, <1>6, <2>2 DEF Load
  <1>7. ASSUME NEW a \in roots, NEW s \in {"car", "cdr"}, NEW b \in roots \cup {Nil}, Store(a, s, b)
        PROVE  TypeInv'
    <2>1. ref[a] \in Refers
      BY <1>3 DEF ProgramType
    <2>2. [ref[a] EXCEPT ![s] = b] \in Refers
      BY <1>3, <2>1 DEF Refers
    <2>3. ref' = [ref EXCEPT ![a] = [ref[a] EXCEPT ![s] = b]]
      BY <1>7 DEF Store
    <2>4. ref' \in [Cell -> Refers]
      BY <1>3, <2>2, <2>3 DEF ProgramType
    <2> QED BY <1>7, <2>4 DEF Store, HeapType, ProgramType, MarkType, SweepType, heap, marking, sweeping
  <1>8. ASSUME NEW b \in BOOLEAN, SetDontGC(b)
        PROVE  TypeInv'
    BY <1>8 DEF SetDontGC, HeapType, ProgramType, MarkType, SweepType, heap, marking, sweeping
  <1>9. ASSUME NEW r \in Callers, Collect(r)
        PROVE  TypeInv'
    <2>1. calls' \subseteq Cell \X Nat \X BOOLEAN
      <3>1. \A c \in Cell : <<c, 0, FALSE>> \in Cell \X Nat \X BOOLEAN
        OBVIOUS
      <3> QED BY <1>3, <1>9, <3>1 DEF Collect
    <2> QED BY <1>9, <2>1, NoneLeft DEF Collect, Running, HeapType, ProgramType, MarkType, SweepType, heap,
                       program, sweeping, Phases
  <1>10. ASSUME NEW r \in Callers, CollectDisabled(r)
         PROVE  TypeInv'
    <2> USE <1>10 DEF CollectDisabled
    <2>1. phase' \in Phases \ {"sweep"} /\ left' = {} /\ freed' = freed
      <3>1. ReturnTo(r) \in Phases \ {"sweep"}
        BY DEF ReturnTo, Phases
      <3> QED BY <3>1, NoneLeft DEF Running, sweeping, Phases
    <2>2. HeapType'
      <3>1. CASE freelist # {}
        BY <3>1 DEF HeapType, heap
      <3>2. CASE freelist = {}
        <4>1. CASE \E p \in Page : AddHeap(p)
          BY <3>2, <4>1, GCAssumption DEF HeapType, AddHeap, heap, Kinds
        <4>2. CASE UNCHANGED <<heaps, flags, freelist>>
          BY <3>2, <4>2 DEF HeapType, heap
        <4> QED BY <3>2, <4>1, <4>2
      <3> QED BY <3>1, <3>2
    <2> QED BY <2>1, <2>2 DEF ProgramType, MarkType, SweepType, program, marking
  <1> QED BY <1>1, <1>4, <1>5, <1>6, <1>7, <1>8, <1>9, <1>10 DEF Program
LEMMA ChildrenType ==
    ASSUME TypeInv, NEW c \in Cell, NEW lev \in Nat
    PROVE  Children(c, lev) \subseteq Cell \X Nat \X BOOLEAN
  <1>1. ref[c] \in Refers
    BY DEF TypeInv, ProgramType
  <1>2. ref[c].car \in Cell \cup {Nil} /\ ref[c].cdr \in Cell \cup {Nil}
    BY <1>1 DEF Refers
  <1>3. ASSUME NEW d \in Cell \cup {Nil}, NEW b \in BOOLEAN,
               <<d, lev, b>> \notin {<<Nil, lev, a>> : a \in BOOLEAN}
        PROVE  <<d, lev, b>> \in Cell \X Nat \X BOOLEAN
    BY <1>3
  <1> QED BY <1>2, <1>3 DEF Children

LEMMA CallType ==
    ASSUME TypeInv, NEW call \in calls
    PROVE  /\ call[1] \in Cell /\ call[2] \in Nat /\ call[3] \in BOOLEAN
           /\ call = <<call[1], call[2], call[3]>>
  BY DEF TypeInv, MarkType

LEMMA MarkingTypeStep == TypeInv /\ Marking => TypeInv'
  <1> SUFFICES ASSUME TypeInv, Marking PROVE TypeInv'
    OBVIOUS
  <1> USE DEF TypeInv
  <1>1. CASE gc_mark
    <2> USE <1>1 DEF gc_mark
    <2>1. PICK call \in calls : \/ Skip(call[1], call[2], call[3]) \/ Later(call[1], call[2], call[3])
                                \/ Descend(call[1], call[2], call[3])
      OBVIOUS
    <2> DEFINE c == call[1]  lev == call[2]  again == call[3]
    <2>2. c \in Cell /\ lev \in Nat /\ again \in BOOLEAN
      BY CallType
    <2>3. Children(c, IF again THEN lev ELSE lev + 1) \subseteq Cell \X Nat \X BOOLEAN
      <3>1. (IF again THEN lev ELSE lev + 1) \in Nat
        BY <2>2
      <3> QED BY <2>2, <3>1, ChildrenType
    <2>4. Push(c) => mark_stack' \subseteq Cell /\ overflow' \in BOOLEAN
      BY <2>2 DEF Push, MarkType
    <2>5. MarkType'
      BY <2>1, <2>2, <2>3, <2>4 DEF Skip, Later, Descend, MarkType
    <2> QED BY <2>5 DEF HeapType, ProgramType, SweepType, heap, program, sweeping
  <1>2. CASE MarkAgain
    BY <1>2 DEF MarkAgain, InHeap, HeapType, ProgramType, MarkType, SweepType, heap, program, sweeping
  <1>3. ASSUME NEW c \in Cell, ScanNext(c) PROVE TypeInv'
    <2>1. Children(c, 0) \subseteq Cell \X Nat \X BOOLEAN
      BY ChildrenType
    <2> QED BY <1>3, <2>1 DEF ScanNext, HeapType, ProgramType, MarkType, SweepType, heap, program, sweeping
  <1> QED BY <1>1, <1>2, <1>3 DEF Marking

LEMMA SweptCells ==
    ASSUME TypeInv, NEW p \in Page
    PROVE  Swept(p) \subseteq Cells[p] /\ Cells[p] \subseteq Cell /\ Cardinality(Swept(p)) \in Nat
  <1>1. IsFiniteSet(Cells[p]) /\ Cells[p] \subseteq Cell
    BY GCAssumption
  <1>2. Swept(p) \subseteq Cells[p]
    BY DEF Swept
  <1>3. IsFiniteSet(Swept(p))
    BY <1>1, <1>2, FS_Subset
  <1> QED BY <1>1, <1>2, <1>3, FS_CardinalityType

LEMMA SweepEndType == TypeInv /\ SweepEnd => TypeInv'
  <1> SUFFICES ASSUME TypeInv, SweepEnd PROVE TypeInv'
    OBVIOUS
  <1> USE DEF TypeInv, SweepEnd
  <1>1. phase' \in Phases \ {"sweep"} /\ left' = {} /\ freed' = 0
    BY DEF ReturnTo, Phases
  <1>2. HeapType'
    <2>1. PICK P \in AddedHeaps :
             /\ freelist' = freelist \cup UNION {Cells[p] : p \in P}
             /\ \/ deferred = {} /\ FreeUnusedHeaps(heaps \cup P, Blank(P))
                \/ /\ deferred # {}
                   /\ heaps' = heaps \cup P /\ flags' = Blank(P) /\ UNCHANGED emptied
      OBVIOUS
    <2>2. P \subseteq Page
      BY DEF AddedHeaps
    <2>3. Blank(P) \in [Cell -> Kinds]
      BY DEF Blank, Kinds, HeapType
    <2>4. Unheaped(Blank(P)) \in [Cell -> Kinds]
      BY <2>3 DEF Unheaped, Kinds
    <2>5. UNION {Cells[p] : p \in P} \subseteq Cell
      BY <2>2, GCAssumption
    <2>6. freelist' \subseteq Cell
      BY <2>1, <2>5 DEF HeapType
    <2>7. CASE deferred = {} /\ FreeUnusedHeaps(heaps \cup P, Blank(P))
      BY <2>7, <2>2, <2>4, <2>6 DEF HeapType, FreeUnusedHeaps
    <2>8. CASE heaps' = heaps \cup P /\ flags' = Blank(P) /\ UNCHANGED emptied
      BY <2>8, <2>2, <2>3, <2>6 DEF HeapType
    <2> QED BY <2>1, <2>7, <2>8
  <1>3. ProgramType' /\ MarkType' /\ SweepType'
    BY <1>1 DEF ProgramType, MarkType, SweepType, program, marking, Callers
  <1> QED BY <1>2, <1>3

LEMMA SweepingTypeStep == TypeInv /\ Sweeping => TypeInv'
  <1> SUFFICES ASSUME TypeInv, Sweeping PROVE TypeInv'
    OBVIOUS
  <1> USE DEF TypeInv
  <1>1. CASE SweepStart
    BY <1>1 DEF SweepStart, HeapType, ProgramType, MarkType, SweepType, program, marking, Phases
  <1>2. ASSUME NEW p \in Page, SweepPage(p) PROVE TypeInv'
    <2> USE <1>2 DEF SweepPage
    <2>1. Swept(p) \subseteq Cells[p] /\ Cells[p] \subseteq Cell /\ Cardinality(Swept(p)) \in Nat
      BY SweptCells
    <2>2. Dying(p) \subseteq Cell /\ FreedCells(p) \subseteq Cell
      BY <2>1 DEF Dying, FreedCells, HeapType
    <2>3. Unused(p) => p # heap0
      BY GCAssumption DEF Unused, SweepType
    <2>4. HeapType'
      <3>1. flags' \in [Cell -> Kinds]
        BY DEF HeapType, Kinds
      <3>2. emptied' \subseteq heaps' \ {heap0}
        BY <2>3 DEF HeapType, SweepType
      <3>3. wild' \in BOOLEAN
        BY DEF HeapType
      <3> QED BY <2>2, <3>1, <3>2, <3>3 DEF HeapType
    <2>5. ProgramType'
      <3>1. ref' \in [Cell -> Refers]
        BY DEF ProgramType, Refers, NoRefs
      <3> QED BY <3>1 DEF ProgramType
    <2>6. MarkType'
      BY DEF MarkType
    <2>7. SweepType'
      <3>1. heap0 \notin left'
        OBVIOUS
      <3>2. freed' \in Nat
        BY <2>1 DEF SweepType
      <3>3. left' \subseteq heaps' \ emptied'
        BY DEF SweepType
      <3> QED BY <3>1, <3>2, <3>3
          DEF SweepType
    <2> QED BY <2>4, <2>5, <2>6, <2>7
  <1>3. CASE OutOfMemory
    BY <1>3 DEF OutOfMemory, HeapType, ProgramType, MarkType, SweepType, heap, program, marking, sweeping, Phases
  <1> QED BY <1>1, <1>2, <1>3, SweepEndType DEF Sweeping

(* The calls of finalize_list: a new one, the innermost one goes on, or    *)
(* ends.                                                                   *)
LEMMA NewList ==
    ASSUME lists \in Seq(Lists), NEW D \in SUBSET Cell, NEW l \in Seq(Lists),
           l = <<[cell |-> Nil, rest |-> D]>> \o lists
    PROVE  /\ Len(l) = Len(lists) + 1
           /\ l[1] = [cell |-> Nil, rest |-> D]
           /\ \A i \in 1 .. Len(lists) : l[i + 1] = lists[i]
           /\ \A i \in 2 .. Len(l) : l[i] = lists[i - 1]
  OBVIOUS

LEMMA ListElement ==
    ASSUME lists \in Seq(Lists), lists # << >>
    PROVE  /\ 1 \in 1 .. Len(lists) /\ Head(lists) = lists[1]
           /\ lists[1] \in Lists /\ lists[1].cell \in Cell \cup {Nil} /\ lists[1].rest \subseteq Cell
  <1>1. 1 \in 1 .. Len(lists) /\ Head(lists) = lists[1] /\ lists[1] \in Lists
    OBVIOUS
  <1> QED BY <1>1 DEF Lists

LEMMA FinalizingTypeStep == TypeInv /\ Finalizing => TypeInv'
  <1> SUFFICES ASSUME TypeInv, Finalizing PROVE TypeInv'
    OBVIOUS
  <1> USE DEF TypeInv
  <1>1. lists \in Seq(Lists) /\ deferred \in SUBSET Cell
    BY DEF ProgramType, HeapType
  <1>2. CASE rb_gc_finalize_deferred
    <2> USE <1>2 DEF rb_gc_finalize_deferred
    <2>1. lists' \in Seq(Lists)
      <3>1. [cell |-> Nil, rest |-> deferred] \in Lists
        BY <1>1 DEF Lists
      <3>2. <<[cell |-> Nil, rest |-> deferred]>> \o lists \in Seq(Lists)
        BY <1>1, <3>1
      <3> QED BY <1>1, <3>2
    <2>2. left = {}
      BY NoneLeft DEF Running
    <2> QED BY <2>1, <2>2 DEF HeapType, ProgramType, MarkType, SweepType, marking, sweeping, Phases
  <1>3. ASSUME NEW c \in Cell, RunFinal(c) PROVE TypeInv'
    <2> USE <1>3 DEF RunFinal
    <2>1. lists' \in Seq(Lists)
      <3>1. lists[1] \in Lists /\ 1 \in 1 .. Len(lists) /\ lists[1].rest \subseteq Cell
        BY <1>1, ListElement DEF Walking
      <3>2. [cell |-> c, rest |-> lists[1].rest \ {c}] \in Lists
        BY <3>1 DEF Lists
      <3> QED BY <1>1, <3>1, <3>2
    <2> QED BY <2>1 DEF HeapType, ProgramType, MarkType, SweepType, heap, marking, sweeping
  <1>4. CASE FinalReturns
    <2> USE <1>4 DEF FinalReturns
    <2>1. lists[1] \in Lists /\ 1 \in 1 .. Len(lists) /\ Head(lists) = lists[1]
      BY <1>1, ListElement DEF Walking
    <2>2. lists' \in Seq(Lists)
      <3>1. [lists[1] EXCEPT !.cell = Nil] \in Lists
        BY <2>1 DEF Lists
      <3>2. lists' = [lists EXCEPT ![1] = [lists[1] EXCEPT !.cell = Nil]]
        OBVIOUS
      <3> QED BY <1>1, <2>1, <3>1, <3>2
    <2>3. Head(lists).cell \in Cell
      BY <2>1 DEF Lists
    <2>4. HeapType'
      BY <2>3 DEF HeapType, Kinds
    <2> QED BY <2>2, <2>4 DEF ProgramType, MarkType, SweepType, marking, sweeping
  <1>5. CASE FinalizeEnd
    <2> USE <1>5 DEF FinalizeEnd, Walking
    <2>1. lists' \in Seq(Lists)
      BY <1>1
    <2>2. left = {}
      BY NoneLeft
    <2>3. HeapType'
      BY DEF HeapType, FreeUnusedHeaps, Unheaped, Kinds
    <2> QED BY <2>1, <2>2, <2>3 DEF ProgramType, MarkType, SweepType, marking, sweeping
  <1> QED BY <1>2, <1>3, <1>4, <1>5 DEF Finalizing

LEMMA TypeStep == TypeInv /\ [Next]_vars => TypeInv'
  <1>1. TypeInv /\ UNCHANGED vars => TypeInv'
    BY DEF vars, heap, program, marking, sweeping, TypeInv, HeapType, ProgramType, MarkType, SweepType
  <1> QED BY <1>1, ProgramTypeStep, MarkingTypeStep, SweepingTypeStep, FinalizingTypeStep DEF Next
-----------------------------------------------------------------------------
(* The heap                                                                *)

LEMMA OnePage ==
    \A p, q \in Page : \A c \in Cells[p] : c \in Cells[q] => p = q
  BY GCAssumption

LEMMA PageCells == \A p \in Page : Cells[p] \subseteq Cell
  BY GCAssumption

LEMMA InitHeap == Init => HeapInv
  <1> SUFFICES ASSUME Init PROVE HeapInv
    OBVIOUS
  <1>1. CellsOK
    BY GCAssumption DEF Init, CellsOK
  <1>2. MarksOK /\ ListsOK /\ TableOK /\ ReachOK /\ MarkingOK
    BY DEF Init, MarksOK, ListsOK, In, TableOK, ReachOK, Survives, MarkingOK
  <1> QED BY <1>1, <1>2 DEF HeapInv

(* Outside of a sweep every object survives, outside of a collection       *)
(* nothing is marked.                                                      *)
LEMMA Quiet ==
    ASSUME GCInv, ~wild
    PROVE  /\ phase # "sweep" => left = {} /\ \A c : Survives(c) <=> flags[c] = "object"
           /\ phase \notin {"mark", "sweep"} => mark = {}
           /\ CellsOK /\ MarksOK /\ ListsOK /\ TableOK /\ ReachOK /\ MarkingOK
  BY DEF GCInv, TypeInv, SweepType, HeapInv, MarksOK, Survives

(* The references of an object are objects, roots are.                     *)
LEMMA ObjectsClosed ==
    ASSUME GCInv, ~wild, phase # "sweep"
    PROVE  /\ \A c \in roots : flags[c] = "object"
           /\ \A c \in Cell : flags[c] = "object" =>
                 \A s \in {"car", "cdr"} : ref[c][s] # Nil => flags[ref[c][s]] = "object"
  <1>1. \A c : Survives(c) <=> flags[c] = "object"
    BY Quiet
  <1> QED BY <1>1, Quiet DEF ReachOK, Targets

LEMMA AllocateHeap ==
    ASSUME GCInv, ~wild, phase \notin {"mark", "sweep"}, TypeInv',
           NEW x \in roots \cup {Nil}, NEW y \in roots \cup {Nil}, Allocate(x, y)
    PROVE  HeapInv'
  <1>1. PICK c \in freelist :
           /\ freelist' = freelist \ {c}
           /\ flags' = [flags EXCEPT ![c] = "object"]
           /\ ref' = [ref EXCEPT ![c] = [car |-> x, cdr |-> y]]
           /\ roots' = roots \cup {c}
           /\ phase' = "run"
           /\ UNCHANGED <<heaps, emptied, finalize, deferred, wild, lists, table, dont_gc,
                          caller, marking, sweeping>>
    BY DEF Allocate
  <1>2. left = {} /\ mark = {} /\ left' = {} /\ mark' = {}
    BY <1>1, Quiet DEF marking, sweeping
  <1>3. /\ c \in Cell /\ roots \subseteq Cell /\ table \subseteq Cell /\ finalize \subseteq Cell
        /\ flags \in [Cell -> Kinds] /\ ref \in [Cell -> Refers]
        /\ heaps \subseteq Page /\ emptied \subseteq heaps
    BY DEF GCInv, TypeInv, HeapType, ProgramType
  <1>4. flags[c] = "zero" /\ \E p \in heaps \ emptied : c \in Cells[p]
    BY <1>2, <1>3, Quiet DEF CellsOK
  <1>5. flags'[c] = "object" /\ \A d \in Cell : d # c => flags'[d] = flags[d]
    BY <1>1, <1>3
  <1>6. CellsOK'
    <2> SUFFICES ASSUME NEW d \in Cell PROVE CellsOK!(d)'
      BY DEF CellsOK
    <2>1. CASE d = c
      BY <1>1, <1>2, <1>3, <1>4, <1>5, <2>1, OnePage DEF CellsOK
    <2>2. CASE d # c
      BY <1>1, <1>2, <1>3, <1>5, <2>2, Quiet DEF CellsOK
    <2> QED BY <2>1, <2>2
  <1>7. MarksOK'
    BY <1>1, <1>2, <1>3, <1>5, Quiet DEF MarksOK
  <1>8. ListsOK'
    <2>1. \A d \in Cell : flags'[d] = "final" <=> flags[d] = "final"
      BY <1>4, <1>5
    <2> QED BY <1>1, <2>1, Quiet DEF ListsOK, In
  <1>9. TableOK'
    BY <1>1, <1>3, <1>4, <1>5, Quiet DEF TableOK
  <1>10. ReachOK'
    <2>1. \A d : Survives(d)' <=> flags'[d] = "object"
      BY <1>2 DEF Survives
    <2>2. \A d \in roots : flags[d] = "object"
      BY ObjectsClosed
    <2>3. \A d \in roots' : Survives(d)'
      BY <1>1, <1>3, <1>5, <2>1, <2>2
    <2>4. ASSUME NEW d \in Cell, flags'[d] = "object", NEW e \in Targets(d)' PROVE flags'[e] = "object"
      <3>1. CASE d = c
        <4>1. e \in roots
          BY <1>1, <1>3, <2>4, <3>1 DEF Targets
        <4> QED BY <1>3, <1>5, <2>2, <4>1
      <3>2. CASE d # c
        <4>1. flags[d] = "object" /\ e \in Targets(d)
          BY <1>1, <1>3, <1>5, <2>4, <3>2 DEF Targets
        <4>2. flags[e] = "object"
          BY <4>1, Quiet DEF ReachOK
        <4>3. ref[d] \in Refers
          BY <1>3
        <4>4. e \in Cell
          BY <4>1, <4>3 DEF Targets, Refers
        <4> QED BY <1>5, <4>2, <4>4
      <3> QED BY <3>1, <3>2
    <2> QED BY <2>1, <2>3, <2>4 DEF ReachOK
  <1>11. MarkingOK'
    BY <1>1 DEF MarkingOK
  <1> QED BY <1>6, <1>7, <1>8, <1>9, <1>10, <1>11 DEF HeapInv

LEMMA ChangedHeap ==
    ASSUME GCInv, NEW r \in SUBSET Cell, NEW t \in SUBSET Cell, NEW f \in SUBSET Cell, Changed(r, t, f),
           \A c \in r \cup f \cup (t \ table) : flags[c] = "object",
           t \subseteq table \cup f, finalize \subseteq f
    PROVE  HeapInv'
  <1> USE DEF Changed
  <1>1. ~wild /\ phase = "run" /\ left = {} /\ mark = {} /\ table \subseteq Cell
    BY Quiet DEF Running, GCInv, TypeInv, ProgramType
  <1>2. CellsOK'
    BY <1>1, Quiet DEF CellsOK, sweeping
  <1>3. MarksOK'
    BY <1>1, Quiet DEF MarksOK, sweeping, marking
  <1>4. ListsOK'
    <2>1. \A i \in 1 .. Len(lists) : lists[i].cell \notin t
      <3> SUFFICES ASSUME NEW i \in 1 .. Len(lists), lists[i].cell \in t PROVE FALSE
        OBVIOUS
      <3>1. lists[i].cell \in Cell /\ flags[lists[i].cell] = "final"
        BY <1>1, Quiet DEF ListsOK, In
      <3> QED BY <1>1, <3>1, Quiet DEF ListsOK
    <2> QED BY <1>1, <2>1, Quiet DEF ListsOK, In
  <1>5. TableOK'
    BY <1>1, Quiet DEF TableOK
  <1>6. ReachOK'
    <2>1. \A c : Survives(c)' <=> flags[c] = "object"
      BY <1>1 DEF Survives, sweeping
    <2>2. \A c : Survives(c) <=> flags[c] = "object"
      BY <1>1, Quiet
    <2> QED BY <1>1, <2>1, <2>2, Quiet DEF ReachOK, Targets
  <1>7. MarkingOK'
    BY <1>1 DEF MarkingOK
  <1> QED BY <1>2, <1>3, <1>4, <1>5, <1>6, <1>7 DEF HeapInv
LEMMA StoreHeap ==
    ASSUME GCInv, TypeInv', NEW a \in roots, NEW s \in {"car", "cdr"}, NEW b \in roots \cup {Nil}, Store(a, s, b)
    PROVE  HeapInv'
  <1> USE DEF Store
  <1>1. /\ ~wild /\ phase = "run" /\ left = {} /\ mark = {}
        /\ roots \subseteq Cell /\ ref \in [Cell -> Refers]
    BY Quiet DEF Running, GCInv, TypeInv, ProgramType
  <1>2. CellsOK' /\ MarksOK' /\ ListsOK' /\ TableOK' /\ MarkingOK'
    BY <1>1, Quiet DEF CellsOK, MarksOK, ListsOK, In, TableOK, MarkingOK, heap, sweeping, marking
  <1>3. ReachOK'
    <2>1. \A c : (Survives(c)' <=> flags[c] = "object") /\ (Survives(c) <=> flags[c] = "object")
      BY <1>1, Quiet DEF Survives, sweeping, marking, heap
    <2>2. ASSUME NEW c \in Cell, NEW d \in Targets(c)' PROVE d \in Targets(c) \/ d \in roots
      <3>1. ref[c] \in Refers /\ ref[a] \in Refers
        BY <1>1
      <3>2. ref'[c] = IF c = a THEN [ref[a] EXCEPT ![s] = b] ELSE ref[c]
        BY <1>1
      <3> QED BY <2>2, <3>1, <3>2 DEF Targets, Refers
    <2> QED BY <1>1, <2>1, <2>2, Quiet DEF ReachOK
  <1> QED BY <1>2, <1>3 DEF HeapInv

LEMMA AddHeapCells ==
    ASSUME GCInv, ~wild, left = {}, NEW p \in Page, AddHeap(p), UNCHANGED <<emptied, left>>
    PROVE  /\ CellsOK'
           /\ \A c \in Cell : \A k \in {"object", "final"} : flags'[c] = k <=> flags[c] = k
  <1> USE DEF AddHeap
  <1>1. \A c \in Cells[p] : c \in Cell /\ flags[c] = "none"
    <2> SUFFICES ASSUME NEW c \in Cells[p] PROVE c \in Cell /\ flags[c] = "none"
      OBVIOUS
    <2>1. c \in Cell /\ ~\E q \in heaps : c \in Cells[q]
      BY OnePage, PageCells DEF GCInv, TypeInv, HeapType
    <2> QED BY <2>1, Quiet DEF CellsOK
  <1>2. \A c \in Cell : flags'[c] = IF c \in Cells[p] THEN "zero" ELSE flags[c]
    OBVIOUS
  <1>3. CellsOK'
    <2> SUFFICES ASSUME NEW c \in Cell PROVE CellsOK!(c)'
      BY DEF CellsOK
    <2>1. CellsOK!(c) /\ heaps \subseteq Page /\ emptied \subseteq heaps
      BY Quiet DEF CellsOK, GCInv, TypeInv, HeapType
    <2>2. CASE c \in Cells[p]
      BY <1>1, <1>2, <2>1, <2>2
    <2>3. CASE c \notin Cells[p]
      BY <1>1, <1>2, <2>1, <2>3
    <2> QED BY <2>2, <2>3
  <1> QED BY <1>1, <1>2, <1>3

(* Outside of a sweep, or at its end: what is said of objects stays.       *)
LEMMA SameObjects ==
    ASSUME GCInv, ~wild, left = {}, mark = {}, phase' # "mark",
           \A c \in Cell : flags'[c] = "object" <=> flags[c] = "object",
           UNCHANGED <<finalize, ref, roots, mark, left>>
    PROVE  MarksOK' /\ ReachOK' /\ MarkingOK'
  <1>1. finalize \subseteq Cell /\ ref \in [Cell -> Refers] /\ roots \subseteq Cell
    BY DEF GCInv, TypeInv, HeapType, ProgramType
  <1>2. MarksOK' /\ MarkingOK'
    BY <1>1, Quiet DEF MarksOK, MarkingOK
  <1>3. ReachOK'
    <2>1. \A c \in Cell : (Survives(c)' <=> flags[c] = "object") /\ (Survives(c) <=> flags[c] = "object")
      BY <1>1 DEF Survives
    <2>2. \A c \in Cell : Targets(c)' = Targets(c) /\ Targets(c) \subseteq Cell
      <3> SUFFICES ASSUME NEW c \in Cell PROVE Targets(c)' = Targets(c) /\ Targets(c) \subseteq Cell
        OBVIOUS
      <3>1. ref[c] \in Refers
        BY <1>1
      <3> QED BY <3>1 DEF Targets, Refers
    <2> QED BY <1>1, <2>1, <2>2, Quiet DEF ReachOK
  <1> QED BY <1>2, <1>3

(* New pages, or free ones less: what is said of dead objects stays too.   *)
LEMMA SameCells ==
    ASSUME GCInv, ~wild, left = {}, mark = {}, phase' # "mark",
           \A c \in Cell : \A k \in {"object", "final"} : flags'[c] = k <=> flags[c] = k,
           UNCHANGED <<finalize, deferred, program, mark, left>>
    PROVE  MarksOK' /\ ListsOK' /\ TableOK' /\ ReachOK' /\ MarkingOK'
  <1>1. table \subseteq Cell
    BY DEF GCInv, TypeInv, ProgramType
  <1>2. MarksOK' /\ ReachOK' /\ MarkingOK'
    BY SameObjects DEF program
  <1>3. TableOK'
    BY <1>1, Quiet DEF TableOK, program
  <1>4. ListsOK'
    BY Quiet DEF ListsOK, In, program
  <1> QED BY <1>2, <1>3, <1>4

LEMMA CollectHeap ==
    ASSUME GCInv, NEW r \in Callers, Collect(r)
    PROVE  HeapInv'
  <1> USE DEF Collect
  <1>1. ~wild /\ phase = "run" /\ left = {} /\ mark = {}
    BY Quiet DEF Running
  <1>2. \A c : (Survives(c)' <=> Survives(c)) /\ Targets(c)' = Targets(c)
    BY DEF Survives, Targets, heap, sweeping, program
  <1>3. CellsOK' /\ ListsOK' /\ TableOK' /\ MarksOK'
    BY <1>1, Quiet DEF CellsOK, ListsOK, In, TableOK, MarksOK, heap, program, sweeping
  <1>4. ReachOK'
    BY <1>1, <1>2, Quiet DEF ReachOK, program
  <1>5. MarkingOK'
    <2>1. \A c \in roots : <<c, 0, FALSE>> \in calls' /\ <<c, 0, FALSE>>[1] = c
      OBVIOUS
    <2>2. \A c \in roots : Noted(c)'
      BY <2>1 DEF Noted
    <2>3. ASSUME NEW call \in calls' PROVE flags[call[1]] = "object"
      <3>1. PICK c \in roots : call = <<c, 0, FALSE>>
        BY <2>3
      <3> QED BY <1>1, <3>1, ObjectsClosed
    <2> QED BY <1>1, <2>2, <2>3 DEF MarkingOK, heap, program
  <1> QED BY <1>3, <1>4, <1>5 DEF HeapInv

LEMMA CollectDisabledHeap ==
    ASSUME GCInv, NEW r \in Callers, CollectDisabled(r)
    PROVE  HeapInv'
  <1> USE DEF CollectDisabled
  <1>1. /\ ~wild /\ phase = "run" /\ left = {} /\ mark = {}
        /\ phase' \notin {"mark", "sweep"} /\ UNCHANGED <<finalize, deferred, emptied, program, mark, left>>
    BY Quiet DEF Running, ReturnTo, heap, marking, sweeping
  <1>2. CASE UNCHANGED <<heaps, flags, freelist>>
    <2>1. CellsOK'
      BY <1>1, <1>2, Quiet DEF CellsOK
    <2> QED BY <1>1, <1>2, <2>1, SameCells DEF HeapInv
  <1>3. CASE \E p \in Page : AddHeap(p)
    BY <1>1, <1>3, AddHeapCells, SameCells DEF HeapInv
  <1> QED BY <1>2, <1>3 DEF heap

LEMMA ProgramHeap == GCInv /\ TypeInv' /\ Program => HeapInv'
  <1> SUFFICES ASSUME GCInv, TypeInv', Program PROVE HeapInv'
    OBVIOUS
  <1>1. ASSUME NEW x \in roots \cup {Nil}, NEW y \in roots \cup {Nil}, rb_newobj(x, y) \/ Resume(x, y)
        PROVE  HeapInv'
    <2>1. CASE Allocate(x, y) /\ phase \in {"run", "alloc"}
      <3>1. CASE wild
        BY <2>1, <3>1 DEF HeapInv, Allocate
      <3> QED BY <2>1, <3>1, AllocateHeap
    <2>2. CASE phase = "alloc" /\ phase' = "over" /\ UNCHANGED <<heap, program, caller, marking, sweeping>>
      <3>1. CASE wild
        BY <2>2, <3>1 DEF HeapInv, heap
      <3>2. CASE ~wild
        <4>1. CellsOK'
          BY <2>2, <3>2, Quiet DEF CellsOK, heap, sweeping
        <4>2. left = {} /\ mark = {}
          BY <2>2, <3>2, Quiet
        <4> QED BY <2>2, <3>2, <4>1, <4>2, SameCells DEF HeapInv, heap, program, marking, sweeping
      <3> QED BY <3>1, <3>2
    <2> QED BY <1>1, <2>1, <2>2 DEF rb_newobj, Resume, Running
  <1>2. roots \in SUBSET Cell /\ table \in SUBSET Cell /\ finalize \in SUBSET Cell
    BY DEF GCInv, TypeInv, HeapType, ProgramType
  <1>3. Running => /\ \A c \in roots \cup finalize : flags[c] = "object"
                   /\ \A c \in roots : \A s \in {"car", "cdr"} :
                        ref[c][s] # Nil => ref[c][s] \in Cell /\ flags[ref[c][s]] = "object"
    <2> SUFFICES ASSUME Running
                 PROVE  /\ \A c \in roots \cup finalize : flags[c] = "object"
                        /\ \A c \in roots : \A s \in {"car", "cdr"} :
                             ref[c][s] # Nil => ref[c][s] \in Cell /\ flags[ref[c][s]] = "object"
      OBVIOUS
    <2>1. \A c \in roots \cup finalize : flags[c] = "object"
      BY Quiet, ObjectsClosed DEF Running, MarksOK
    <2>2. \A c \in roots : ref[c] \in Refers
      BY <1>2 DEF GCInv, TypeInv, ProgramType
    <2>3. \A c \in roots : \A s \in {"car", "cdr"} : ref[c][s] \in Cell \cup {Nil}
      BY <2>2 DEF Refers
    <2> QED BY <1>2, <2>1, <2>3, ObjectsClosed DEF Running
  <1>4. ASSUME NEW a \in roots, Drop(a) \/ define_final(a) \/ undefine_final(a)
        PROVE  HeapInv'
    <2> USE <1>2, <1>3, <1>4
    <2>1. CASE Drop(a)
      <3>1. Changed(roots \ {a}, table, finalize)
        BY <2>1 DEF Drop
      <3> QED BY <3>1, ChangedHeap DEF Changed
    <2>2. CASE define_final(a)
      <3>1. Changed(roots, table \cup {a}, finalize \cup {a})
        BY <2>2 DEF define_final
      <3>2. Running
        BY <3>1 DEF Changed
      <3>3. /\ table \cup {a} \in SUBSET Cell /\ finalize \cup {a} \in SUBSET Cell
            /\ table \cup {a} \subseteq table \cup (finalize \cup {a})
            /\ \A c \in roots \cup (finalize \cup {a}) \cup ((table \cup {a}) \ table) : flags[c] = "object"
        BY <3>2
      <3> QED BY <3>1, <3>3, ChangedHeap
    <2>3. CASE undefine_final(a)
      <3>1. Changed(roots, table \ {a}, finalize)
        BY <2>3 DEF undefine_final
      <3> QED BY <3>1, ChangedHeap DEF Changed
    <2> QED BY <2>1, <2>2, <2>3
  <1>5. ASSUME NEW a \in roots, NEW b \in roots, rb_gc_copy_finalizer(b, a)
        PROVE  HeapInv'
    <2> DEFINE t == IF a \in table THEN table \cup {b} ELSE table
    <2>1. Changed(roots, t, finalize \cup {b}) /\ t \in SUBSET Cell /\ t \subseteq table \cup {b}
      BY <1>2, <1>5 DEF rb_gc_copy_finalizer
    <2> HIDE DEF t
    <2> QED BY <1>2, <1>3, <2>1, ChangedHeap DEF Changed
  <1>6. ASSUME NEW a \in roots, NEW s \in {"car", "cdr"}, Load(a, s)
        PROVE  HeapInv'
    <2> DEFINE d == ref[a][s]
    <2>1. Changed(roots \cup {d}, table, finalize) /\ d # Nil
      BY <1>6 DEF Load
    <2>2. d \in Cell /\ flags[d] = "object"
      BY <1>3, <2>1 DEF Changed
    <2> HIDE DEF d
    <2> QED BY <1>2, <1>3, <2>1, <2>2, ChangedHeap DEF Changed
  <1>7. ASSUME NEW b \in BOOLEAN, SetDontGC(b)
        PROVE  HeapInv'
    <2> USE <1>7 DEF SetDontGC
    <2>1. \A c : (Survives(c)' <=> Survives(c)) /\ Targets(c)' = Targets(c)
      BY DEF Survives, Targets, heap, sweeping, marking
    <2>2. CellsOK' /\ ListsOK' /\ TableOK' /\ MarksOK' /\ ReachOK' /\ MarkingOK'
      BY <2>1, Quiet DEF Running, CellsOK, ListsOK, In, TableOK, MarksOK, ReachOK, MarkingOK, heap, sweeping, marking
    <2> QED BY <2>2 DEF HeapInv
  <1> QED BY <1>1, <1>4, <1>5, <1>6, <1>7, StoreHeap, CollectHeap, CollectDisabledHeap DEF Program
(* A step of the mark phase leaves the heap alone.                         *)
LEMMA MarkStep ==
    ASSUME GCInv, ~wild, phase = "mark", UNCHANGED <<heap, program, phase, sweeping>>,
           \A c \in mark' : flags[c] = "object", MarkingOK'
    PROVE  HeapInv'
  <1>1. left = {} /\ left' = {}
    BY Quiet DEF sweeping
  <1>2. \A c : (Survives(c)' <=> Survives(c)) /\ Targets(c)' = Targets(c)
    BY <1>1 DEF Survives, Targets, heap, program
  <1>3. CellsOK' /\ ListsOK' /\ TableOK'
    BY <1>1, Quiet DEF CellsOK, ListsOK, In, TableOK, heap, program
  <1>4. MarksOK'
    BY Quiet DEF MarksOK, heap
  <1>5. ReachOK'
    BY <1>2, Quiet DEF ReachOK, program
  <1> QED BY <1>3, <1>4, <1>5 DEF HeapInv

(* Every reference of c has its call, and every call is for a reference.   *)
LEMMA ChildrenNoted ==
    ASSUME NEW c, NEW lev
    PROVE  /\ \A d \in Targets(c) : \E call \in Children(c, lev) : call[1] = d
           /\ \A call \in Children(c, lev) : call[1] \in Targets(c)
  <1> DEFINE a == ref[c].car  b == ref[c].cdr
  <1>1. \A x : <<x, lev, FALSE>>[1] = x /\ <<x, lev, TRUE>>[1] = x
    OBVIOUS
  <1>2. \A x : x # Nil => /\ <<x, lev, FALSE>> \notin {<<Nil, lev, e>> : e \in BOOLEAN}
                         /\ <<x, lev, TRUE>> \notin {<<Nil, lev, e>> : e \in BOOLEAN}
    OBVIOUS
  <1>3. /\ <<Nil, lev, FALSE>> \in {<<Nil, lev, e>> : e \in BOOLEAN}
        /\ <<Nil, lev, TRUE>> \in {<<Nil, lev, e>> : e \in BOOLEAN}
    OBVIOUS
  <1>4. Children(c, lev) = {<<a, lev, FALSE>>, <<b, lev, TRUE>>} \ {<<Nil, lev, e>> : e \in BOOLEAN}
    BY DEF Children
  <1>5. Targets(c) = {a, b} \ {Nil}
    BY DEF Targets
  <1> HIDE DEF a, b
  <1>6. ASSUME NEW d \in Targets(c) PROVE \E call \in Children(c, lev) : call[1] = d
    <2>1. CASE d = a
      <3>1. <<a, lev, FALSE>> \in Children(c, lev)
        BY <1>2, <1>4, <1>5, <1>6, <2>1
      <3> QED BY <1>1, <2>1, <3>1
    <2>2. CASE d = b
      <3>1. <<b, lev, TRUE>> \in Children(c, lev)
        BY <1>2, <1>4, <1>5, <1>6, <2>2
      <3> QED BY <1>1, <2>2, <3>1
    <2> QED BY <1>5, <1>6, <2>1, <2>2
  <1>7. ASSUME NEW call \in Children(c, lev) PROVE call[1] \in Targets(c)
    <2>1. CASE call = <<a, lev, FALSE>>
      BY <1>1, <1>3, <1>4, <1>5, <1>7, <2>1
    <2>2. CASE call = <<b, lev, TRUE>>
      BY <1>1, <1>3, <1>4, <1>5, <1>7, <2>2
    <2> QED BY <1>4, <1>7, <2>1, <2>2
  <1> QED BY <1>6, <1>7

(* The references of a marked object are objects.                          *)
LEMMA ChildObjects ==
    ASSUME GCInv, ~wild, phase = "mark", NEW c \in Cell, flags[c] = "object"
    PROVE  \A d \in Targets(c) : flags[d] = "object"
  BY Quiet DEF ReachOK

LEMMA gc_markHeap ==
    ASSUME GCInv, ~wild, gc_mark
    PROVE  HeapInv'
  <1> USE DEF gc_mark
  <1>1. PICK call \in calls : \/ Skip(call[1], call[2], call[3]) \/ Later(call[1], call[2], call[3])
                              \/ Descend(call[1], call[2], call[3])
    OBVIOUS
  <1> DEFINE c == call[1]  lev == call[2]  again == call[3]
             gone == {<<c, lev, again>>}
             kids == Children(c, IF again THEN lev ELSE lev + 1)
  <1>2. /\ c \in Cell /\ lev \in Nat /\ again \in BOOLEAN /\ gone = {call}
        /\ flags[c] = "object" /\ MarkingOK /\ phase = "mark"
        /\ \A d : Targets(d)' = Targets(d)
    BY CallType, Quiet DEF GCInv, MarkingOK, Targets, program
  <1>3. (\A d \in mark : flags[d] = "object") /\ \A d \in Targets(c) : flags[d] = "object"
    BY <1>2, Quiet, ChildObjects DEF MarksOK
  <1>4. /\ \A d \in Targets(c) : \E k \in kids : k[1] = d
        /\ \A k \in kids : k[1] \in Targets(c)
    BY ChildrenNoted
  <1> HIDE DEF c, lev, again, gone, kids
  <1>5. CASE Skip(c, lev, again)
    <2>1. calls' = calls \ {call} /\ mark' = mark /\ c \in mark /\ UNCHANGED <<mark_stack, overflow>>
      BY <1>2, <1>5 DEF Skip, ToMark, gone
    <2>2. \A d : Noted(d) => Noted(d)'
      BY <2>1 DEF Noted, c
    <2>3. MarkingOK'
      BY <1>2, <2>1, <2>2 DEF MarkingOK, program, heap
    <2> QED BY <1>2, <1>3, <2>1, <2>3, MarkStep
  <1>6. CASE Later(c, lev, again)
    <2>1. calls' = calls \ {call} /\ mark' = mark \cup {c} /\ Push(c)
      BY <1>2, <1>6 DEF Later, gone
    <2>2. \A d : Noted(d) => Noted(d)'
      BY <2>1 DEF Noted, c
    <2>3. /\ overflow' \/ c \in mark_stack'
          /\ mark_stack \subseteq mark_stack' /\ (overflow => overflow')
      BY <2>1 DEF Push
    <2>4. overflow' => mark_stack' # {}
      <3>1. overflow' /\ ~overflow => mark_stack # {}
        <4>1. Cardinality({}) = 0
          BY FS_EmptySet
        <4> SUFFICES ASSUME overflow', ~overflow, mark_stack = {} PROVE FALSE
          OBVIOUS
        <4>2. Cardinality(mark_stack) >= MARK_STACK_MAX
          BY <2>1 DEF Push
        <4> QED BY <4>1, <4>2, GCAssumption
      <3> QED BY <1>2, <2>3, <3>1 DEF MarkingOK
    <2>5. MarkingOK'
      BY <1>2, <2>1, <2>2, <2>3, <2>4 DEF MarkingOK, program, heap
    <2> QED BY <1>2, <1>3, <2>1, <2>5, MarkStep
  <1>7. CASE Descend(c, lev, again)
    <2>1. /\ calls' = (calls \ {call}) \cup kids /\ mark' = mark \cup {c}
          /\ UNCHANGED <<mark_stack, overflow>>
      BY <1>2, <1>7 DEF Descend, gone, kids
    <2>2. (\A d : Noted(d) => Noted(d)') /\ \A d \in Targets(c) : Noted(d)'
      BY <1>4, <2>1 DEF Noted, c
    <2>3. \A k \in calls' : flags'[k[1]] = "object"
      BY <1>2, <1>3, <1>4, <2>1 DEF MarkingOK, heap
    <2>4. MarkingOK'
      BY <1>2, <2>1, <2>2, <2>3 DEF MarkingOK, program
    <2> QED BY <1>2, <1>3, <2>1, <2>4, MarkStep
  <1> QED BY <1>1, <1>5, <1>6, <1>7 DEF c, lev, again

LEMMA MarkAgainHeap ==
    ASSUME GCInv, ~wild, MarkAgain
    PROVE  HeapInv'
  <1> USE DEF MarkAgain
  <1>1. overflow => mark \subseteq InHeap
    <2> SUFFICES ASSUME NEW c \in mark PROVE c \in InHeap
      OBVIOUS
    <2>1. c \in Cell /\ flags[c] = "object"
      BY Quiet DEF MarksOK, GCInv, TypeInv, MarkType
    <2> QED BY <2>1, Quiet DEF CellsOK, InHeap
  <1>2. \A d : (Noted(d)' <=> Noted(d)) /\ Targets(d)' = Targets(d)
    BY DEF Noted, Targets, program
  <1>3. MarkingOK'
    BY <1>1, <1>2, Quiet DEF MarkingOK, heap, program
  <1> QED BY <1>3, Quiet, MarkStep DEF MarksOK

LEMMA ScanNextHeap ==
    ASSUME GCInv, ~wild, NEW c \in Cell, ScanNext(c)
    PROVE  HeapInv'
  <1> USE DEF ScanNext
  <1>1. /\ \A d \in Targets(c) : \E k \in Children(c, 0) : k[1] = d
        /\ \A k \in Children(c, 0) : k[1] \in Targets(c)
    BY ChildrenNoted
  <1>2. \A d : Targets(d)' = Targets(d)
    BY DEF Targets, program
  <1>3. (\A d : Noted(d) => Noted(d)') /\ (c \in mark => \A d \in Targets(c) : Noted(d)')
    <2>1. \A d : Noted(d) => Noted(d)'
      BY DEF Noted
    <2>2. c \in mark => flags[c] = "object"
      BY Quiet DEF MarksOK
    <2> QED BY <1>1, <2>1, <2>2 DEF Noted
  <1>4. \A k \in calls' : flags[k[1]] = "object"
    BY <1>1, ChildObjects
  <1>5. MarkingOK'
    BY <1>2, <1>3, <1>4, Quiet DEF MarkingOK, heap, program
  <1> QED BY <1>5, Quiet, MarkStep DEF MarksOK

LEMMA MarkingHeap == GCInv /\ Marking => HeapInv'
  <1> SUFFICES ASSUME GCInv, Marking, ~wild' PROVE HeapInv'
    BY DEF HeapInv
  <1>1. ~wild
    BY DEF Marking, gc_mark, MarkAgain, ScanNext, heap
  <1> QED BY <1>1, gc_markHeap, MarkAgainHeap, ScanNextHeap DEF Marking
LEMMA SweepStartHeap ==
    ASSUME GCInv, ~wild, SweepStart
    PROVE  HeapInv'
  <1> USE DEF SweepStart
  <1>1. mark \subseteq Cell /\ roots \subseteq Cell /\ UNCHANGED <<mark, roots, ref, lists, table>>
    BY DEF marking, program, GCInv, TypeInv, MarkType, ProgramType
  <1>2. CellsOK'
    BY Quiet DEF CellsOK
  <1>3. ListsOK' /\ TableOK' /\ MarkingOK'
    BY <1>1, Quiet DEF ListsOK, In, TableOK, MarkingOK
  <1>4. \A c \in Cell : flags[c] = "object" => \E p \in left' : c \in Cells[p]
    BY Quiet DEF CellsOK
  <1>5. MarksOK'
    BY <1>1, <1>4, Quiet DEF MarksOK
  <1>6. ReachOK'
    <2>1. \A c \in Cell : Survives(c)' <=> c \in mark
      BY <1>1, <1>4, Quiet DEF Survives, MarksOK
    <2>2. \A d : Noted(d) <=> d \in mark
      BY DEF Noted
    <2>3. /\ \A c \in roots : c \in mark
          /\ \A c \in mark : \A d \in Targets(c) : d \in mark
      BY <2>2, Quiet DEF MarkingOK
    <2>4. \A c : Targets(c)' = Targets(c)
      BY <1>1 DEF Targets
    <2> QED BY <1>1, <2>1, <2>3, <2>4 DEF ReachOK
  <1> QED BY <1>2, <1>3, <1>5, <1>6 DEF HeapInv

LEMMA SweepPageHeap ==
    ASSUME GCInv, NEW p \in Page, SweepPage(p), ~wild'
    PROVE  HeapInv'
  <1> USE DEF SweepPage
  <1>1. /\ ~wild /\ (Unused(p) => Dying(p) = {})
        /\ p \in left /\ p \in heaps /\ p \notin emptied
        /\ heaps \subseteq Page /\ emptied \subseteq heaps /\ left \subseteq heaps \ emptied
        /\ finalize \subseteq Cell /\ mark \subseteq Cell /\ table \subseteq Cell /\ roots \subseteq Cell
        /\ ref \in [Cell -> Refers] /\ flags \in [Cell -> Kinds]
    BY DEF GCInv, TypeInv, HeapType, ProgramType, MarkType, SweepType
  <1>2. CellsOK /\ MarksOK /\ ListsOK /\ TableOK /\ ReachOK
    BY <1>1, Quiet
  <1>3. /\ \A c \in Cells[p] : c \in Cell
        /\ \A c \in Cells[p] : \A q \in Page : c \in Cells[q] => q = p
    BY OnePage, PageCells
  <1>4. /\ \A c : c \in Swept(p) <=> /\ c \in Cells[p]
                                     /\ flags[c] = "zero" \/ (flags[c] = "object" /\ c \notin mark)
        /\ \A c : c \in Dying(p) <=> c \in Swept(p) /\ c \in finalize
    BY DEF Swept, Dying, ToMark
  <1>5. \A c \in Cell : /\ c \in Dying(p) => flags[c] = "object" /\ flags'[c] = "final"
                        /\ c \in Swept(p) \ Dying(p) => flags'[c] = "zero"
                        /\ c \notin Swept(p) => flags'[c] = flags[c]
    BY <1>1, <1>2, <1>4 DEF MarksOK
  <1>6. CellsOK'
    <2> SUFFICES ASSUME NEW c \in Cell PROVE CellsOK!(c)'
      BY DEF CellsOK
    <2>1. CellsOK!(c)
      BY <1>2 DEF CellsOK
    <2>2. heaps' = heaps /\ left' = left \ {p}
      OBVIOUS
    <2>3. CASE c \notin Cells[p]
      <3>1. flags'[c] = flags[c]
        BY <1>4, <1>5, <2>3
      <3>2. c \in freelist' <=> c \in freelist
        BY <1>4, <2>3 DEF FreedCells
      <3>3. (\E q \in emptied' : c \in Cells[q]) <=> (\E q \in emptied : c \in Cells[q])
        BY <2>3
      <3>4. (\E q \in heaps' \ (emptied' \cup left') : c \in Cells[q])
              <=> (\E q \in heaps \ (emptied \cup left) : c \in Cells[q])
        BY <2>2, <2>3
      <3> QED BY <2>1, <2>2, <3>1, <3>2, <3>3, <3>4
    <2>4. CASE c \in Cells[p]
      <3>1. flags[c] # "none" /\ flags'[c] # "none" /\ c \notin freelist
        BY <1>1, <1>3, <1>5, <2>1, <2>4
      <3>2. flags'[c] = "zero" <=> c \in Swept(p) \ Dying(p)
        BY <1>4, <1>5, <2>4
      <3>3. CASE Unused(p)
        <4>1. Swept(p) = Cells[p] /\ Dying(p) = {} /\ emptied' = emptied \cup {p} /\ freelist' = freelist
          BY <1>1, <3>3 DEF Unused, FreedCells
        <4>2. flags'[c] = "zero" /\ ~\E q \in heaps' \ (emptied' \cup left') : c \in Cells[q]
          BY <1>1, <1>3, <2>4, <3>2, <4>1
        <4> QED BY <1>1, <2>2, <2>4, <3>1, <4>1, <4>2
      <3>4. CASE ~Unused(p)
        <4>1. emptied' = emptied /\ freelist' = freelist \cup (Swept(p) \ Dying(p))
          BY <3>4 DEF FreedCells
        <4>2. p \in heaps' \ (emptied' \cup left') /\ ~\E q \in emptied : c \in Cells[q]
          BY <1>1, <1>3, <2>4, <4>1
        <4> QED BY <1>1, <2>2, <2>4, <3>1, <3>2, <4>1, <4>2
      <3> QED BY <3>3, <3>4
    <2> QED BY <2>3, <2>4
  <1>7. MarksOK'
    <2>1. \A c \in mark' \cup finalize' : c \in Cell /\ c \notin Swept(p) /\ flags[c] = "object"
      BY <1>1, <1>2, <1>4 DEF MarksOK
    <2>2. \A c \in mark' : \E q \in left' : c \in Cells[q]
      BY <1>2 DEF MarksOK
    <2> QED BY <1>5, <2>1, <2>2 DEF MarksOK
  <1>8. ListsOK'
    <2>1. \A c \in Cell : flags'[c] = "final" <=> flags[c] = "final" \/ c \in Dying(p)
      BY <1>4, <1>5
    <2>2. \A c \in Dying(p) : c \in Cell /\ flags[c] = "object"
      BY <1>3, <1>4, <1>5
    <2>3. \A c \in Dying(p) : \A i \in 1 .. Len(lists) : ~In(c, i)
      BY <1>2, <2>2 DEF ListsOK
    <2> QED BY <1>2, <2>1, <2>3 DEF ListsOK, In
  <1>9. TableOK'
    BY <1>1, <1>2, <1>4, <1>5 DEF TableOK
  <1>10. ReachOK'
    <2>1. \A c \in Cell : Survives(c)' <=> Survives(c)
      <3> SUFFICES ASSUME NEW c \in Cell PROVE Survives(c)' <=> Survives(c)
        OBVIOUS
      <3>1. CASE c \notin Cells[p]
        BY <1>4, <1>5, <3>1 DEF Survives
      <3>2. CASE c \in Cells[p]
        <4>1. (\A q \in left' : c \notin Cells[q]) /\ ~(\A q \in left : c \notin Cells[q])
          BY <1>1, <1>3, <3>2
        <4>2. flags'[c] = "object" <=> flags[c] = "object" /\ c \in mark
          BY <1>4, <1>5, <3>2
        <4> QED BY <4>1, <4>2 DEF Survives
      <3> QED BY <3>1, <3>2
    <2>2. \A c \in Cell : Survives(c) => c \notin Swept(p)
      BY <1>1, <1>4 DEF Survives
    <2>3. \A c \in Cell : c \notin Swept(p) => Targets(c)' = Targets(c)
      BY <1>1 DEF Targets
    <2>4. \A c \in Cell : Targets(c) \subseteq Cell
      <3> SUFFICES ASSUME NEW c \in Cell PROVE Targets(c) \subseteq Cell
        OBVIOUS
      <3>1. ref[c] \in Refers
        BY <1>1
      <3> QED BY <3>1 DEF Targets, Refers
    <2> QED BY <1>1, <1>2, <2>1, <2>2, <2>3, <2>4 DEF ReachOK
  <1>11. MarkingOK'
    BY DEF MarkingOK
  <1> QED BY <1>6, <1>7, <1>8, <1>9, <1>10, <1>11 DEF HeapInv

(* free_unused_heaps, after some pages have been added, or none            *)
LEMMA UnheapedCells ==
    ASSUME GCInv, ~wild, left = {}, left' = {}, NEW P \in SUBSET (Page \ heaps),
           freelist' = freelist \cup UNION {Cells[p] : p \in P},
           \/ FreeUnusedHeaps(heaps \cup P, Blank(P))
           \/ heaps' = heaps \cup P /\ flags' = Blank(P) /\ UNCHANGED emptied
    PROVE  /\ CellsOK'
           /\ \A c \in Cell : \A k \in {"object", "final"} : flags'[c] = k <=> flags[c] = k
  <1>1. heaps \subseteq Page /\ emptied \subseteq heaps
    BY DEF GCInv, TypeInv, HeapType
  <1> SUFFICES ASSUME NEW c \in Cell
               PROVE  CellsOK!(c)' /\ \A k \in {"object", "final"} : flags'[c] = k <=> flags[c] = k
    BY DEF CellsOK
  <1>2. CellsOK!(c)
    BY Quiet DEF CellsOK
  <1>3. Blank(P)[c] = IF \E p \in P : c \in Cells[p] THEN "zero" ELSE flags[c]
    BY DEF Blank
  <1>4. (\E p \in P : c \in Cells[p]) => flags[c] = "none" /\ ~\E q \in heaps : c \in Cells[q]
    BY <1>1, <1>2, OnePage
  <1>5. \A p, q \in heaps : c \in Cells[p] /\ c \in Cells[q] => p = q
    BY <1>1, OnePage
  <1>6. c \in freelist' <=> c \in freelist \/ \E p \in P : c \in Cells[p]
    OBVIOUS
  <1>7. CASE FreeUnusedHeaps(heaps \cup P, Blank(P))
    <2>1. /\ heaps' = (heaps \cup P) \ emptied /\ emptied' = {}
          /\ flags'[c] = IF \E p \in emptied : c \in Cells[p] THEN "none" ELSE Blank(P)[c]
      BY <1>7 DEF FreeUnusedHeaps, Unheaped
    <2>2. CASE \E p \in P : c \in Cells[p]
      BY <1>1, <1>2, <1>3, <1>4, <1>6, <2>1, <2>2
    <2>3. CASE \E p \in emptied : c \in Cells[p]
      BY <1>1, <1>2, <1>3, <1>4, <1>5, <1>6, <2>1, <2>3
    <2>4. CASE ~(\E p \in P : c \in Cells[p]) /\ ~(\E p \in emptied : c \in Cells[p])
      BY <1>1, <1>2, <1>3, <1>6, <2>1, <2>4
    <2> QED BY <2>2, <2>3, <2>4
  <1>8. CASE heaps' = heaps \cup P /\ flags' = Blank(P) /\ UNCHANGED emptied
    <2>1. CASE \E p \in P : c \in Cells[p]
      BY <1>1, <1>2, <1>3, <1>4, <1>6, <1>8, <2>1
    <2>2. CASE ~\E p \in P : c \in Cells[p]
      BY <1>1, <1>2, <1>3, <1>6, <1>8, <2>2
    <2> QED BY <2>1, <2>2
  <1> QED BY <1>7, <1>8

LEMMA SweepingHeap == GCInv /\ Sweeping => HeapInv'
  <1> SUFFICES ASSUME GCInv, Sweeping, ~wild' PROVE HeapInv'
    BY DEF HeapInv
  <1>1. CASE SweepEnd
    <2> USE <1>1 DEF SweepEnd
    <2>1. ~wild /\ left = {} /\ mark = {} /\ phase' # "mark"
          /\ UNCHANGED <<finalize, deferred, program, mark, left>>
      <3>1. ~wild /\ left = {} /\ phase = "sweep"
        OBVIOUS
      <3> QED BY <3>1, Quiet DEF MarksOK, ReturnTo, marking
    <2>2. PICK P \in AddedHeaps :
             /\ freelist' = freelist \cup UNION {Cells[p] : p \in P}
             /\ \/ FreeUnusedHeaps(heaps \cup P, Blank(P))
                \/ heaps' = heaps \cup P /\ flags' = Blank(P) /\ UNCHANGED emptied
      OBVIOUS
    <2>3. P \in SUBSET (Page \ heaps)
      BY DEF AddedHeaps
    <2>4. /\ CellsOK'
          /\ \A c \in Cell : \A k \in {"object", "final"} : flags'[c] = k <=> flags[c] = k
      BY <2>1, <2>2, <2>3, UnheapedCells
    <2> QED BY <2>1, <2>4, SameCells DEF HeapInv
  <1>2. CASE OutOfMemory
    <2> USE <1>2 DEF OutOfMemory
    <2>1. ~wild /\ left = {} /\ left' = {} /\ phase' # "mark"
          /\ UNCHANGED <<heaps, emptied, freelist, flags, finalize, deferred, program, mark>>
      BY DEF heap, marking, sweeping
    <2>2. mark = {}
      BY <2>1, Quiet DEF MarksOK
    <2>3. CellsOK'
      BY <2>1, Quiet DEF CellsOK
    <2> QED BY <2>1, <2>2, <2>3, SameCells DEF HeapInv
  <1>3. CASE SweepStart
    BY <1>3, SweepStartHeap DEF SweepStart
  <1> QED BY <1>1, <1>2, <1>3, SweepPageHeap DEF Sweeping
LEMMA FinalizeDeferredHeap ==
    ASSUME GCInv, ~wild, rb_gc_finalize_deferred
    PROVE  HeapInv'
  <1> USE DEF rb_gc_finalize_deferred
  <1>1. /\ left = {} /\ mark = {} /\ left' = {} /\ mark' = {}
        /\ lists \in Seq(Lists) /\ deferred \in SUBSET Cell /\ table \in SUBSET Cell /\ Nil \notin Cell
    BY Quiet, GCAssumption DEF Running, marking, sweeping, GCInv, TypeInv, HeapType, ProgramType
  <1>2. CellsOK' /\ TableOK'
    BY <1>1, Quiet DEF CellsOK, TableOK
  <1>3. MarksOK' /\ ReachOK' /\ MarkingOK'
    BY <1>1, SameObjects
  <1>4. ListsOK'
    <2>1. ListsOK
      BY Quiet
    <2>2. CASE deferred = {} /\ UNCHANGED lists
      BY <2>1, <2>2 DEF ListsOK, In
    <2>3. CASE lists' = <<[cell |-> Nil, rest |-> deferred]>> \o lists
      <3> DEFINE n == [cell |-> Nil, rest |-> deferred]
      <3>1. lists' \in Seq(Lists)
        <4>1. n \in Lists
          BY <1>1 DEF Lists
        <4> QED BY <1>1, <2>3, <4>1
      <3>2. /\ Len(lists') = Len(lists) + 1 /\ Len(lists) \in Nat
            /\ lists'[1] = n
            /\ \A i \in 1 .. Len(lists) : lists'[i + 1] = lists[i]
            /\ \A i \in 2 .. Len(lists') : lists'[i] = lists[i - 1]
        BY <1>1, <2>3, <3>1, NewList
      <3>3. /\ \A c \in Cell : In(c, 1)' <=> c \in deferred
            /\ lists'[1].cell \notin lists'[1].rest \cup table
        BY <1>1, <3>2 DEF In
      <3>4. \A i \in 2 .. Len(lists') : /\ i - 1 \in 1 .. Len(lists)
                                        /\ \A c \in Cell : In(c, i)' <=> In(c, i - 1)
                                        /\ lists'[i].cell \notin lists'[i].rest \cup table
        BY <2>1, <3>2 DEF In, ListsOK
      <3>5. \A i \in 1 .. Len(lists) : /\ i + 1 \in 2 .. Len(lists') /\ i + 1 \in 1 .. Len(lists')
                                       /\ \A c \in Cell : In(c, i + 1)' <=> In(c, i)
        BY <3>2 DEF In
      <3>6. \A i \in 1 .. Len(lists') : i = 1 \/ i \in 2 .. Len(lists')
        BY <3>2
      <3>7. 1 \in 1 .. Len(lists')
        BY <3>2
      <3>8. \A c \in Cell : flags'[c] = "final" <=> c \in deferred' \/ \E i \in 1 .. Len(lists') : In(c, i)'
        BY <2>1, <3>3, <3>4, <3>5, <3>6, <3>7, SMTT(30) DEF ListsOK
      <3>9. ASSUME NEW c \in Cell, NEW i \in 1 .. Len(lists'), NEW j \in 1 .. Len(lists'), In(c, i)', In(c, j)'
            PROVE  i = j
        <4>1. CASE i = 1 /\ j = 1
          BY <4>1
        <4>2. CASE i = 1 /\ j \in 2 .. Len(lists')
          BY <2>1, <3>3, <3>4, <3>9, <4>2 DEF ListsOK
        <4>3. CASE i \in 2 .. Len(lists') /\ j = 1
          BY <2>1, <3>3, <3>4, <3>9, <4>3 DEF ListsOK
        <4>4. CASE i \in 2 .. Len(lists') /\ j \in 2 .. Len(lists')
          <5>1. i - 1 = j - 1
            BY <2>1, <3>4, <3>9, <4>4 DEF ListsOK
          <5> QED BY <5>1, <3>2
        <4> QED BY <3>6, <4>1, <4>2, <4>3, <4>4
      <3>10. \A i \in 1 .. Len(lists') : lists'[i].cell \notin lists'[i].rest \cup table'
        BY <3>3, <3>4, <3>6
      <3> QED BY <3>8, <3>9, <3>10 DEF ListsOK
    <2> QED BY <2>2, <2>3
  <1> QED BY <1>2, <1>3, <1>4 DEF HeapInv

LEMMA RunFinalHeap ==
    ASSUME GCInv, ~wild, NEW c \in Cell, RunFinal(c)
    PROVE  HeapInv'
  <1> USE DEF RunFinal
  <1>1. /\ left = {} /\ mark = {} /\ left' = {} /\ mark' = {} /\ phase = "run"
        /\ lists \in Seq(Lists) /\ Nil \notin Cell
        /\ UNCHANGED <<heaps, emptied, flags, finalize, freelist, deferred>>
    BY Quiet, GCAssumption DEF Walking, marking, sweeping, heap, GCInv, TypeInv, HeapType, ProgramType
  <1>2. CellsOK' /\ TableOK'
    BY <1>1, Quiet DEF CellsOK, TableOK
  <1>3. MarksOK' /\ ReachOK' /\ MarkingOK'
    BY <1>1, SameObjects
  <1>4. ListsOK'
    <2>1. ListsOK
      BY Quiet
    <2>2. 1 \in 1 .. Len(lists) /\ lists[1].cell = Nil /\ c \in lists[1].rest
      BY <1>1, ListElement DEF Walking
    <2>3. /\ Len(lists') = Len(lists)
          /\ lists'[1] = [cell |-> c, rest |-> lists[1].rest \ {c}]
          /\ \A i \in 1 .. Len(lists) : i # 1 => lists'[i] = lists[i]
      <3> DEFINE n == [cell |-> c, rest |-> lists[1].rest \ {c}]
      <3>1. lists' = [lists EXCEPT ![1] = n]
        OBVIOUS
      <3> HIDE DEF RunFinal, n
      <3>2. Len(lists') = Len(lists) /\ lists'[1] = n /\ \A i \in 1 .. Len(lists) : i # 1 => lists'[i] = lists[i]
        BY <1>1, <2>2, <3>1
      <3> QED BY <3>2 DEF n
    <2>4. \A i \in 1 .. Len(lists) : \A d \in Cell : In(d, i)' <=> In(d, i)
      BY <1>1, <2>2, <2>3 DEF In
    <2>5. \A i \in 1 .. Len(lists) : lists'[i].cell \notin lists'[i].rest \cup table'
      BY <2>1, <2>3 DEF ListsOK
    <2>6. deferred \subseteq Cell
      BY DEF GCInv, TypeInv, HeapType
    <2> QED BY <1>1, <2>1, <2>3, <2>4, <2>5, <2>6 DEF ListsOK
  <1> QED BY <1>2, <1>3, <1>4 DEF HeapInv

LEMMA FinalReturnsHeap ==
    ASSUME GCInv, ~wild, FinalReturns
    PROVE  HeapInv'
  <1> USE DEF FinalReturns
  <1> DEFINE c == Head(lists).cell
  <1>1. /\ left = {} /\ mark = {} /\ left' = {} /\ mark' = {} /\ phase = "run"
        /\ lists \in Seq(Lists) /\ Nil \notin Cell /\ flags \in [Cell -> Kinds]
        /\ table \subseteq Cell /\ deferred \subseteq Cell
        /\ heaps \subseteq Page /\ emptied \subseteq heaps
    BY Quiet, GCAssumption DEF Walking, marking, sweeping, GCInv, TypeInv, HeapType, ProgramType
  <1>2. 1 \in 1 .. Len(lists) /\ lists[1].cell = c /\ c \in Cell /\ lists[1] \in Lists
    BY <1>1, ListElement DEF Walking
  <1>3. ListsOK
    BY Quiet
  <1>4. flags[c] = "final" /\ c \notin table
    BY <1>2, <1>3 DEF ListsOK, In
  <1>5. /\ flags' = [flags EXCEPT ![c] = "zero"]
        /\ freelist' = freelist \cup {c}
    OBVIOUS
  <1> HIDE DEF c
  <1>6. flags'[c] = "zero" /\ \A d \in Cell : d # c => flags'[d] = flags[d]
    BY <1>1, <1>2, <1>5
  <1>7. CellsOK'
    <2> SUFFICES ASSUME NEW d \in Cell PROVE CellsOK!(d)'
      BY DEF CellsOK
    <2>1. CellsOK!(d)
      BY Quiet DEF CellsOK
    <2> QED BY <1>1, <1>4, <1>5, <1>6, <2>1
  <1>8. MarksOK' /\ ReachOK' /\ MarkingOK'
    <2>1. \A d \in Cell : flags'[d] = "object" <=> flags[d] = "object"
      BY <1>4, <1>6
    <2> QED BY <1>1, <2>1, SameObjects
  <1>9. TableOK'
    BY <1>1, <1>4, <1>6, Quiet DEF TableOK
  <1>10. ListsOK'
    <2>1. /\ Len(lists') = Len(lists)
          /\ lists'[1] = [cell |-> Nil, rest |-> lists[1].rest]
          /\ \A i \in 1 .. Len(lists) : i # 1 => lists'[i] = lists[i]
      <3>1. [lists[1] EXCEPT !.cell = Nil] = [cell |-> Nil, rest |-> lists[1].rest]
        BY <1>2 DEF Lists
      <3>2. lists' = [lists EXCEPT ![1] = [lists[1] EXCEPT !.cell = Nil]]
        OBVIOUS
      <3> QED BY <1>1, <1>2, <3>1, <3>2
    <2>2. c \notin lists[1].rest /\ Nil \notin table /\ lists[1].rest \subseteq Cell
      BY <1>1, <1>2, <1>3 DEF ListsOK, Lists
    <2>3. \A i \in 1 .. Len(lists) : \A d \in Cell : In(d, i)' <=> In(d, i) /\ d # c
      <3> SUFFICES ASSUME NEW i \in 1 .. Len(lists), NEW d \in Cell PROVE In(d, i)' <=> In(d, i) /\ d # c
        OBVIOUS
      <3>1. CASE i = 1
        BY <1>1, <1>2, <2>1, <2>2, <3>1 DEF In
      <3>2. CASE i # 1
        <4>1. ~In(c, i)
          BY <1>2, <1>3, <3>2 DEF ListsOK, In
        <4> QED BY <2>1, <3>2, <4>1 DEF In
      <3> QED BY <3>1, <3>2
    <2>4. \A i \in 1 .. Len(lists) : lists'[i].cell \notin lists'[i].rest \cup table'
      BY <1>1, <1>3, <2>1, <2>2 DEF ListsOK
    <2>5. c \notin deferred
      BY <1>2, <1>3 DEF ListsOK, In
    <2>6. \A d \in Cell : flags'[d] = "final" <=> flags[d] = "final" /\ d # c
      BY <1>6
    <2> QED BY <1>1, <1>3, <2>1, <2>3, <2>4, <2>5, <2>6 DEF ListsOK
  <1> QED BY <1>7, <1>8, <1>9, <1>10 DEF HeapInv

LEMMA FinalizeEndHeap ==
    ASSUME GCInv, ~wild, FinalizeEnd
    PROVE  HeapInv'
  <1> USE DEF FinalizeEnd
  <1>1. /\ left = {} /\ mark = {} /\ left' = {} /\ mark' = {} /\ phase = "run"
        /\ lists \in Seq(Lists) /\ lists # << >> /\ Nil \notin Cell
        /\ table \subseteq Cell /\ deferred \subseteq Cell /\ flags \in [Cell -> Kinds]
    BY Quiet, GCAssumption DEF Walking, marking, sweeping, GCInv, TypeInv, HeapType, ProgramType
  <1>2. /\ CellsOK'
        /\ \A c \in Cell : \A k \in {"object", "final"} : flags'[c] = k <=> flags[c] = k
    <2>1. Blank({}) = flags /\ heaps \cup {} = heaps
      <3>1. Blank({}) = [c \in Cell |-> flags[c]]
        BY DEF Blank
      <3> QED BY <1>1, <3>1
    <2>2. freelist' = freelist \cup UNION {Cells[p] : p \in {}}
      OBVIOUS
    <2>3. FreeUnusedHeaps(heaps \cup {}, Blank({})) /\ {} \in SUBSET (Page \ heaps)
      BY <2>1
    <2> QED BY <1>1, <2>2, <2>3, UnheapedCells
  <1>3. MarksOK' /\ ReachOK' /\ MarkingOK'
    BY <1>1, <1>2, SameObjects
  <1>4. TableOK'
    BY <1>1, <1>2, Quiet DEF TableOK
  <1>5. ListsOK'
    <2>1. ListsOK
      BY Quiet
    <2>2. /\ lists[1] = Idle /\ Len(lists) \in Nat /\ Len(lists) >= 1
          /\ Len(lists') = Len(lists) - 1
          /\ \A i \in 1 .. Len(lists') : lists'[i] = lists[i + 1]
      BY <1>1
    <2>3. \A c \in Cell : ~In(c, 1)
      BY <1>1, <2>2 DEF In, Idle
    <2>4. \A i \in 1 .. Len(lists') : /\ i + 1 \in 1 .. Len(lists)
                                      /\ \A c : In(c, i)' <=> In(c, i + 1)
                                      /\ lists'[i].cell \notin lists'[i].rest \cup table'
      BY <2>1, <2>2 DEF In, ListsOK
    <2>5. \A c \in Cell : \A i \in 1 .. Len(lists) : In(c, i) => i - 1 \in 1 .. Len(lists') /\ In(c, i - 1)'
      <3> SUFFICES ASSUME NEW c \in Cell, NEW i \in 1 .. Len(lists), In(c, i)
                   PROVE  i - 1 \in 1 .. Len(lists') /\ In(c, i - 1)'
        OBVIOUS
      <3>1. i # 1
        BY <2>3
      <3>2. i - 1 \in 1 .. Len(lists') /\ (i - 1) + 1 = i
        BY <2>2, <3>1
      <3> QED BY <2>4, <3>2
    <2>6. ASSUME NEW c \in Cell, NEW i \in 1 .. Len(lists'), NEW j \in 1 .. Len(lists'), In(c, i)', In(c, j)'
          PROVE  i = j
      <3>1. i + 1 = j + 1
        BY <2>1, <2>4, <2>6 DEF ListsOK
      <3> QED BY <3>1, <2>2
    <2>7. \A c \in Cell : flags'[c] = "final" <=> c \in deferred' \/ \E i \in 1 .. Len(lists') : In(c, i)'
      BY <1>2, <2>1, <2>4, <2>5 DEF ListsOK
    <2>8. \A c \in deferred' : \A i \in 1 .. Len(lists') : ~In(c, i)'
      BY <2>1, <2>4 DEF ListsOK
    <2> QED BY <2>4, <2>6, <2>7, <2>8 DEF ListsOK
  <1> QED BY <1>2, <1>3, <1>4, <1>5 DEF HeapInv

LEMMA FinalizingHeap == GCInv /\ Finalizing => HeapInv'
  <1> SUFFICES ASSUME GCInv, Finalizing, ~wild' PROVE HeapInv'
    BY DEF HeapInv
  <1>1. ~wild
    BY DEF Finalizing, rb_gc_finalize_deferred, RunFinal, FinalReturns, FinalizeEnd, heap
  <1> QED BY <1>1, FinalizeDeferredHeap, RunFinalHeap, FinalReturnsHeap, FinalizeEndHeap DEF Finalizing

LEMMA GCInvStep == GCInv /\ [Next]_vars => GCInv'
  <1> SUFFICES ASSUME GCInv, [Next]_vars PROVE GCInv'
    OBVIOUS
  <1>1. TypeInv'
    BY TypeStep DEF GCInv
  <1>2. CASE Next
    BY <1>1, <1>2, ProgramHeap, MarkingHeap, SweepingHeap, FinalizingHeap DEF Next, GCInv
  <1>3. CASE UNCHANGED vars
    <2>1. HeapInv'
      BY <1>3 DEF GCInv, HeapInv, CellsOK, MarksOK, ListsOK, In, TableOK, ReachOK, Survives, Targets, MarkingOK,
                  Noted, vars, heap, program, marking, sweeping
    <2> QED BY <1>1, <2>1 DEF GCInv
  <1> QED BY <1>2, <1>3

LEMMA Invariant == Spec => []GCInv
  <1>1. Init => GCInv
    BY InitType, InitHeap DEF GCInv
  <1> QED BY <1>1, GCInvStep, PTL DEF Spec

-----------------------------------------------------------------------------
(* The theorems                                                            *)

LEMMA InLists ==
    ASSUME GCInv
    PROVE  /\ \A i \in 1 .. Len(lists) : Members(lists[i]) = {c \in Cell : In(c, i)}
           /\ Listed = {c \in Cell : \E i \in 1 .. Len(lists) : In(c, i)}
  <1>1. ASSUME NEW i \in 1 .. Len(lists) PROVE Members(lists[i]) = {c \in Cell : In(c, i)}
    <2>1. lists[i] \in Lists
      BY DEF GCInv, TypeInv, ProgramType
    <2>2. lists[i].rest \subseteq Cell /\ lists[i].cell \in Cell \cup {Nil} /\ Nil \notin Cell
      BY <2>1, GCAssumption DEF Lists
    <2> QED BY <2>2 DEF Members, In
  <1>2. Listed = {c \in Cell : \E i \in 1 .. Len(lists) : In(c, i)}
    BY <1>1 DEF Listed
  <1> QED BY <1>1, <1>2

(* The cells are accounted for, whatever the program, the collector and    *)
(* the finalizers do (rb_newobj, gc_sweep, finalize_list, add_heap and     *)
(* free_unused_heaps): a cell is on the freelist exactly if it is free and *)
(* its page stays, and a dead object is in one list of those to be         *)
(* finalized, never in two, also when a finalizer collects garbage again.  *)
THEOREM HeapCorrect == Spec => []HeapOK
  <1>1. GCInv => HeapOK
    <2> SUFFICES ASSUME GCInv PROVE HeapOK
      OBVIOUS
    <2>1. /\ heaps \subseteq Page /\ emptied \subseteq heaps \ {heap0} /\ heap0 \in heaps
          /\ flags \in [Cell -> {"none", "zero", "object", "final"}]
          /\ ref \in [Cell -> [car : Cell \cup {Nil}, cdr : Cell \cup {Nil}]]
          /\ phase \in Phases /\ caller \in Callers
      BY DEF GCInv, TypeInv, HeapType, ProgramType, Kinds, Refers
    <2>2. ASSUME ~wild
          PROVE  /\ InHeap = {c \in Cell : flags[c] # "none"} \ UNION {Cells[p] : p \in emptied}
                 /\ phase # "sweep" => freelist = {c \in InHeap : flags[c] = "zero"}
                 /\ {c \in Cell : flags[c] = "final"} = deferred \cup Listed
                 /\ \A i \in 1 .. Len(lists) : Members(lists[i]) \cap deferred = {}
                 /\ \A i, j \in 1 .. Len(lists) : i # j => Members(lists[i]) \cap Members(lists[j]) = {}
      <3>1. CellsOK /\ ListsOK /\ deferred \subseteq Cell /\ freelist \subseteq Cell
        BY <2>2, Quiet DEF GCInv, TypeInv, HeapType
      <3>2. \A c \in Cell : (\E p \in emptied : c \in Cells[p]) => ~\E p \in heaps \ emptied : c \in Cells[p]
        BY <2>1, OnePage
      <3>3. InHeap = {c \in Cell : flags[c] # "none"} \ UNION {Cells[p] : p \in emptied}
        BY <2>1, <3>1, <3>2 DEF CellsOK, InHeap
      <3>4. phase # "sweep" => freelist = {c \in InHeap : flags[c] = "zero"}
        BY <2>2, <3>1, Quiet DEF CellsOK, InHeap
      <3>5. {c \in Cell : flags[c] = "final"} = deferred \cup Listed
        BY <3>1, InLists DEF ListsOK
      <3>6. \A i \in 1 .. Len(lists) : Members(lists[i]) \cap deferred = {}
        BY <3>1, InLists DEF ListsOK
      <3>7. \A i, j \in 1 .. Len(lists) : i # j => Members(lists[i]) \cap Members(lists[j]) = {}
        BY <3>1, InLists DEF ListsOK
      <3> QED BY <3>3, <3>4, <3>5, <3>6, <3>7
    <2> QED BY <2>1, <2>2 DEF HeapOK
  <1> QED BY <1>1, Invariant, PTL

(* An object the program can reach is never freed: for every graph of      *)
(* objects, every level limit of gc_mark and every size of the mark stack, *)
(* however often it overflows, and in the middle of a sweep as well.       *)
THEOREM NothingLost == Spec => []ReachableKept
  <1>1. GCInv => ReachableKept
    <2> SUFFICES ASSUME GCInv, ~wild, NEW c \in Cell, Reachable(c) PROVE flags[c] = "object"
      BY DEF ReachableKept
    <2> DEFINE S == {d \in Cell : Survives(d)}
    <2>1. ReachOK /\ roots \subseteq Cell /\ ref \in [Cell -> Refers]
      BY Quiet DEF GCInv, TypeInv, ProgramType
    <2>2. roots \subseteq S
      BY <2>1 DEF ReachOK
    <2>3. Closed(S)
      <3> SUFFICES ASSUME NEW d \in S PROVE {ref[d].car, ref[d].cdr} \subseteq S \cup {Nil}
        BY DEF Closed
      <3>1. ref[d] \in Refers
        BY <2>1
      <3>2. ref[d].car \in Cell \cup {Nil} /\ ref[d].cdr \in Cell \cup {Nil}
        BY <3>1 DEF Refers
      <3>3. \A e \in Targets(d) : Survives(e)
        BY <2>1 DEF ReachOK
      <3> QED BY <3>2, <3>3 DEF Targets
    <2>4. c \in S
      <3>1. S \in SUBSET Cell
        OBVIOUS
      <3> HIDE DEF S
      <3> QED BY <2>2, <2>3, <3>1 DEF Reachable
    <2> QED BY <2>4 DEF Survives
  <1> QED BY <1>1, Invariant, PTL

(* A finalizer that is defined is not lost and does not pass to the next   *)
(* object in the cell (define_final, run_final and gc_sweep).              *)
THEOREM FinalizersKept == Spec => []FinalizerKept
  <1>1. GCInv => FinalizerKept
    <2> SUFFICES ASSUME GCInv, ~wild, NEW c \in table
                 PROVE  \/ flags[c] = "object" /\ c \in finalize
                        \/ flags[c] = "final" /\ c \in deferred \cup Listed
      BY DEF FinalizerKept
    <2>1. TableOK /\ ListsOK /\ c \in Cell
      BY Quiet DEF GCInv, TypeInv, ProgramType
    <2> QED BY <2>1, InLists DEF TableOK, ListsOK
  <1> QED BY <1>1, Invariant, PTL
=============================================================================
