--------------------------------- MODULE GC ---------------------------------
(***************************************************************************)
(* The garbage collector of ruby/gc.c: allocation from the freelist, the   *)
(* mark phase with its level limit, mark stack and overflow, the sweep     *)
(* page by page, and finalizers, which are Ruby code that runs while the   *)
(* list of dead objects is walked.                                         *)
(*                                                                         *)
(* An object has two references: car, marked by a call of gc_mark, and     *)
(* cdr, marked by the jump to "again" that ends gc_mark_children.  Lists   *)
(* whose order does not matter (the freelist, the final lists, the mark    *)
(* stack, the pending calls of gc_mark) are sets.                          *)
(***************************************************************************)
EXTENDS Naturals, FiniteSets, Sequences

CONSTANTS Cell, Page,
          Cells,           \* the cells of a page
          heap0,           \* heaps[0], the first page
          MARK_STACK_MAX, GC_LEVEL_MAX, FREE_MIN,
          MaxNesting,      \* bound: finalizers that run inside one another
          MaxRefs,         \* bound: references between objects
          MaxFinalRefs,    \* bound: the same, when finalizers or GC.disable are used
          Nil

ASSUME GCAssumption ==
    /\ Cells \in [Page -> SUBSET Cell]
    /\ \A p, q \in Page : p # q => Cells[p] \cap Cells[q] = {}
    /\ \A p \in Page : IsFiniteSet(Cells[p]) /\ Cells[p] # {}
    /\ heap0 \in Page
    /\ MARK_STACK_MAX \in Nat \ {0} /\ GC_LEVEL_MAX \in Nat /\ FREE_MIN \in Nat
    /\ MaxNesting \in Nat /\ MaxRefs \in Nat /\ MaxFinalRefs \in Nat
    /\ Nil \notin Cell

VARIABLES heaps,       \* the pages
          emptied,     \* those whose limit is 0, to be freed
          flags,       \* of a cell: "none" outside of the heap, "zero" when it is
                       \* free, "object", or "final": FL_MARK and nothing else
          finalize,    \* the objects with FL_FINALIZE
          ref,         \* the references of an object
          roots,       \* what the machine stack and the other roots refer to
          freelist,
          deferred,    \* deferred_final_list, and final_list during a sweep
          lists,       \* the calls of finalize_list, the innermost first: the
                       \* cell whose finalizer runs, and the rest of the list
          table,       \* the objects with an entry in finalizer_table
          dont_gc,
          phase,       \* "run", "mark", "sweep", "finalize", "alloc" or "over"
          caller,      \* of garbage_collect, while it runs ("malloc" otherwise)
          mark,        \* the objects with FL_MARK
          calls,       \* the calls of gc_mark that are still to be made
          scan,        \* the cells gc_mark_rest or gc_mark_all still visits
          mark_stack, overflow,
          left,        \* the pages that are still to be swept
          freed,       \* the cells freed so far by the sweep
          wild         \* a page with objects to be finalized has been emptied

heap == <<heaps, emptied, flags, finalize, freelist, deferred, wild>>
program == <<ref, roots, lists, table, dont_gc>>
marking == <<mark, calls, scan, mark_stack, overflow>>
sweeping == <<left, freed>>
vars == <<heap, program, phase, caller, marking, sweeping>>

NoRefs == [car |-> Nil, cdr |-> Nil]
Idle == [cell |-> Nil, rest |-> {}]
Phases == {"run", "mark", "sweep", "finalize", "alloc", "over"}
Callers == {"newobj", "malloc", "rb_gc"}

(* After Init_heap. *)
Init ==
    /\ heaps = {heap0} /\ emptied = {}
    /\ flags = [c \in Cell |-> IF c \in Cells[heap0] THEN "zero" ELSE "none"]
    /\ finalize = {}
    /\ ref = [c \in Cell |-> NoRefs]
    /\ roots = {}
    /\ freelist = Cells[heap0]
    /\ deferred = {} /\ lists = << >> /\ table = {}
    /\ dont_gc = FALSE
    /\ phase = "run" /\ caller = "malloc"
    /\ mark = {} /\ calls = {} /\ scan = {} /\ mark_stack = {} /\ overflow = FALSE
    /\ left = {} /\ freed = 0
    /\ wild = FALSE

-----------------------------------------------------------------------------
(* The program: it works on what its stack refers to.  In a finalizer it   *)
(* does the same.  What it does after a write behind the end of a page is  *)
(* undefined and left out.                                                 *)

Running == phase = "run" /\ ~wild /\ (lists # << >> => Head(lists).cell # Nil)

(* The bounds on references.                                               *)
Refs(r) == Cardinality({x \in Cell \X {"car", "cdr"} : r[x[1]][x[2]] # Nil})
MayRefer(r) == Refs(r) <= IF finalize # {} \/ dont_gc THEN MaxFinalRefs ELSE MaxRefs

(* rb_newobj, with the references the new object is given *)
Allocate(x, y) ==
    \E c \in freelist :
        /\ freelist' = freelist \ {c}
        /\ flags' = [flags EXCEPT ![c] = "object"]
        /\ ref' = [ref EXCEPT ![c] = [car |-> x, cdr |-> y]]
        /\ MayRefer(ref')
        /\ roots' = roots \cup {c}
        /\ phase' = "run"
        /\ UNCHANGED <<heaps, emptied, finalize, deferred, wild, lists, table, dont_gc,
                       caller, marking, sweeping>>
rb_newobj(x, y) == Running /\ freelist # {} /\ Allocate(x, y)

(* ... after garbage_collect; it does not look whether the freelist is     *)
(* empty still.                                                            *)
Resume(x, y) ==
    \/ phase = "alloc" /\ freelist # {} /\ Allocate(x, y)
    \/ /\ phase = "alloc" /\ freelist = {}
       /\ phase' = "over"
       /\ UNCHANGED <<heap, program, caller, marking, sweeping>>

Changed(r, t, f) ==
    /\ Running
    /\ roots' = r /\ table' = t /\ finalize' = f
    /\ UNCHANGED <<heaps, emptied, flags, freelist, deferred, wild, ref, lists, dont_gc,
                   phase, caller, marking, sweeping>>
Load(a, s) == ref[a][s] # Nil /\ Changed(roots \cup {ref[a][s]}, table, finalize)
Drop(a) == Changed(roots \ {a}, table, finalize)
Store(a, s, b) ==
    /\ Running
    /\ ref' = [ref EXCEPT ![a][s] = b]
    /\ MayRefer(ref')
    /\ UNCHANGED <<heap, roots, lists, table, dont_gc, phase, caller, marking, sweeping>>

(* ObjectSpace.define_finalizer and undefine_finalizer, and clone *)
define_final_unflagged(a) == Changed(roots, table \cup {a}, finalize)   \* mutant: no flag
define_final(a) == Refs(ref) <= MaxFinalRefs /\ Changed(roots, table \cup {a}, finalize \cup {a})
undefine_final(a) == Refs(ref) <= MaxFinalRefs /\ Changed(roots, table \ {a}, finalize)
rb_gc_copy_finalizer(d, a) ==
    /\ a \in finalize
    /\ Changed(roots, IF a \in table THEN table \cup {d} ELSE table, finalize \cup {d})

(* GC.disable and GC.enable *)
SetDontGC(b) ==
    /\ Running /\ Refs(ref) <= MaxFinalRefs
    /\ dont_gc' = b
    /\ UNCHANGED <<heap, ref, roots, lists, table, phase, caller, marking, sweeping>>

-----------------------------------------------------------------------------
(* The mark phase.                                                         *)

(* add_heap: a new page, all of it on the freelist; rb_memerror when there *)
(* is none.                                                                *)
AddHeap(p) ==
    /\ p \in Page \ heaps
    /\ heaps' = heaps \cup {p}
    /\ flags' = [c \in Cell |-> IF c \in Cells[p] THEN "zero" ELSE flags[c]]
    /\ freelist' = freelist \cup Cells[p]

ReturnTo(r) == IF r = "newobj" THEN "alloc" ELSE IF r = "rb_gc" THEN "finalize" ELSE "run"

(* garbage_collect, called by rb_newobj, by xmalloc or by rb_gc: the calls *)
(* of gc_mark for the roots, at level 0                                    *)
Collect(r) ==
    /\ Running /\ ~dont_gc
    /\ r = "newobj" => freelist = {}
    /\ phase' = "mark" /\ caller' = r
    /\ calls' = {<<c, 0, FALSE>> : c \in roots}
    /\ mark_stack' = {} /\ overflow' = FALSE
    /\ UNCHANGED <<heap, program, mark, scan, sweeping>>

(* With GC disabled it only sees to it that there is a free cell.          *)
CollectDisabled(r) ==
    /\ Running /\ dont_gc
    /\ r = "newobj" => freelist = {}
    /\ \/ /\ freelist # {}
          /\ phase' = ReturnTo(r)
          /\ UNCHANGED heap
       \/ /\ freelist = {}
          /\ \/ \E p \in Page : AddHeap(p) /\ phase' = ReturnTo(r)
             \/ heaps = Page /\ phase' = "over" /\ UNCHANGED <<heaps, flags, freelist>>
          /\ UNCHANGED <<emptied, finalize, deferred, wild>>
    /\ UNCHANGED <<program, caller, marking, sweeping>>

(* gc_mark_children: what it calls gc_mark for, at level lev, and the      *)
(* reference it jumps to "again" with *)
Children(c, lev) ==
    {<<ref[c].car, lev, FALSE>>, <<ref[c].cdr, lev, TRUE>>} \ {<<Nil, lev, b>> : b \in BOOLEAN}

(* A cell that is free, or marked (a cell to be finalized is), is left.    *)
ToMark(c) == flags[c] = "object" /\ c \notin mark

(* gc_mark(c, lev), or "again" with c.  Too deep a call, by its level or   *)
(* for ruby_stack_check, leaves the children for later.                    *)
Push(c) ==
    \/ overflow /\ UNCHANGED <<mark_stack, overflow>>
    \/ /\ ~overflow /\ Cardinality(mark_stack) < MARK_STACK_MAX
       /\ mark_stack' = mark_stack \cup {c}
       /\ UNCHANGED overflow
    \/ /\ ~overflow /\ Cardinality(mark_stack) >= MARK_STACK_MAX
       /\ overflow' = TRUE
       /\ UNCHANGED mark_stack

Skip(c, lev, again) ==
    /\ ~ToMark(c)
    /\ calls' = calls \ {<<c, lev, again>>}
    /\ UNCHANGED <<mark, mark_stack, overflow>>
Later(c, lev, again) ==
    /\ ToMark(c) /\ ~again /\ (lev > GC_LEVEL_MAX \/ lev = 0)
    /\ mark' = mark \cup {c}
    /\ calls' = calls \ {<<c, lev, again>>}
    /\ Push(c)
DescendUnmarked(c, lev, again) ==   \* mutant: the mark is set after the children
    /\ ToMark(c) /\ (again \/ lev <= GC_LEVEL_MAX)
    /\ calls' = (calls \ {<<c, lev, again>>}) \cup Children(c, IF again THEN lev ELSE lev + 1)
    /\ UNCHANGED <<mark, mark_stack, overflow>>
Descend(c, lev, again) ==
    /\ ToMark(c) /\ (again \/ lev <= GC_LEVEL_MAX)
    /\ mark' = mark \cup {c}
    /\ calls' = (calls \ {<<c, lev, again>>}) \cup Children(c, IF again THEN lev ELSE lev + 1)
    /\ UNCHANGED <<mark_stack, overflow>>
gc_mark ==
    /\ phase = "mark"
    /\ \E call \in calls :
           LET c == call[1] lev == call[2] again == call[3]
           IN  Skip(c, lev, again) \/ Later(c, lev, again) \/ Descend(c, lev, again)
    /\ UNCHANGED <<heap, program, phase, caller, scan, sweeping>>

(* The loop at the end of garbage_collect: gc_mark_rest takes the mark     *)
(* stack, gc_mark_all every marked object of the heap.                     *)
InHeap == {c \in Cell : \E p \in heaps \ emptied : c \in Cells[p]}
RestOnly ==                \* mutant: an overflow is not noticed
    /\ phase = "mark" /\ calls = {} /\ scan = {} /\ mark_stack # {}
    /\ scan' = mark_stack
    /\ mark_stack' = {} /\ overflow' = FALSE
    /\ UNCHANGED <<heap, program, phase, caller, mark, calls, sweeping>>
MarkAgain ==
    /\ phase = "mark" /\ calls = {} /\ scan = {} /\ mark_stack # {}
    /\ scan' = IF overflow THEN InHeap ELSE mark_stack
    /\ mark_stack' = {} /\ overflow' = FALSE
    /\ UNCHANGED <<heap, program, phase, caller, mark, calls, sweeping>>

(* ... and they call gc_mark_children(c, 0), one after the other.          *)
ScanNext(c) ==
    /\ phase = "mark" /\ calls = {} /\ c \in scan
    /\ scan' = scan \ {c}
    /\ calls' = IF flags[c] = "object" /\ c \in mark THEN Children(c, 0) ELSE {}
    /\ UNCHANGED <<heap, program, phase, caller, mark, mark_stack, overflow, sweeping>>

-----------------------------------------------------------------------------
(* The sweep.                                                              *)

SweepStart ==
    /\ phase = "mark" /\ calls = {} /\ scan = {} /\ mark_stack = {}
    /\ phase' = "sweep"
    /\ freelist' = {}
    /\ left' = heaps \ emptied /\ freed' = 0
    /\ UNCHANGED <<heaps, emptied, flags, finalize, deferred, wild, program, caller, marking>>

(* What is not marked is freed, or waits for its finalizer.  A page with   *)
(* nothing else on it is given back if enough cells were found before it;  *)
(* its cells that wait for finalizers are to be told apart then by a flag, *)
(* which the code writes behind the end of the page instead.               *)
Swept(p) == {c \in Cells[p] : flags[c] = "zero" \/ ToMark(c)}
Dying(p) == Swept(p) \cap finalize
Unused(p) == Swept(p) = Cells[p] /\ freed > FREE_MIN

KeepsUnused(p) == freelist \cup (Swept(p) \ Dying(p))   \* mutant: the page is not cancelled
FreedCells(p) == IF Unused(p) THEN freelist ELSE freelist \cup (Swept(p) \ Dying(p))

SweepPage(p) ==
    /\ phase = "sweep" /\ p \in left /\ (p = heap0 \/ heap0 \notin left)
    /\ left' = left \ {p}
    /\ flags' = [c \in Cell |-> IF c \in Dying(p) THEN "final"
                                ELSE IF c \in Swept(p) THEN "zero" ELSE flags[c]]
    /\ finalize' = finalize \ Swept(p)
    /\ ref' = [c \in Cell |-> IF c \in Swept(p) THEN NoRefs ELSE ref[c]]
    /\ mark' = mark \ Cells[p]
    /\ deferred' = deferred \cup Dying(p)
    /\ freelist' = FreedCells(p)
    /\ emptied' = IF Unused(p) THEN emptied \cup {p} ELSE emptied
    /\ freed' = IF Unused(p) THEN freed ELSE freed + Cardinality(Swept(p))
    /\ wild' = (wild \/ (Unused(p) /\ Dying(p) # {}))
    /\ UNCHANGED <<heaps, roots, lists, table, dont_gc, phase, caller, calls, scan, mark_stack,
                   overflow>>

(* The end of gc_sweep: add_heap if too few cells were found, and          *)
(* free_unused_heaps if nothing waits for a finalizer.                     *)
Blank(P) == [c \in Cell |-> IF \E p \in P : c \in Cells[p] THEN "zero" ELSE flags[c]]
Unheaped(f) == [c \in Cell |-> IF \E p \in emptied : c \in Cells[p] THEN "none" ELSE f[c]]
FreeUnusedHeaps(h, f) ==
    /\ heaps' = h \ emptied
    /\ flags' = Unheaped(f)
    /\ emptied' = {}
AddedHeaps == IF freed < FREE_MIN THEN {{p} : p \in Page \ heaps} ELSE {{}}

SweepEnd ==
    /\ phase = "sweep" /\ left = {}
    /\ \E P \in AddedHeaps :
           /\ freelist' = freelist \cup UNION {Cells[p] : p \in P}
           /\ \/ deferred = {} /\ FreeUnusedHeaps(heaps \cup P, Blank(P))
              \/ /\ deferred # {}
                 /\ heaps' = heaps \cup P /\ flags' = Blank(P) /\ UNCHANGED emptied
    /\ phase' = ReturnTo(caller)
    /\ freed' = 0 /\ caller' = "malloc"
    /\ UNCHANGED <<finalize, deferred, wild, program, marking, left>>

(* rb_memerror *)
OutOfMemory ==
    /\ phase = "sweep" /\ left = {} /\ AddedHeaps = {}
    /\ phase' = "over"
    /\ UNCHANGED <<heap, program, caller, marking, sweeping>>

-----------------------------------------------------------------------------
(* Finalizers.                                                             *)

(* rb_gc_finalize_deferred, at the end of rb_gc and every 256th call of a  *)
(* method                                                                  *)
rb_gc_finalize_deferred ==
    /\ phase = "finalize" \/ Running \/ (wild /\ phase = "run" /\ lists = << >>)
    /\ phase' = "run"
    /\ \/ deferred = {} /\ UNCHANGED lists
       \/ /\ deferred # {} /\ Len(lists) < MaxNesting
          /\ lists' = <<[cell |-> Nil, rest |-> deferred]>> \o lists
    /\ deferred' = {}
    /\ UNCHANGED <<heaps, emptied, flags, finalize, freelist, wild, ref, roots, table, dont_gc,
                   caller, marking, sweeping>>

Walking == phase = "run" /\ lists # << >>

(* finalize_list: the next cell, and run_final, which takes the entry of   *)
(* the table and runs it: the program goes on in the finalizer.            *)
RunFinal(c) ==
    /\ Walking /\ Head(lists).cell = Nil /\ c \in Head(lists).rest
    /\ lists' = [lists EXCEPT ![1] = [cell |-> c, rest |-> @.rest \ {c}]]
    /\ table' = table \ {c}
    /\ UNCHANGED <<heap, ref, roots, dont_gc, phase, caller, marking, sweeping>>

(* ... which returns: the cell is free, unless its page is to be freed     *)
(* (FL_SINGLETON; the flag is never there).                                *)
FinalReturns ==
    /\ Walking /\ Head(lists).cell # Nil
    /\ LET c == Head(lists).cell
       IN  /\ flags' = [flags EXCEPT ![c] = "zero"]
           /\ freelist' = freelist \cup {c}
    /\ lists' = [lists EXCEPT ![1].cell = Nil]
    /\ UNCHANGED <<heaps, emptied, finalize, deferred, wild, ref, roots, table, dont_gc,
                   phase, caller, marking, sweeping>>

(* The end of the list, and free_unused_heaps *)
FinalizeEnd ==
    /\ Walking /\ Head(lists) = Idle
    /\ lists' = Tail(lists)
    /\ FreeUnusedHeaps(heaps, flags)
    /\ UNCHANGED <<finalize, freelist, deferred, wild, ref, roots, table, dont_gc,
                   phase, caller, marking, sweeping>>

-----------------------------------------------------------------------------
Program ==
    \/ \E x, y \in roots \cup {Nil} : rb_newobj(x, y) \/ Resume(x, y)
    \/ \E a \in roots :
         \/ Drop(a) \/ define_final(a) \/ undefine_final(a)
         \/ \E b \in roots : rb_gc_copy_finalizer(b, a)
         \/ \E s \in {"car", "cdr"} : Load(a, s) \/ \E b \in roots \cup {Nil} : Store(a, s, b)
    \/ \E b \in BOOLEAN : SetDontGC(b)
    \/ \E r \in Callers : Collect(r) \/ CollectDisabled(r)

Marking == gc_mark \/ MarkAgain \/ (\E c \in Cell : ScanNext(c))
Sweeping == SweepStart \/ (\E p \in Page : SweepPage(p)) \/ SweepEnd \/ OutOfMemory
Finalizing == rb_gc_finalize_deferred \/ (\E c \in Cell : RunFinal(c)) \/ FinalReturns \/ FinalizeEnd

Next == Program \/ Marking \/ Sweeping \/ Finalizing

Spec == Init /\ [][Next]_vars

(* The collector is a function that is run to its end.                     *)
FairSpec == Spec /\ WF_vars(Marking) /\ WF_vars(Sweeping)

-----------------------------------------------------------------------------
(* Properties.                                                             *)

Members(l) == l.rest \cup ({l.cell} \ {Nil})
Listed == UNION {Members(lists[i]) : i \in 1 .. Len(lists)}

(* Every variable has its type, and while no page has been emptied with    *)
(* objects that wait for their finalizers, the cells are accounted for:    *)
(* the cells of the heap that are free, and no others, are on the          *)
(* freelist, and a dead object is in one list of those to be finalized.    *)
HeapOK ==
    /\ heaps \subseteq Page /\ emptied \subseteq heaps \ {heap0} /\ heap0 \in heaps
    /\ flags \in [Cell -> {"none", "zero", "object", "final"}]
    /\ ref \in [Cell -> [car : Cell \cup {Nil}, cdr : Cell \cup {Nil}]]
    /\ phase \in Phases /\ caller \in Callers
    /\ ~wild =>
         /\ InHeap = {c \in Cell : flags[c] # "none"} \ UNION {Cells[p] : p \in emptied}
         /\ phase # "sweep" => freelist = {c \in InHeap : flags[c] = "zero"}
         /\ {c \in Cell : flags[c] = "final"} = deferred \cup Listed
         /\ \A i \in 1 .. Len(lists) : Members(lists[i]) \cap deferred = {}
         /\ \A i, j \in 1 .. Len(lists) : i # j => Members(lists[i]) \cap Members(lists[j]) = {}

Closed(S) == \A c \in S : {ref[c].car, ref[c].cdr} \subseteq S \cup {Nil}
Reachable(c) == \A S \in SUBSET Cell : roots \subseteq S /\ Closed(S) => c \in S

(* An object the program can reach is never freed, however deep the graph  *)
(* is, and however often the mark stack overflows.                         *)
ReachableKept == ~wild => \A c \in Cell : Reachable(c) => flags[c] = "object"

(* A finalizer that is defined is not lost and does not pass to the next   *)
(* object in the cell: until it has been run, or undefined, the cell is    *)
(* not used again.                                                         *)
FinalizerKept ==
    ~wild => \A c \in table :
                     \/ flags[c] = "object" /\ c \in finalize
                     \/ flags[c] = "final" /\ c \in deferred \cup Listed

(* A collection comes to an end: the loop over the mark stack terminates,  *)
(* also when every pass overflows the stack again.                         *)
CollectionEnds == phase \in {"mark", "sweep"} ~> phase \notin {"mark", "sweep"}

(* "not freeing page": finalize_list puts no cell on the freelist whose    *)
(* page is about to be freed.                                              *)
FreelistInHeap == freelist \subseteq InHeap
=============================================================================
