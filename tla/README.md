# A TLA+ verification of the core of vmsruby

vmsruby is the port of the Ruby 1.8.2 interpreter (MRI) to OpenVMS. This
directory holds TLA+ specifications of the parts of the interpreter whose
correctness depends on the order in which things happen: the green threads of
`ruby/eval.c`, the classes of `ruby/lib/thread.rb` and `ruby/lib/monitor.rb` that
are built on them, signals and traps, the garbage collector with its finalizers,
and hash tables that are changed while they are iterated. TLC checks the
specifications on small instances; TLAPS proves every safety invariant the runs
check, nearly every action property, and that hash tables implement a map, for any
number of threads, keys and cells.

Contents: [the system](#the-system), [the modules](#the-modules),
[the runs](#the-runs), [what the checks found](#what-the-checks-found),
[the proofs](#the-proofs), [what is not modelled](#what-is-not-modelled),
[the plan](#the-plan).

## The system

### Inventory

| Component | State | Operations | What makes it correct |
|---|---|---|---|
| Green threads (`ruby/eval.c`, `ruby/rubysig.h`) | the ring of `struct thread`, `curr_thread`, `rb_thread_critical`, saved stacks | `Thread.new`, `stop`, `join`, `value`, `wakeup`, `run`, `kill`, `raise`, `pass`, `priority=`, `critical=`, `sleep`, the waits for descriptors, `rb_thread_schedule`, `ruby_cleanup` | no thread is lost from the ring; a switch always finds a saved context; a kill is delivered and not forgotten; no deadlock is reported while somebody could still be woken (a failed `select` excepted); a descriptor wakes one thread; round robin |
| Thread library (`ruby/lib/thread.rb`) | `@locked`, `@waiting`, `@waiters`, `@que`, `@max`, `@queue_wait`, `Thread.critical` | Mutex, ConditionVariable, Queue, SizedQueue | mutual exclusion, bounded queues, no lost wakeup, the critical section is always left |
| Monitors (`ruby/lib/monitor.rb`) | owner, count, the two queues, `@waiters`, timer threads | `mon_enter`, `mon_try_enter`, `mon_exit`, `wait`, `signal`, `broadcast` | mutual exclusion, re-entrancy across `wait`, the monitor is handed on, a timeout is raised only in a waiter |
| Timeouts (`ruby/lib/timeout.rb`) | a timer thread per call | `timeout` | the exception is raised only inside the block, and only once |
| Readers-writer locks (`ruby/lib/sync.rb`, `mutex_m.rb`, `thwait.rb`) | mode, owners, upgraders, queues | lock, try_lock, unlock, upgrade | writers exclude everybody |
| Signals (`ruby/signal.c`, `ruby/rubysig.h`, `rb_trap_eval` in `ruby/eval.c`) | `trap_pending_list`, `rb_trap_pending`, `rb_trap_immediate`, `rb_prohibit_interrupt`, the trap table | arrival, `trap`, `TRAP_BEG`/`TRAP_END`, `CHECK_INTS`, deferred regions | a trap never runs in the interpreter's own code, no signal is forgotten, a trap leaves the interrupted thread as it was |
| Loading of features (`rb_require_safe` in `ruby/eval.c`) | `$"`, the loading table | require, autoload | a feature is loaded once, a second thread waits for the first |
| Garbage collector (`ruby/gc.c`) | pages, flags, mark bits, free list, mark stack, the lists of objects to be finalized | allocation, mark, sweep, finalizers, `GC.disable` | nothing reachable is freed, a finalizer is neither lost nor run for the next object, a collection ends |
| Hash tables (`ruby/st.c`, `ruby/hash.c`) | bins, entries, iteration level, deleted entries | `[]=`, delete, shift, clear, rehash, iterate | it is a map; an iteration sees every entry, never a freed one |
| Input, output, files, processes (`ruby/io.c`, `file.c`, `process.c`) | descriptors, buffers | read, write, close, wait | closing a descriptor wakes the threads that wait for it |
| VMS layer (`ruby/vms.c`, `ruby/vms/`) | command vector, descriptors | `rb_vms_select`, wildcard expansion of the command line | sockets and files are polled together; every argument is passed |
| Parser, core classes, object model, start-up, extensions, standard library, bundled packages | | | see [what is not modelled](#what-is-not-modelled) |

### How the parts interact

The interpreter is one process with one stack. A Ruby thread is a
`struct thread` whose stack is copied out when another thread runs
(`THREAD_SAVE_CONTEXT`) and copied back when it is resumed
(`rb_thread_restore_context`). Threads switch in `rb_thread_schedule`, which is
called by an operation that blocks, by one that asks for it, or by `CHECK_INTS`,
which the interpreter executes at every call and which counts `THREAD_TICK` down
(the VMS build has no timer). It wakes the threads whose join, delay or
descriptor has come, blocks in `select` if there is nobody to run, and chooses
the next thread: the first one that is to be killed, else the first one of the
highest priority behind the running one. Four operations switch without it:
`Thread.new`, `Thread#raise`, an `exit` delegated to the main thread, and the
deadlock `join` reports in a critical section.

`Thread.critical = true` keeps `CHECK_INTS` from switching. It is the only tool
`thread.rb` has: Mutex, ConditionVariable and the queues are ordinary Ruby
methods that set the flag, look at and change their lists, and reset it by hand;
`Thread.stop` gives it up in the same step as it sleeps. Whatever happens in a
thread between two statements (a kill, an exception raised by another thread, a
switch) happens to these methods too. `monitor.rb` is written the same way.

A signal interrupts all of this. In a system call (`TRAP_BEG`) its trap runs at
once, inside the C signal handler; elsewhere it is noted and run by `CHECK_INTS`.
Either way it runs on the stack of the main thread, as Ruby code that may switch,
stop, be interrupted or raise, and `rb_trap_eval` is responsible for leaving the
main thread as it was. The collector runs inside any allocation and calls no Ruby
code; the finalizers of what it has freed run later, from the method call
dispatch or from `GC.start`, and may allocate and collect in turn. A block that
iterates over a hash may do anything to it, and may be suspended while other
threads do.

### What is hard

Nearly everything here depends on an order that no test can force: a wakeup
between a test and the sleep it leads to; a second wakeup that comes too late; a
kill or an exception at one particular statement of an `ensure` clause; a status
kept in a C local over a sleep; a dead thread as the starting point of a scan of
the ring; a signal between the test and the reset of a flag; a mark stack that
overflows while the heap is scanned because it has overflowed; an entry deleted
under two iterations. `PROJECT.json` lists these hazards at their lines, each with the
properties that would catch it, or the reason why none does yet.

## The modules

| Module | Models | Built on |
|---|---|---|
| `RubyThread` | ring, contexts, class Thread and the scheduler, `ruby/eval.c` | |
| `MCRubyThread` | instances of it for TLC | `RubyThread` |
| `GreenThreads` | abstract specification: what the scheduler promises to Ruby code | |
| `MCGreenThreads` | the refinement mapping from `RubyThread` to `GreenThreads` | `MCRubyThread` |
| `ThreadMutex` | Mutex and ConditionVariable, `ruby/lib/thread.rb` | `GreenThreads`, `Arrays` |
| `ThreadQueue` | Queue and SizedQueue, `ruby/lib/thread.rb` | `GreenThreads`, `Arrays` |
| `Monitor` | MonitorMixin and its condition variables, `ruby/lib/monitor.rb` | `GreenThreads`, `Arrays` |
| `Signals` | `ruby/signal.c`, `ruby/rubysig.h`, the trap entries of `ruby/eval.c` | |
| `GC` | the collector, `ruby/gc.c` | |
| `HashMap` | abstract specification: a map | |
| `HashTable` | `ruby/st.c` and class Hash, `ruby/hash.c` | `HashMap`, `Arrays` |
| `Arrays` | lists: their elements, deletion, concatenation; the arrays of the library and the chains of `ruby/st.c` | |
| `MCThreadMutex`, `MCThreadQueue`, `MCMonitor`, `MCSignals`, `MCGC`, `MCHashTable` | instances of them for TLC | |
| `ArrayProofs` | induction on numbers, and what the recursive functions of `Arrays` compute | `Arrays` |
| `RubyThreadProofs`, `ThreadMutexProofs`, `ThreadQueueProofs`, `MonitorProofs`, `SignalsProofs`, `GCProofs`, `HashTableProofs` | theorems and proofs | the module and `ArrayProofs` |

### RubyThread

The fields of `struct thread` are functions on the set `Thread`: `status`,
`next`, `prev`, `wait_for`, `join`, `priority`. The descriptors of `fd` and of
the three sets of `select` are one set `fds`. `WAIT_TIME` and `delay` are one of
three flags: `"TIME"` (the delay has not passed), `"PAST"` (it has),
`"FOREVER"` (`DELAY_INFTY`). `fd_state` says of a descriptor whether `select`
would report it, wait for it, or fail on it (`"ready"`, `"idle"`, `"bad"`). A saved stack and its jump buffer are `context`:
`"none"`, `"saved"`, or `"stale"` for a stack that has been used since. The two
locals that survive a switch are kept: `last_status` of `rb_thread_stop` and
`rb_thread_join`, and the place the thread goes on at, `pc`. `unwinding` is the
non-local exit a thread is in (`TAG_RAISE` with an ordinary exception or with
SystemExit, `TAG_FATAL`). `jumped` is not in the code: it remembers that
`rb_thread_main_jump` has met the main thread asleep.

Each function of class Thread is an action of the running thread. One that ends
in `rb_thread_schedule` sets `scheduling`, and until `Schedule` has chosen a
thread the process takes no other step: the split makes it visible that time
passes and descriptors become ready while the process is blocked in `select`.
`Schedule` is `rb_thread_schedule`: the walk from a dead `curr_thread` to a
living one (`Curr`), the scan (`Joined`, `TimedOut`), `select` and its
distribution (`Reported`, `Selected`, `Expired`), the choice (`IsNext`), and the
deadlock. `SelectFails` is the branch behind a `select` that fails with anything
but EINTR: `find_bad_fds` removes the bad descriptors from the sets of the threads
in `select` (`Stripped`), which become ready only if the scan of the descriptors
follows; with a delay among the sleepers the code goes back to `again`
(`ScheduleAgain`), and without one it goes on to the choice as if nobody waited
for a descriptor. `find_bad_fds` finds only what `select` has taken out of the
sets, and POSIX leaves them alone on an error; `SelectClears` says whether this
system takes them out. In the VMS build a bad descriptor is a socket that fails:
`rb_vms_select` (`ruby/vms.c:563`) takes whatever is no socket, a closed
descriptor included, for ready. The end of a thread is `EndQuietly`, `EndByException`, `EndByExit` or
`EndByFatal`, the branches behind `rb_thread_start_0`; the end of the script is
`MainEnd` and `WaitOthers` (`ruby_cleanup`). Of the environment, `Tick` lets a
delay pass and `FdChange` makes a descriptor ready, idle or bad.

`MayHaveRaised` is a nondeterministic choice: whether `join` of a thread that
died of SystemExit or of a fatal error raises depends on what the last save of
its context left in `th->errinfo`.

`Calls` is the set of operations the program uses. It is a parameter of the
program and not of the interpreter: the proofs hold for every value, and the runs
choose values that keep the state space small (see [Bounds](#bounds)).

### GreenThreads, and why RubyThread implements it

`GreenThreads` is the machine the authors of `thread.rb` had in mind: a thread is
awake, sleeping (something in the environment will wake it), stopped (only
another thread will), or dead; exactly one runs; it loses the processor only when
it is not in a critical section or cannot go on; a stopped thread is never woken
by the scheduler. `MCGreenThreads` maps a state of `RubyThread` to one of
`GreenThreads` and checks the abstract specification as a property. It holds for
the operations `thread.rb` uses. It does not hold with all of them: `priority=`
and `Thread.pass` switch inside critical sections, and so does `Thread#raise`,
for which the machine has an action of its own (`Interrupt`). From the end of the
script, or from a reported deadlock on, nothing is promised.

### ThreadMutex and ThreadQueue

One action per Ruby statement, of the thread `curr`, named after the method;
between two statements `Schedule` may pass the processor on, unless the flag is
set. `t.run` is `Rouse(t)`: the scheduler it calls may choose anybody, which is
what the next `Schedule`, or its absence, is. In `ThreadMutex` the program uses
one mutex the way `synchronize` does, and one condition variable inside the
block; `Lockers` and `Signallers` are the threads that use the one and that signal
the other. `frame` is the stack of methods a thread is in, collapsed to the ensure
clauses that matter; `Unwind` takes an exception to the next of them. In
`ThreadQueue` the objects are not told apart, so `@que` is its length; whether
the queue is a Queue or a SizedQueue is chosen in `Init` (`sized`).

Both start when all threads have been started. A program whose threads all sleep
takes the step `Deadlock`, after which nothing happens.

### Monitor

On the same machine, but coarser: nobody interrupts a critical section, so from
`Thread.critical = true` to the `Thread.stop` or `Thread.critical = false` that
ends it a section is one action, and `pc` has seven values instead of a value for
every statement. The variables keep their names in `monitor.rb`. The program
enters and leaves as `mon_synchronize` does, with blocks inside blocks (`depth`),
so that `MonitorHeld` can compare what the program believes with `@mon_owner` and
`@mon_count`. A timer thread does nothing before and after it raises Timeout; it
is the flag `timer[t]` and the step `Timeout(t)`. A program uses timeouts or kills
threads (`kills`, chosen in `Init`), not both. `wakeup` raises ThreadError for a
dead thread, which leaves the section in the middle (`Fail`).

### Signals

`stack[t]` holds the activations of a thread that matter: Ruby code of the
program, of a trap, or in a deferred region; a system call with its saved
`rb_trap_immediate`; `Thread.stop`; `sighandler` and `rb_trap_exec` with the index
of its loop, waiting for the trap they have started. A signal arrives between any
two steps, also between those of `rb_trap_exec`. `signal_exec` pushes a trap on
the stack of the main thread, whichever thread runs, or unwinds that stack if
there is no trap (SIGINT and the signals that raise SignalException; other
signals, `"EXIT"` as a command, and `RUBY_CRITICAL` are left out). `Unwind` ends
deferred regions and traps on its way, each of which puts the saved status back.
`passed` and the field `woken` of `Thread.stop` are not in the code: the signals
noted behind the index of a running loop, and whether the thread was woken since it
stopped.

### GC

Objects have two references: `car`, marked by a call of `gc_mark`, and `cdr`,
marked by the jump to `again`, which does not count a level. Two are enough for
every shape of graph, and for every order in which levels, the mark stack and its
overflow can meet. The pending C calls of `gc_mark` are the set `calls`, so that
any order of the children of any type is covered. What the machine stack and the
other roots refer to is `roots`; the program allocates, loads, stores and drops
references as it likes. The sweep is one step per page. Finalizers are the
program running while `lists` is not empty; the mark of gc.c:1096 is never found
on a cell, so `FinalReturns` does not test it, and after a write behind the end of
a page (`wild`) the program stops, since anything may happen.

### HashTable, and why it implements HashMap

A call of the hash is a step. Tables and entries have addresses, which are reused
as `malloc` may, so that a dangling pointer is a pointer to something else. An
iteration is where `st_foreach` stands while its block runs: the table it
iterates over, the bin and the entry. `due` and `done` are not in the code; they
are the keys that the iteration still has to visit and has visited. The refinement
maps the table to the function `Lookup`, what `st_lookup` finds for each key:
insertion, deletion and clear are steps of a map, and growth, rehash and the
deferred removal of entries are stutters.

## The runs

| Run | Instance | Shows |
|---|---|---|
| `thread_control` | `start stop wakeup kill critical preempt polling rescue` | the ring stays one doubly linked cycle over every order of births and deaths (`RingOK`), a dead `curr_thread` always leads back into it (`CurrOK`), no switch meets an unsaved context (`ContextSaved`), only threads that are awake are resumed (`SchedulesAwake`), and the scheduler implements `GreenThreads` |
| `thread_wait` | `start join kill wait_fd fd_writable select preempt pass`, one descriptor, `SelectClears` | `join` does not return early (`JoinWaits`), a kill survives the sleeps of ensure clauses (`KillKept`), a reported deadlock is one, as far as a failed `select` lets the scheduler know (`DeadlockIsReal`), a descriptor wakes one thread (`FdWakesOne`) |
| `thread_end` | `start exit error raise value limited_join critical join_in_critical abort_on_exception` | under the switches that go behind the scheduler's back, who runs is awake and waits for nothing, but for a main thread whom `rb_thread_main_jump` has met asleep (`RunningAwake`) |
| `thread_live` | `start sleep sleep_forever pass kill priority_set preempt`, two priorities, fair | a kill is delivered (`KillDelivered`), a sleeper whose delay has passed is woken (`SleeperWakes`), the threads of the highest priority take turns (`NoStarvation`) |
| `mutex_cond` | try_lock, wait, signal, broadcast, three threads | mutual exclusion across `wait`, no lock without an owner, no sleeper outside of the lists |
| `mutex_kill` | two threads that lock and wait, a third that broadcasts; kill and raise among the last two alive; fair | critical sections are left with threads interrupted at any statement (`CriticalReleased`), a broadcast nobody interrupts reaches everybody who was waiting (`BroadcastDelivered`) |
| `queue` | Queue (two producers, one consumer, kill, raise, non-blocking pop, clear) and SizedQueue (two producers, two consumers, `max=`, clear), fair | nothing is taken from an empty queue (`TypeOK`: the length stays a natural number), `push` never exceeds the maximum, the sleepers of both lists stay reachable; for Queue, critical sections are left and a consumer goes on once there is an object |
| `monitor` | two nested blocks, try_enter, wait with and without a timeout, signal, broadcast; timers or kills | who executes the block owns the monitor as often as it is inside (`MonitorHeld`), a free monitor is handed on (`HandedOn`), Timeout is raised only during its wait (`TimerConfined`) |
| `signals` | two threads, two signals, three arrivals | `rb_trap_immediate` is set exactly in system calls, whatever nests (`ImmediateInSyscall`), a noted signal is noticed (`PendingNoticed`), a trap does not wake the thread it runs on (`StopsUntilWoken`) |
| `gc` | pages of two cells and of one, a mark stack of one, fair | the cells are accounted for (`HeapOK`), nothing reachable is freed (`ReachableKept`), no finalizer is lost or meets another object (`FinalizerKept`), a collection ends (`CollectionEnds`) |
| `hash_table` | three keys, four entries, two tables, two iterations | the table is sound (`TableOK`) and a map (`ImplementsMap`), iterations are exact (`EachExact`) and never go on in a freed table (`LiveTableOnly`) |
| `gc_page` | as `gc` | a violation, see [below](#what-the-checks-found) |

Every property of a passing run has a mutant in `PROJECT.json`: a definition
changed the way a plausible bug would change the code, under which the same run
finds the property violated. The mutated forms stand before the definitions, with
the comment "mutant".

### Bounds

Three threads: one that runs, one that sleeps or dies, one that interferes. All
the defects below need two or three, a ring of three is the smallest in which
`next` and `prev` differ, and the scan order matters. The proofs cover the rest.
The threads but for the main thread are symmetric, and `SYMMETRY` is used in the
runs without liveness properties (in `ThreadQueue` they have roles, so there is
none). `monitor` was also run with four threads.

`mutex_kill` has two waiters and one thread that broadcasts, and `MaxAlive` 2:
threads are interrupted only when one of the three has ended. Two are left then,
which lock, wait and broadcast and interrupt each other; and a broadcast to two
waiters is never interrupted, without which `BroadcastDelivered` does not hold.

`Calls` is split over four runs of `RubyThread`, because all operations at once
with three threads are beyond a few minutes. Each run combines the operations
that touch the same state: those that change the ring and the flag, those that
wait, those that bypass the scheduler, those that matter for scheduling order.
`thread_live` has no `join`, so that `SleeperWakes` speaks of delays only.

`Fd` has one descriptor, to read or to write, in `thread_wait` and none elsewhere:
the interesting cases are two threads that wait for the same one, and one that
`select` fails on. `Prio` is `{0}` but in `thread_live`, where it is
`{0, 1}`. `MaxWaiting` and `MaxWaiters` stop new calls, not calls in progress,
while `@waiting` or `@waiters` is longer: spurious wakeups leave stale entries
there, without bound. `MaxItems` does the same for the queue, `Max` is `{1, 2}`,
and `MaxQueue` for `@mon_entering_queue`. `MaxDepth` is 2: a `wait` that gives up
more than one level.

`Signals`: a signal during the trap of another, and one more to find what they
left (`MaxSignals` 3); two signal numbers, so that one is in front of and one
behind the index of the loop. `MaxStack` stops new calls above four activations,
not traps.

`GC`: a mark stack of one and a level limit of 0 make every case of `gc_mark`
happen with three cells, repeated overflow included; `ruby_stack_check` may fail
at any call of level 0. The second page is the one that is given back and added
again. `MaxRefs` bounds the references between objects, `MaxFinalRefs` the same in
programs with finalizers or `GC.disable`, which do not depend on the shape of the
graph; `MaxNesting` allows a finalizer inside a finalizer.

`HashTable`: the table has one bin and grows to two or three (`MINSIZE`,
`primes` and the density are parameters); of the keys two collide in three bins.
Four addresses for three keys leave a deleted entry next to a full table; with
two tables `rehash` reuses the address of the table before the last.

`CHECK_DEADLOCK FALSE` is in all configurations: the process ends, blocks in
`select` for a descriptor that never becomes ready, or sleeps in `pause` as its
only thread; the models of the library end when all threads are dead, or after
`Deadlock`; a collection that finds no memory ends the process. Whether the wrong
things end up asleep is what `DeadlockIsReal`, `HandedOn`, `PopWoken` and the
listing invariants are about. `hash_table` checks for deadlock.

### Fairness

`RubyThread!Fairness`: weak fairness of `Schedule`, of `Preempt`, of the second
halves of operations (`Return`) and of `WaitOthers`. The process never lingers in
a C function of the scheduler, and interpreted code meets `CHECK_INTS` at every
call. Nothing is assumed of the program (it may sleep or loop for ever), of the
clock, or of the descriptors. A thread in a critical section is not preempted,
and the liveness run has none.

The library: each thread is scheduled again and again if it is enabled again and
again (`SF_vars(Schedule(t))`), and gets on with the method it is in
(`SF_vars(curr = t /\ Statement)`): `THREAD_TICK` is larger than the number of
calls in a method. The first is what `NoStarvation` shows of the scheduler, for
threads of equal priority. Calling a method is never assumed.

`GC`: weak fairness of marking and sweeping, which are loops in one C function;
nothing is assumed of the program.

## What the checks found

`gc_page` (`gc.c:1096`). When `gc_sweep` empties a page, the cells of the page that
wait for their finalizers are to be marked, so that `finalize_list` does not put
them on the free list ("not freeing page", `gc.c:1003`). The loop runs `pp` over
these cells but writes through `p`, which at that point is the end of the page: it
sets a bit behind the page and marks nothing. The finalized cells go on the free
list, `free_unused_heaps` frees the page, and the next allocations use freed
memory. It takes a page (of 10000 cells or more) in which everything is dead and
something has a finalizer.

Other weak places came up while the models were built, most of them as
counterexamples of properties that had to be restricted. They bound what the
properties say.

Threads and `thread.rb`:

- `unlock` wakes the first waiter in its critical section and runs it again
  outside of it (`thread.rb:118`). If the waiter has found the lock taken again
  and gone back to sleep, the second wakeup is spurious: it pushes itself on
  `@waiting` a second time. The stale entry later swallows the wakeup of an
  `unlock`, and a thread sleeps for ever on a lock that is free. Three threads are
  enough. `Queue#push` has the same second wakeup, and with two consumers the same
  defect; `PopWoken` is checked with one.
- An exception raised in a thread that waits for `mutex.lock` in the ensure clause
  of `ConditionVariable#wait` leaves `wait` without the lock (`thread.rb:198`); the
  ensure clause of `synchronize` then unlocks the mutex of another thread, and two
  threads are in the block. `MutualExclusion` is checked, and proved, without it.
- If another thread fills the queue between the inherited `pop` and the test
  behind it, `SizedQueue#pop` returns with `Thread.critical` set
  (`thread.rb:388`). `CriticalReleased` is checked for Queue. `clear` of a full
  SizedQueue wakes no producer.
- `join` without a limit returns early, with nil, when another thread calls
  `wakeup` or `run` (`eval.c:10616`), where the documentation promises to wait for
  the end (`eval.c:10641`); `JoinWaits` is checked without them. In an
  ensure clause of a thread that is being killed a second `kill` does the same;
  `JoinWaits` leaves such threads out.
- `rb_thread_main_jump` does not make the main thread ready (`eval.c:10068`):
  after an `exit` in another thread, or after the deadlock that `join` or `value`
  report in a critical section, a main thread that was asleep executes with
  `THREAD_STOPPED`. `Thread#status`, which is to say "run" of a thread that is
  executing (`eval.c:11623`), says "sleep"; once it is preempted nobody schedules
  it again. `RunningAwake` excepts the main thread after such a jump (`jumped`) and
  nothing else.
- When `select` fails because of one descriptor (`eval.c:10266`), threads in
  `rb_thread_wait_fd` are never told. `find_bad_fds` looks at the threads in
  `select` only, and even those are not made ready by it: `select_value` is set,
  and they run only if the scan for `n > 0` follows and finds them. If no sleeper
  has a delay, the scheduler goes on as if nobody waited for a descriptor and
  reports a deadlock (`eval.c:10352`) to a process in which threads wait for
  descriptors, good ones included; the report prints them with `F(fd)` and `S`.
  `DeadlockIsReal` says what remains true then: everybody sleeps, no delay and no
  dead thread is overlooked.
- A kill or an exception that meets `broadcast` in its loop (`thread.rb:223`)
  leaves the rest of the waiters asleep; they are in no list any more.
  `BroadcastDelivered` is checked with broadcasts nobody interrupts, and
  `CondListed` without interrupts.
- `Thread#raise` of a thread that is being killed, and `rb_thread_polling`, lose
  `THREAD_TO_KILL`; the end of that thread is then taken for a fatal error of the
  script. `KillKept` is checked without them.
- A kill between `lock` and `begin` in `synchronize`, or in `unlock` before
  `@locked = false`, leaves the mutex locked by nobody. `NoPhantomLock` is
  checked without kills.

`monitor.rb`:

- A Timeout that arrives before the `begin` of `wait`, or in its ensure clause
  before `Thread.critical = true`, escapes from `wait` without the monitor, and
  with the flag the timer has set. `MonitorHeld` says nothing of a thread that
  an exception unwinds.
- A thread that is killed in `mon_enter` leaves its entry in
  `@mon_entering_queue`. When `mon_release` meets it, `wakeup` raises ThreadError:
  `Thread.critical` stays set and nobody is woken. `HandedOn` is checked without
  kills. In a program of one living thread whose monitor belongs to a dead one
  every `mon_enter` fails and leaves another entry.

Signals:

- A signal that arrives behind the index of the loop of `rb_trap_exec` is
  overlooked until the next one, because `rb_trap_pending` is reset at the end
  (`signal.c:486`). The window is as long as the traps of the loop run, or the
  thread that runs the loop is suspended. `PendingNoticed` excepts it.
- A wakeup or a kill during a trap is lost when the saved status is put back
  (`eval.c:9597`). A trap that raises on the stack of a stopped main thread leaves
  it running with `THREAD_STOPPED`: this path has no `rb_thread_ready`.
- A signal that was noted raises its exception although the program has set it to
  `"IGNORE"` meanwhile. Traps in system calls run also in deferred regions, and a
  thread that is switched away in such a region keeps `CHECK_INTS` from running
  traps in all the others.

Collector and hash tables:

- `rb_newobj` does not look at the free list again after `garbage_collect`. It is
  not empty then, unless only emptied pages were found (`Resume` ends the process
  in that case).
- While a finalizer runs, a nested collection may free pages the outer
  `finalize_list` still has cells of; it is reached only through emptied pages
  with finalizers, as above.
- The documentation of `Hash#rehash` promises an IndexError in the iterator
  (`hash.c:375`); `hash_foreach_iter` raises RuntimeError. Two calls of `rehash`
  in one step of an iteration may bring the old address back, and the iteration
  goes on, in a table that is alive.
- When the table grows under an iteration, entries are skipped or visited twice;
  `EachExact` holds until then.

## The proofs

| Theorem | Says | If |
|---|---|---|
| `TypeCorrect` | `RubyThread`: `Spec => []TypeOK` | |
| `RingCorrect` | `RubyThread`: `Spec => [](RingOK /\ CurrOK /\ ContextSaved)` | |
| `CurrCorrect`, `ContextCorrect` | its parts, `Spec => []CurrOK` and `Spec => []ContextSaved` | |
| `AwakeCorrect` | `RubyThread`: `Spec => SchedulesAwake` | |
| `ExecutesAwake` | `RubyThread`: `Spec => []RunningAwake` | |
| `DeadlocksReal` | `RubyThread`: `Spec => DeadlockIsReal` | |
| `FdsWakeOne` | `RubyThread`: `Spec => FdWakesOne` | |
| `KillsKept` | `RubyThread`: `Spec => KillKept` | `CarriesKills` |
| `JoinsWait` | `RubyThread`: `Spec => JoinWaits` | `Undisturbed` |
| `MutexTypes` | `ThreadMutex`: `Spec => []TypeOK` | |
| `CriticalSafe` | `ThreadMutex`: `Spec => []CriticalReleased` | |
| `MutexCorrect` | `ThreadMutex`: `Spec => []MutualExclusion` | `Disciplined` |
| `WaitersListed` | `ThreadMutex`: `Spec => []WaiterListed` | |
| `CondsListed` | `ThreadMutex`: `Spec => []CondListed` | `Uninterrupted` |
| `LockOwned` | `ThreadMutex`: `Spec => []NoPhantomLock` | `Uninterrupted` |
| `TypeCorrect`, `CriticalIsReleased`, `PushHasRoom` | `ThreadQueue`: `Spec => []TypeOK`, `[]CriticalReleased`, `RoomForPush` | |
| `WaitersListed` | `ThreadQueue`: `Spec => []WaiterListed` | nobody interrupts the users of a SizedQueue |
| `BlockOwnsMonitor`, `MonitorHandedOn`, `TimersConfined` | `Monitor`: `Spec => []MonitorHeld`, `[]HandedOn`, `[]TimerConfined` | |
| `ImmediateCorrect`, `PendingCorrect`, `StopsCorrect` | `Signals`: `Spec => []ImmediateInSyscall`, `[]PendingNoticed`, `StopsUntilWoken` | |
| `HeapCorrect`, `NothingLost`, `FinalizersKept` | `GC`: `Spec => []HeapOK`, `[]ReachableKept`, `[]FinalizerKept` | |
| `TableSound`, `IterationsExact`, `NoFreedTable` | `HashTable`: `Spec => []TableOK`, `[]EachExact`, `LiveTableOnly` | |
| `TableIsMap` | `HashTable` implements `HashMap`: `Spec => ImplementsMap` | |
| `FilterArray`, `FlattenArray` | what the recursive functions `Filter` and `Flatten` make of any list | |

They hold for every finite set of threads, every set of operations, descriptors
and priorities, every heap, graph and table, and every bound, under the
assumptions the modules state about their constants: the main thread is a thread,
the null values are not, priorities are integers, pages do not share cells.
`HashTable` assumes two things more. The addresses of entries are finitely many,
as addresses are; and `primes` has an element for every size a table with that many
entries asks for. The table of `st.c` ends at the prime behind 2^30 (then
comes a 0, and `new_size` gives -1 behind that). A rehash asks for a larger size
only once there are more than five entries to a bin, so a table would have to hold billions
of entries of 16 bytes or more first.

The hypotheses of the last column are about the program, and each is needed: the
property fails without it, as [above](#what-the-checks-found).
`Disciplined`: threads are interrupted, or use `wait`, not both.
`Uninterrupted`: neither kill nor raise; an exception between `shift` and `run` in
`signal` loses the waiter that was shifted, and one between `lock` and `begin` in
`synchronize` the lock. In SizedQueue it is the thread that `max=` has shifted.
`CarriesKills`: neither polling nor `Thread#raise`, which overwrite
`THREAD_TO_KILL`. `Undisturbed`: that, and no `wakeup`.

### The arguments

**Lists.** The library modules of TLAPS cannot be used for induction over data, but
induction on a set of numbers needs no operator parameter: `ArrayProofs` states it
for sets (`Smallest`, `Induction`) and for functions that are defined recursively
(`Recursion`), and derives what `Filter`, `Flatten` and `Reversed` compute. The
other modules use only `Elements` and `Distinct` of the results.

**The ring.** `RingInv`, the conjunction of the three invariants, is inductive
together with `TypeOK`. None of the three is on its own: a switch is safe because
every other thread is saved (`ContextSaved`), removal keeps one cycle because the
dead thread was in it (`CurrOK`), and the next scan starts from the dead thread's
stale `prev`, which is in the ring because the links were mended before it was
used (`RingOK`). The cycle is stated without induction: a nonempty set closed
under `next` is the whole ring (`OneCycle`). `StartStep` and `RemoveStep` turn a
closed set of the new ring into one of the old. All other actions fall into two
kinds, those that leave ring and contexts alone (`QuietStep`) and those that only
switch (`SwitchStep`).

**Who runs is awake.** `AwakeInv` adds to `RunningAwake` what the scheduler may be
entered with: a sleeper or a thread that waits for nothing. The one exception is
a main thread after a jump that has met it asleep (`jumped`); `AwakeJumps` shows
that every other jump leaves it awake. The proof showed that `value`, like `join`,
reports its deadlock to a main thread that may sleep.

**A reported deadlock is real.** The scans of `rb_thread_schedule` have to meet
every living thread, also from a dead `curr_thread` on. `CurrInRing` finds the start,
and `ScanMeetsAll` the rest: the set of threads a walk of as many steps as there
are threads meets is closed under `next`, because two of its steps must meet the
same thread (pigeonhole), and is the ring by `OneCycle`. So a descriptor that
`select` reports wakes somebody (`SomeSelected`), and if nobody can run nobody
waits for anything but a living thread, unless `select` has failed; and whether it
has or not, no delay that has passed and no dead thread was overlooked.
Of two threads the scan cannot meet each before the other (`BeforeStrict`), so of
those that wait for a reported descriptor alone only one is woken (`FdsWakeOne`).

**Kills and joins.** `KillInv` follows `THREAD_TO_KILL` of a thread that has begun
to unwind through the local `last_status` of `rb_thread_stop` and
`rb_thread_join`. A thread comes back there to be killed only for the second time:
the first time it is thrown out. `JoinInv` says of a thread in `join` that it
sleeps for nothing but the end of the other thread, or that thread is dead, or it
is to be killed itself. It needs `KillInv`: the end of a thread whose kill was
forgotten is taken for a fatal error, which wakes everybody.

**The mutex.** `CritInv` says that `Thread.critical` is set exactly while the
running thread is between a `critical = true` and the matching `critical = false`,
that no other thread is there, and that `Thread.exclusive` has always saved
`false`. This makes the statements in between atomic, and gives `CriticalSafe` for
any use, with kills and exceptions anywhere the program can send them.
`FrameInv` says which methods a statement can belong to. `LockInv` says who owns
the mutex and that at most one does; it is what `Disciplined` is needed for: an
exception in `wait` breaks it. `SleepInv` says where a thread can sleep and that
it is in `@waiting` before it stops. `CondInv` adds where the threads are that
`signal` and `broadcast` have taken from `@waiters`: in a local of a thread that is
awake.

**The queues.** `QueueInv`: who is inside a critical section runs, and the flag is
set (`Section`); what the running thread has tested still holds (`Seen`: there is room
for the push, an object for the pop, its entry in the list); `max=` still has
somebody to run (`Counting`); and a Queue is in no statement of SizedQueue (`Plain`),
which is why its sections are left. `Seen` needs `Section`, and `TypeOK`, that the
length is a natural number, needs `Seen`. `Listed` is the invariant behind
`WaiterListed`.

**Monitors.** `MonitorInv`: who is inside owns the monitor with the right count, who
waits has noted it (`Holding`); timers exist in `wait` only (`Timing`); who sleeps
does so at one of three places (`Sleeping`). Unless somebody is killed the two
queues hold the sleepers of `mon_enter` and of the end of `wait`, each once and
nobody else (`Queues`), `@waiters` holds sleepers of `wait` (`Waiting`), and a free
monitor has somebody on the way (`Handing`). `Handing` needs `Queues`, so that the
thread `mon_release` wakes is one that wants the monitor, and `Queues` needs `Waiting`,
so that `signal` does not wake a thread of the queues behind their back.

**Signals.** None of the three properties is inductive, because a trap may be on top
of anything and anything may be on top of a trap. `SignalInv` describes the stacks
frame by frame (`Over`, `Good`): on a system call stands `sighandler` and
`sighandler` stands on nothing else, on a thread asleep in `Thread.stop` stands only
a trap that has saved `THREAD_STOPPED`, and traps are on the main thread's stack
only. A thread that does not run is not in a system call (`Tops`), so that the flag a switch saves
and restores is always 0 (`Flags`). `Behind` says of every activation of
`rb_trap_exec`, also of those a trap has interrupted, that what the list holds up to
its index is in `passed`; `ScanEnd` resets `rb_trap_pending` when the index has
reached the end, which is `PendingNoticed`. The lemmas `PushGood`, `KeptGood`,
`DropGood` and `WokenGood` say what a call, an exception, a return and a wakeup make
of a stack, and `ExecStep` and `ScheduleStep` what the two shared parts of the
actions do. The smallest signal of the list and the first trap an exception ends
exist by `Smallest`, from the well-foundedness of the naturals.

**The collector.** `GCInv` accounts for the cells page by page, also in the middle of
a sweep (`CellsOK`, `MarksOK`), and for the dead objects list by list (`ListsOK`,
`TableOK`). While it marks, what a marked object refers to is marked or about to
be, unless the object is still in the mark stack or before the scan, or the stack
has overflowed, and then there is another pass (`MarkingOK`). While it sweeps, the
objects that are marked, or on a page already swept, contain the roots and are
closed under references (`ReachOK`); this set does not change as the sweep goes
on. Everything is said up to the first write behind a page (`wild`).

**Hash tables.** `TableInv` describes the table by its entries: which chain holds
which (`Chained`), that they have different keys (`Keyed`) and are counted
(`Counted`), that some are marked as deleted only while an iteration will clean up
(`Cleaned`), and that `iter_lev` counts the iterations (`Iterating`). Growth and
rehash then only have to move elements, in any order. `TableIsMap` goes by what
`Lookup` finds (`Told`). Only `EachExact` needs the order: `ExactInv` states it as
an order of entries (`Precedes`), which nothing but a rebuilt table changes;
`ADD_DIRECT` puts a new entry in front of its chain and moves the others by one
(`AddExact`).

**Only model-checked**: all liveness properties, which are out of the prover's
reach; `FreelistInHeap`, which is violated; and `ImplementsGreenThreads`, whose
proof is in the plan.

## What is not modelled

- Of the threads: ThreadGroup and thread-local variables; `rb_thread_fd_close`;
  trap handlers that run in a thread; the copying of stacks itself; a second
  `exit` while `ruby_cleanup` runs `at_exit` blocks.
- Of signals: `Process.kill`, `trap` with `"EXIT"`, `RUBY_CRITICAL`, signals with
  no exception, the reset of `rb_thread_critical` by a trap, and the signal masks
  of builds other than VMS.
- Of the collector: how the machine stack is scanned (the roots are a set), the
  parts of marking and freeing that belong to a type, `rb_gc_force_recycle`,
  `_id2ref`, the special treatment of nodes during compilation, and finalizers at
  exit.
- Of hashes: default values, the methods that are loops over those modelled, and
  keys whose `hash` or `eql?` is Ruby code that changes the hash.
- Of monitors: exceptions raised by other threads than timers, and programs with
  both timers and kills.
- `timeout.rb`, readers-writer locks, loading, closing a descriptor, `rb_vms_select`.
- The parser (a yacc grammar) and the core classes (sequential algorithms on
  large data, covered by unit tests).
- Start-up, dynamic loading, extensions and most of the VMS layer, which call the
  system; the standard library and the bundled packages, which are independent
  programs.

The modules cover the concurrency, memory and table core of the interpreter, a
small part of its lines: most of the repository is sequential library code,
tables, bindings and bundled packages.

## The plan

1. `RubyThread`, `GreenThreads`, `ThreadMutex`, `ThreadQueue`, with their runs and
   first theorems: done.
2. `Monitor`, `Signals`, `GC`, `HashMap` and `HashTable`, with their runs: done.
3. Proofs of all safety invariants and action properties, and of the refinement of
   `HashMap`: done. Left: the refinement of `GreenThreads`, action by action. It
   needs the hypothesis on `Calls` the runs use, and that a thread which enters the
   scheduler in a critical section cannot go on.
4. Further candidates for modules: `sync.rb` and `mutex_m.rb`;
   `rb_thread_fd_close` in its walk over the ring; `rb_require_safe` and the
   loading table with two threads; `rb_vms_select` and the splitting of the
   command line in `vms.c`.
