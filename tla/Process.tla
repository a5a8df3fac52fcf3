------------------------------- MODULE Process -------------------------------
(***************************************************************************)
(* The life of the process and of its threads (alloc_hook_init.c and the   *)
(* pthread key of alloc_hook_prim_unix.c): loading, the first allocation   *)
(* of a thread, the end of threads and the exit, with the cache of thread  *)
(* data that ending threads leave to starting ones.                        *)
(*                                                                         *)
(* Every access to what threads share is a step.  What a heap holds is in  *)
(* HeapLife; here a heap is the main one, the empty one or the one in some *)
(* thread data.  destroy_on_exit, the reservations from options and the    *)
(* standard descriptors are left out.                                      *)
(***************************************************************************)
EXTENDS Messages, Stats

CONSTANTS
    Main,           \* the thread that loads the program
    Td,             \* the places for thread data
    HeapMain,       \* _alloc_hook_heap_main
    HeapEmpty,      \* _alloc_hook_heap_empty
    Null, NoThread,
    Slots,          \* TD_CACHE_SIZE
    Iterations,     \* PTHREAD_DESTRUCTOR_ITERATIONS
    Programs,       \* programs: what each thread may do, and meet
    MaxCalls,       \* how many calls each thread makes in its life
    MaxLives,       \* how often a thread starts that may start "again"
    MaxFails,       \* how often the OS has no memory or no randomness
    Settings        \* the options that the program sets, with values

\* PTHREAD_DESTRUCTOR_ITERATIONS is 4 or more; of a single round, what a destructor
\* allocates late would be left.  While the main thread loads the program, no other
\* thread ends the process.
ASSUME ProcessAssumption ==
    /\ Main \in Thread /\ NoThread \notin Thread
    /\ Tld = Td \cup {HeapMain} /\ HeapMain \notin Td /\ HeapEmpty \notin Tld /\ Null \notin Tld
    /\ Slots \in Nat /\ Iterations \in Nat \ {0, 1}
    /\ Programs \subseteq
          [Thread -> SUBSET {"malloc", "done", "collect", "merge", "page", "abandoned", "exit",
                             "exit_process", "configure", "register", "early", "late", "again",
                             "fail"}]
    /\ \A p \in Programs, t \in Thread \ {Main} : ~({"early", "exit_process"} \subseteq p[t])
    /\ "show_stats" \in Option
    /\ Settings \subseteq Option \X Int

VARIABLES
    program,    \* one of Programs
    once,       \* process_init, which also is _alloc_hook_process_is_initialized
    tlsDone,    \* tls_initialized
    key,        \* whether _alloc_hook_heap_default_key exists
    mainId,     \* _alloc_hook_heap_main.thread_id
    exited,     \* process_done
    threads,    \* thread_count
    default,    \* _alloc_hook_heap_default of each thread
    keyValue,   \* what each thread has under the key
    owner,      \* the thread_id of the heap in each thread data
    cache,      \* td_cache
    mapped,     \* the thread data whose memory is allocated
    memid,      \* their memid.memkind
    life,       \* the state of each thread: "unborn", "runs" or "over"
    lives, calls, fails,    \* counters for MaxLives, MaxCalls and MaxFails
    loaded,     \* the constructor has run
    pages,      \* how many pages there are, for the statistics
    drift       \* thread_count has gone wrong: see ThreadsCounted

tdVars == <<owner, cache, mapped, memid>>
lifeVars == <<program, life, lives, calls, fails, loaded, pages, drift>>
processVars == <<once, tlsDone, key, mainId, exited, threads>>
vars == <<todo, messageVars, statVars, processVars, tdVars, lifeVars, default, keyValue>>

Slot == 1..Slots
DefaultHeap == Tld \cup {HeapEmpty}

TypeOK ==
    /\ MessagesTypeOK /\ StatsTypeOK
    /\ {once, tlsDone, key, exited, loaded, drift} \subseteq BOOLEAN
    /\ mainId \in Thread \cup {NoThread} /\ threads \in Int
    /\ default \in [Thread -> DefaultHeap]
    /\ keyValue \in [Thread -> DefaultHeap \cup {Null}]
    /\ owner \in [Td -> Thread \cup {NoThread}]
    /\ cache \in [Slot -> Td \cup {Null}]
    /\ mapped \subseteq Td /\ memid \in [Td -> {"none", "os"}]
    /\ life \in [Thread -> {"unborn", "runs", "over"}] /\ pages \in Int

Init ==
    /\ MessagesInit /\ StatsInit
    /\ program \in Programs
    /\ todo = [t \in Thread |-> <<>>]
    /\ once = FALSE /\ tlsDone = FALSE /\ key = FALSE /\ exited = FALSE
    /\ mainId = NoThread /\ threads = 1
    /\ default = [t \in Thread |-> HeapEmpty]
    /\ keyValue = [t \in Thread |-> Null]
    /\ owner = [d \in Td |-> NoThread]
    /\ cache = [i \in Slot |-> Null]
    /\ mapped = {} /\ memid = [d \in Td |-> "none"]
    /\ life = [t \in Thread |-> IF t = Main THEN "runs" ELSE "unborn"]
    /\ lives = [t \in Thread |-> 0] /\ calls = [t \in Thread |-> 0] /\ fails = 0
    /\ loaded = FALSE /\ pages = 0 /\ drift = FALSE

MayFail(t) == "fail" \in program[t] /\ fails < MaxFails

IsMainThread(t) == mainId \in {NoThread, t}

\* _alloc_hook_heap_set_default_direct: the key holds the heap, too, once it exists.
SetDefault(t, h, exists) ==
    /\ default' = [default EXCEPT ![t] = h]
    /\ keyValue' = [keyValue EXCEPT ![t] = IF exists THEN h ELSE @]

\* What only moves control leaves everything else as it is.
Control == UNCHANGED <<messageVars, statVars, processVars, tdVars, lifeVars, default, keyValue>>

(***************************************************************************)
(* The start: process_load, process_init and thread_init.                  *)
(***************************************************************************)
HeapMainInit(t) == mainId' = IF mainId = NoThread THEN t ELSE mainId

\* The main heap gets its random numbers; if the OS has none there is a warning.
\* chacha_init clears the mark that they are weak, so they are not drawn again.
InitHeapMain(t) ==
    /\ Now(t, "heap_main_init")
    /\ HeapMainInit(t)
    /\ \E weak \in {FALSE, mainId = NoThread /\ MayFail(t)} :
       /\ fails' = IF weak THEN fails + 1 ELSE fails
       /\ Then(t, IF weak THEN <<<<"message", "warning">>>> ELSE <<>>)
    /\ UNCHANGED <<once, tlsDone, key, exited, threads, program, life, lives, calls, loaded, pages, drift>>
    /\ UNCHANGED <<messageVars, statVars, tdVars, default, keyValue>>

ProcessLoad(t) ==
    /\ t = Main /\ ~loaded /\ life[t] = "runs"
    /\ Call(t, <<<<"heap_main_init">>, <<"loading">>, <<"options_init">>, <<"auto_done">>,
                 <<"process_init">>>>)
    /\ loaded' = TRUE
    /\ UNCHANGED <<program, life, lives, calls, fails, pages, drift>>
    /\ UNCHANGED <<messageVars, statVars, processVars, tdVars, default, keyValue>>

LoadingDone(t) ==
    /\ Now(t, "loading")
    /\ preloading' = FALSE
    /\ Then(t, <<>>)
    /\ UNCHANGED optionVars /\ UNCHANGED outVars
    /\ UNCHANGED <<statVars, processVars, tdVars, lifeVars, default, keyValue>>

\* alloc_hook_process_setup_auto_thread_done: pthread_key_create may allocate.
SetupAutoDone(t) ==
    /\ Now(t, "auto_done")
    /\ tlsDone' = TRUE
    /\ \E nested \in BOOLEAN :
       Then(t, IF tlsDone THEN <<>>
               ELSE (IF nested /\ default[t] = HeapEmpty THEN <<<<"thread_init">>>> ELSE <<>>)
                    \o <<<<"key">>>>)
    /\ UNCHANGED <<once, key, mainId, exited, threads>>
    /\ UNCHANGED <<messageVars, statVars, tdVars, lifeVars, default, keyValue>>

KeyCreate(t) ==
    /\ Now(t, "key")
    /\ key' = TRUE
    /\ SetDefault(t, HeapMain, TRUE)
    /\ Then(t, <<>>)
    /\ UNCHANGED <<once, tlsDone, mainId, exited, threads>>
    /\ UNCHANGED <<messageVars, statVars, tdVars, lifeVars>>

ProcessInit(t) ==
    /\ Now(t, "process_init")
    /\ once' = TRUE
    /\ Then(t, IF once THEN <<>>
               ELSE <<<<"auto_done">>, <<"heap_main_init">>, <<"thread_init">>,
                      <<"stats_reset", HeapMain>>>>)
    /\ UNCHANGED <<tlsDone, key, mainId, exited, threads>>
    /\ UNCHANGED <<messageVars, statVars, tdVars, lifeVars, default, keyValue>>

ThreadInit(t) ==
    /\ Now(t, "thread_init")
    /\ Then(t, <<<<"process_init">>, <<"heap_init">>>>)
    /\ Control

\* thread_init counts a thread that had no heap, even if it gets none.
Counted == <<<<"stat", "threads", 1>>, <<"count", 1>>>>

HeapInit(t) ==
    /\ Now(t, "heap_init")
    /\ \/ default[t] # HeapEmpty /\ Then(t, <<>>)
       \/ default[t] = HeapEmpty /\ IsMainThread(t)
          /\ Then(t, <<<<"heap_main_init">>, <<"adopt_main">>>> \o Counted)
       \/ default[t] = HeapEmpty /\ ~IsMainThread(t)
          /\ Then(t, <<<<"cached", 1>>>>)
    /\ Control

\* The main thread only gets here from inside pthread_key_create.
AdoptMain(t) ==
    /\ Now(t, "adopt_main")
    /\ SetDefault(t, HeapMain, key)
    /\ drift' = TRUE
    /\ Then(t, <<>>)
    /\ UNCHANGED <<program, life, lives, calls, fails, loaded, pages>>
    /\ UNCHANGED <<messageVars, statVars, processVars, tdVars>>

CountThread(t) ==
    /\ Now(t, "count")
    /\ threads' = threads + Arg(t, 1)
    /\ Then(t, <<>>)
    /\ UNCHANGED <<once, tlsDone, key, mainId, exited>>
    /\ UNCHANGED <<messageVars, statVars, tdVars, lifeVars, default, keyValue>>

(***************************************************************************)
(* Thread data.                                                            *)
(***************************************************************************)
CacheLoad(t) ==
    /\ Now(t, "cached")
    /\ LET i == Arg(t, 1) IN
       Then(t, IF i > Slots THEN <<<<"os_alloc", 1>>>>
               ELSE IF cache[i] = Null THEN <<<<"cached", i + 1>>>> ELSE <<<<"exchange", i>>>>)
    /\ Control

\* Mutant of Exchanged: the slot is not emptied.
Peeked(i) == UNCHANGED cache

\* What an exchange with NULL finds in the slot.
Exchanged(i) == cache' = [cache EXCEPT ![i] = Null]

\* _alloc_hook_memzero_aligned clears the memid with the rest.
Wiped(d) == memid' = [memid EXCEPT ![d] = "none"]

CacheExchange(t) ==
    /\ Now(t, "exchange")
    /\ LET i == Arg(t, 1)
           d == cache[i] IN
       /\ Exchanged(i)
       /\ \/ d # Null /\ Then(t, <<<<"fill", d>>>>) /\ Wiped(d)
          \/ d = Null /\ Then(t, <<<<"cached", i + 1>>>>) /\ UNCHANGED memid
    /\ UNCHANGED <<owner, mapped>>
    /\ UNCHANGED <<messageVars, statVars, processVars, lifeVars, default, keyValue>>

\* Memory of the OS; it is tried twice.
TdAlloc(t) ==
    /\ Now(t, "os_alloc")
    /\ \/ \E d \in Td \ mapped :
          /\ mapped' = mapped \cup {d}
          /\ memid' = [memid EXCEPT ![d] = "os"]
          /\ Then(t, <<<<"fill", d>>>>)
          /\ UNCHANGED <<fails, drift>>
       \/ /\ MayFail(t) \/ mapped = Td
          /\ fails' = IF mapped = Td THEN fails ELSE fails + 1
          /\ drift' = (drift \/ Arg(t, 1) = 2)
          /\ Then(t, IF Arg(t, 1) = 1 THEN <<<<"os_alloc", 2>>>>
                     ELSE <<<<"message", "error">>>> \o Counted)
          /\ UNCHANGED <<mapped, memid>>
    /\ UNCHANGED <<owner, cache, program, life, lives, calls, loaded, pages>>
    /\ UNCHANGED <<messageVars, statVars, processVars, default, keyValue>>

\* The empty heap and tld are copied in, the random numbers drawn.
TdFill(t) ==
    /\ Now(t, "fill")
    /\ LET d == Arg(t, 1) IN
       /\ owner' = [owner EXCEPT ![d] = t]
       /\ local' = [local EXCEPT ![d] = Zero]
       /\ \E weak \in {FALSE, MayFail(t)} :
          /\ fails' = IF weak THEN fails + 1 ELSE fails
          /\ Then(t, (IF weak THEN <<<<"message", "warning">>>> ELSE <<>>)
                     \o <<<<"adopt", d>>>> \o Counted)
    /\ UNCHANGED <<cache, mapped, memid, program, life, lives, calls, loaded, pages, drift, total>>
    /\ UNCHANGED <<messageVars, processVars, default, keyValue>>

TdAdopt(t) ==
    /\ Now(t, "adopt")
    /\ SetDefault(t, Arg(t, 1), key)
    /\ Then(t, <<>>)
    /\ UNCHANGED <<messageVars, statVars, processVars, tdVars, lifeVars>>

\* _alloc_hook_os_free does nothing without a memid of the OS.
Unmap(d) == mapped' = IF memid[d] = "os" THEN mapped \ {d} ELSE mapped

CacheFind(t) ==
    /\ Now(t, "put")
    /\ LET i == Arg(t, 1)
           d == Arg(t, 2) IN
       \/ /\ i > Slots
          /\ Unmap(d)
          /\ Then(t, <<>>)
       \/ /\ i <= Slots
          /\ Then(t, IF cache[i] = Null THEN <<<<"put_cas", i, d>>>> ELSE <<<<"put", i + 1, d>>>>)
          /\ UNCHANGED mapped
    /\ UNCHANGED <<owner, cache, memid>>
    /\ UNCHANGED <<messageVars, statVars, processVars, lifeVars, default, keyValue>>

\* A slot can be taken if it is still empty.
Vacant(i) == cache[i] = Null

CachePut(t) ==
    /\ Now(t, "put_cas")
    /\ LET i == Arg(t, 1)
           d == Arg(t, 2) IN
       \/ /\ Vacant(i)
          /\ cache' = [cache EXCEPT ![i] = d]
          /\ Then(t, <<>>)
       \/ /\ Then(t, <<<<"put", i + 1, d>>>>)
          /\ UNCHANGED cache
    /\ UNCHANGED <<owner, mapped, memid>>
    /\ UNCHANGED <<messageVars, statVars, processVars, lifeVars, default, keyValue>>

\* _alloc_hook_thread_data_collect.
CacheDrain(t) ==
    /\ Now(t, "drain")
    /\ LET i == Arg(t, 1) IN
       Then(t, IF i > Slots THEN <<>>
               ELSE (IF cache[i] = Null THEN <<>> ELSE <<<<"drain_take", i>>>>)
                    \o <<<<"drain", i + 1>>>>)
    /\ Control

DrainTake(t) ==
    /\ Now(t, "drain_take")
    /\ LET i == Arg(t, 1) IN
       /\ Exchanged(i)
       /\ IF cache[i] = Null THEN UNCHANGED mapped ELSE Unmap(cache[i])
    /\ Then(t, <<>>)
    /\ UNCHANGED <<owner, memid>>
    /\ UNCHANGED <<messageVars, statVars, processVars, lifeVars, default, keyValue>>

(***************************************************************************)
(* The end of a thread.                                                    *)
(***************************************************************************)
\* _alloc_hook_thread_done(h); the empty heap is passed once the heap is gone.
ThreadDone(t) ==
    /\ Now(t, "thread_done")
    /\ LET h == Arg(t, 1) IN
       /\ Then(t, IF h = HeapEmpty THEN <<>>
                  ELSE <<<<"count", -1>>, <<"stat", "threads", -1>>, <<"heap_done", h>>>>)
       /\ drift' = (drift \/ h = HeapMain)
    /\ UNCHANGED <<program, life, lives, calls, fails, loaded, pages>>
    /\ UNCHANGED <<messageVars, statVars, processVars, tdVars, default, keyValue>>

\* The heap that a thread is left with.
LeftWith(t) == IF IsMainThread(t) THEN HeapMain ELSE HeapEmpty

HeapDone(t) ==
    /\ Now(t, "heap_done")
    /\ LET h == Arg(t, 1) IN
       /\ SetDefault(t, LeftWith(t), key)
       /\ Then(t, <<<<"merge", h>>>> \o (IF h = HeapMain THEN <<>> ELSE <<<<"put", 1, h>>>>))
    /\ UNCHANGED <<messageVars, statVars, processVars, tdVars, lifeVars>>

\* The destructors of pthread keys: as long as there are values, at most Iterations
\* rounds.  Those of other keys may allocate, in the first round.
ThreadExit(t) ==
    /\ "exit" \in program[t] /\ life[t] = "runs" /\ (t = Main => loaded)
    /\ Call(t, <<<<"destructors", 1>>>>)
    /\ life' = [life EXCEPT ![t] = "over"]
    /\ UNCHANGED <<program, lives, calls, fails, loaded, pages, drift>>
    /\ UNCHANGED <<messageVars, statVars, processVars, tdVars, default, keyValue>>

Destructors(t) ==
    /\ Now(t, "destructors")
    /\ LET n == Arg(t, 1)
           h == keyValue[t]
           goOn == h # Null /\ n <= Iterations IN
       /\ keyValue' = [keyValue EXCEPT ![t] = IF goOn THEN Null ELSE @]
       /\ \E late \in {FALSE, n = 1 /\ "late" \in program[t]} :
          Then(t, IF goOn THEN <<<<"thread_done", h>>>>
                               \o (IF late THEN <<<<"malloc">>>> ELSE <<>>)
                               \o <<<<"destructors", n + 1>>>>
                  ELSE <<>>)
    /\ UNCHANGED <<messageVars, statVars, processVars, tdVars, lifeVars, default>>

\* _alloc_hook_malloc_generic: a thread without a heap gets one.
MallocGeneric(t) ==
    /\ Now(t, "malloc")
    /\ Then(t, IF default[t] = HeapEmpty THEN <<<<"thread_init">>>> ELSE <<>>)
    /\ Control

(***************************************************************************)
(* The program.                                                            *)
(***************************************************************************)
\* Other threads start once the main thread has its heap: creating one allocates.
ThreadStart(t) ==
    /\ t # Main /\ Idle(t) /\ life[t] # "runs" 
    /\ lives[t] < (IF "again" \in program[t] THEN MaxLives ELSE 1) /\ program[t] # {}
    /\ default[Main] = HeapMain /\ Idle(Main)
    /\ loaded \/ "early" \in program[t]
    /\ life' = [life EXCEPT ![t] = "runs"]
    /\ lives' = [lives EXCEPT ![t] = @ + 1]
    /\ calls' = [calls EXCEPT ![t] = 0]
    /\ default' = [default EXCEPT ![t] = HeapEmpty]
    /\ keyValue' = [keyValue EXCEPT ![t] = Null]
    /\ UNCHANGED <<todo, program, fails, loaded, pages, drift>>
    /\ UNCHANGED <<messageVars, statVars, processVars, tdVars>>

\* A call that the program makes of t.
Calling(t, op, steps) ==
    /\ op \in program[t] /\ life[t] = "runs" /\ calls[t] < MaxCalls
    /\ Call(t, steps)
    /\ calls' = [calls EXCEPT ![t] = @ + 1]

\* malloc of a thread without a heap, thread_done, collect(true), stats_merge, and the
\* exit of the process.
ProgramCalls(t) ==
    /\ \/ default[t] = HeapEmpty /\ Calling(t, "malloc", <<<<"malloc">>>>)
       \/ Calling(t, "done", <<<<"thread_done", default[t]>>>>)
       \/ Calling(t, "collect", <<<<"collect">>>>)
       \/ default[t] # HeapEmpty /\ Calling(t, "merge", <<<<"merge", default[t]>>>>)
       \/ loaded /\ Calling(t, "exit_process", <<<<"process_done">>>>)
    /\ UNCHANGED <<program, life, lives, fails, loaded, pages, drift>>
    /\ UNCHANGED <<messageVars, statVars, processVars, tdVars, default, keyValue>>

\* A page comes or goes: in the statistics of the thread, or of the process if the
\* page is abandoned.
CountPage(t) ==
    /\ default[t] # HeapEmpty
    /\ \/ \E n \in {1, -1} :
          /\ Calling(t, "page", <<>>)
          /\ local' = [local EXCEPT ![default[t]] = Updated(@, n)]
          /\ pages' = pages + n
       \/ /\ Calling(t, "abandoned", <<<<"stat", "pages", -1>>>>)
          /\ pages' = pages - 1
          /\ UNCHANGED local
    /\ UNCHANGED <<program, life, lives, fails, loaded, drift, total>>
    /\ UNCHANGED <<messageVars, processVars, tdVars, default, keyValue>>

\* alloc_hook_heap_collect_ex(default, force), as far as this module goes.
CollectForce(t) ==
    /\ Now(t, "collect")
    /\ Then(t, IF default[t] # HeapEmpty /\ IsMainThread(t) THEN <<<<"drain", 1>>>> ELSE <<>>)
    /\ Control

ProcessDone(t) ==
    /\ Now(t, "process_done")
    /\ exited' = (exited \/ once)
    /\ Then(t, IF ~once \/ exited THEN <<>>
               ELSE <<<<"collect">>, <<"get", "show_stats">>, <<"stats_print">>, <<"unload">>>>)
    /\ UNCHANGED <<once, tlsDone, key, mainId, threads>>
    /\ UNCHANGED <<messageVars, statVars, tdVars, lifeVars, default, keyValue>>

\* alloc_hook_stats_print makes a heap for a thread that has none, then merges.
StatsPrint(t) ==
    /\ Now(t, "stats_print")
    /\ Then(t, IF value["show_stats"] = 0 /\ value["verbose"] = 0 THEN <<>>
               ELSE <<<<"malloc">>, <<"print_merge">>>>)
    /\ Control

\* Without memory for the heap the code would fault here, and the process is over.
PrintMerge(t) ==
    /\ Now(t, "print_merge")
    /\ Then(t, IF default[t] = HeapEmpty THEN <<>> ELSE <<<<"merge", default[t]>>>>)
    /\ Control

Unload(t) ==
    /\ Now(t, "unload")
    /\ preloading' = TRUE
    /\ Then(t, <<>>)
    /\ UNCHANGED optionVars /\ UNCHANGED outVars
    /\ UNCHANGED <<statVars, processVars, tdVars, lifeVars, default, keyValue>>

\* Options and the output function are set by the main thread, once it has loaded;
\* a thread that is still reading an option would undo the setting.
Configure(t) ==
    /\ t = Main /\ loaded /\ life[t] = "runs"
    /\ \/ "configure" \in program[t] /\ \E s \in Settings :
          /\ ~Reading(s[1]) /\ given[s[1]] = Absent
          /\ OptionSet(t, s[1], s[2]) \/ OptionSetDefault(t, s[1], s[2])
       \/ /\ "register" \in program[t] /\ outDefault = "bufStderr"
          /\ \E out \in {"user", "stderr"} : RegisterOutput(t, out)
    /\ UNCHANGED <<statVars, processVars, tdVars, lifeVars, default, keyValue>>

Step(t) ==
    \/ MessageStep(t) /\ UNCHANGED <<statVars, processVars, tdVars, lifeVars, default, keyValue>>
    \/ StatStep(t) /\ UNCHANGED <<messageVars, processVars, tdVars, lifeVars, default, keyValue>>
    \/ InitHeapMain(t) \/ ProcessLoad(t) \/ LoadingDone(t) \/ SetupAutoDone(t) \/ KeyCreate(t)
    \/ ProcessInit(t) \/ ThreadInit(t) \/ HeapInit(t) \/ AdoptMain(t) \/ CountThread(t)
    \/ CacheLoad(t) \/ CacheExchange(t) \/ TdAlloc(t) \/ TdFill(t) \/ TdAdopt(t)
    \/ CacheFind(t) \/ CachePut(t) \/ CacheDrain(t) \/ DrainTake(t)
    \/ ThreadDone(t) \/ HeapDone(t) \/ ThreadExit(t) \/ Destructors(t) \/ MallocGeneric(t)
    \/ ThreadStart(t) \/ ProgramCalls(t) \/ CountPage(t) \/ CollectForce(t)
    \/ ProcessDone(t) \/ StatsPrint(t) \/ PrintMerge(t) \/ Unload(t) \/ Configure(t)

\* Steps that read and write nothing that another thread has a part in.  They commute
\* with the steps of other threads, so it is enough to take them at once.
Private ==
    {"malloc", "thread_init", "heap_init", "adopt", "thread_done", "heap_done", "destructors",
     "merge", "clear", "message", "options_init", "collect", "print_merge"}
AtOnce == {t \in Thread : ~Idle(t) /\ Head(todo[t])[1] \in Private}

Next == \E t \in Thread : (AtOnce # {} => t \in AtOnce) /\ Step(t)

Spec == Init /\ [][Next]_vars
=============================================================================
