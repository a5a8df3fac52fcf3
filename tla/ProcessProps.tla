---------------------------- MODULE ProcessProps ----------------------------
(***************************************************************************)
(* What must hold of threads, thread data, options, output and statistics. *)
(***************************************************************************)
EXTENDS Process, FiniteSetsExt

(***************************************************************************)
(* Thread data.                                                            *)
(***************************************************************************)
\* t has taken d and has not made it its heap yet, or has given up its heap and has
\* not put d back.
InHand(t, d) ==
    \E step \in Ahead(t) : \/ step[1] \in {"fill", "adopt"} /\ step[2] = d
                           \/ step[1] \in {"put", "put_cas"} /\ step[3] = d

Places(d) ==
    {<<"cache", i>> : i \in {j \in Slot : cache[j] = d}}
    \cup {<<"heap", t>> : t \in {u \in Thread : default[u] = d}}
    \cup {<<"hand", t>> : t \in {u \in Thread : InHand(u, d)}}

\* Whatever starting, ending and collecting threads do to the cache at the same time,
\* thread data is in one slot of the cache or with one thread, its owner, and is mapped
\* as long; only what has been through the cache may be lost (init.c:219, 256, 271). A
\* thread that is over has none, and nobody but the main thread works with the main heap.
ThreadDataSound ==
    /\ TypeOK
    /\ \A d \in Td :
       /\ Cardinality(Places(d)) <= 1
       /\ Places(d) # {} => d \in mapped
       /\ d \in mapped /\ Places(d) = {} => memid[d] = "none"
    /\ \A t \in Thread :
       /\ default[t] \in Td => owner[default[t]] = t
       /\ default[t] = HeapMain => IsMainThread(t)
       /\ life[t] = "over" /\ Idle(t) => default[t] \notin Td

(***************************************************************************)
(* Options.                                                                *)
(***************************************************************************)
\* What the environment says of o: the new name hides the old one.
EnvOf(o) == IF env.name[o] # Absent THEN env.name[o] ELSE env.old[o]
FromEnvironment(o) == IF EnvOf(o) \in {Absent, Bogus} THEN Initial[o] ELSE EnvOf(o)

\* Threads that read an option for the first time at the same time, and before the
\* environment may be there, agree in the end: an option that nobody is reading has the
\* value it was set to, or else that of the environment once it counts as read, which
\* every option does when the program has loaded (options.c:28, 84, 540).
OptionsResolve ==
    \A o \in Option :
       ~Reading(o) =>
          /\ given[o] # Absent => value[o] = given[o]
          /\ given[o] = Absent =>
                value[o] = IF init[o] # "UNINIT" THEN FromEnvironment(o) ELSE Initial[o]
          /\ loaded /\ Idle(Main) => init[o] # "UNINIT"

(***************************************************************************)
(* Output.                                                                 *)
(***************************************************************************)
Copying == {t \in Thread : Now(t, "copy")}
Target(t) == Arg(t, 1)..(Arg(t, 1) + Arg(t, 2) - 1)

\* Messages that threads copy into the delayed output at the same time, and the
\* terminator while the buffer is handed to an output function, never meet, and stay
\* inside the buffer with a zero at its end (options.c:190, 206).
BufferSound ==
    /\ \A t \in Copying :
       /\ Target(t) \subseteq 0..(MaxDelay - 2)
       /\ \A i \in Target(t) : outBuf[i] = "zero"
       /\ \A u \in Copying \ {t} : Target(t) \cap Target(u) = {}
       /\ \A u \in Thread : Now(u, "deliver") => Arg(u, 1) \notin Target(t)
    /\ \A t \in Thread : Now(t, "deliver") => outBuf[Arg(t, 1)] = "zero"

(***************************************************************************)
(* Statistics.                                                             *)
(***************************************************************************)
Balanced(c) == c.current = c.allocated - c.freed

\* When no call is under way, no update of a statistic has been lost between threads:
\* each count balances, the pages of the process and of the threads add up, and the peak
\* of the threads is no less than their number (stats.c:28, 75, 384). The count of
\* threads is that of the threads with a heap of their own and the main one, unless
\* thread_done was called for the main heap, a heap could not be made, or
\* pthread_key_create allocated (init.c:404, 409, 428).
ThreadsCounted ==
    Quiet =>
       /\ \A s \in Stat : Balanced(total[s])
       /\ \A d \in Tld : Balanced(local[d])
       /\ pages = total["pages"].current + MapThenSumSet(LAMBDA d : local[d].current, Tld)
       /\ total["threads"].peak >= total["threads"].current
       /\ ~drift => /\ threads = 1 + Cardinality({t \in Thread : default[t] \in Td})
                    /\ total["threads"].current = threads - 1

(***************************************************************************)
(* The inductive invariant, in parts.  First what threads have ahead of    *)
(* them: the steps that there are, and which may come above which.         *)
(***************************************************************************)
PlainFrame ==
    {<<n>> : n \in {"malloc", "thread_init", "process_init", "heap_init", "heap_main_init",
                    "loading", "options_init", "auto_done", "key", "adopt_main", "collect",
                    "process_done", "stats_print", "print_merge", "unload",
                    "quiet", "fputs", "add_stderr", "limits"}}

MessageFrame ==
    ({"get", "getenv", "initialized"} \X Option)
    \cup ({"parse"} \X Option \X (Int \cup {Bogus}))
    \cup ({"message", "verbose?", "limit?"} \X Kind)
    \cup ({"out"} \X {"buf", "bufStderr", "stderr", "user"} \X (Nat \ {0}))
    \cup ({"claim"} \X (Nat \ {0}))
    \cup ({"copy"} \X Nat \X Nat)
    \cup ({"flush"} \X BOOLEAN)
    \cup ({"terminate", "deliver"} \X (0..MaxDelay) \X BOOLEAN)

StatFrame ==
    ({"stat", "peak", "flow"} \X Stat \X Int)
    \cup ({"peakCas"} \X Stat \X Int \X Int)
    \cup ({"merge", "clear", "stats_reset", "heap_done"} \X Tld)
    \cup ({"add"} \X Tld \X Field)
    \cup ({"count"} \X Int)

DataFrame ==
    ({"cached", "os_alloc", "drain", "destructors"} \X (Nat \ {0}))
    \cup ({"exchange", "drain_take"} \X Slot)
    \cup ({"fill", "adopt"} \X Td)
    \cup ({"put"} \X (Nat \ {0}) \X Td)
    \cup ({"put_cas"} \X Slot \X Td)
    \cup ({"thread_done"} \X DefaultHeap)

Frame == PlainFrame \cup MessageFrame \cup StatFrame \cup DataFrame

\* Steps that only come first, those of the main thread, those of a thread on its way to
\* thread data, and three sets of steps that only call steps of the set.
HeadNames == {"claim", "copy", "terminate", "deliver", "cached", "exchange", "os_alloc", "fill",
              "thread_done"}
MainNames == {"heap_main_init", "loading", "options_init", "auto_done", "key", "adopt_main",
              "stats_reset", "flush", "terminate", "deliver", "add_stderr", "limits"}
OwnNames == {"cached", "exchange", "os_alloc", "fill", "adopt"}
CountNames == {"count", "stat", "peak", "peakCas", "flow", "merge", "add", "clear"}
DoneNames == CountNames \cup {"thread_done", "heap_done", "put", "put_cas"}
MessageNames == {"get", "getenv", "parse", "initialized", "quiet", "message", "verbose?",
                 "limit?", "fputs", "out", "claim", "copy"}

\* The step `up' may come above the step `low'.
Over(low, up) ==
    /\ low[1] \notin HeadNames /\ up[1] # "destructors"
    /\ low[1] \in {"heap_done", "put", "put_cas"} => up[1] \in CountNames
    /\ low[1] = "adopt" => up[1] \in MessageNames
    /\ low[1] = "loading" => up[1] # "options_init"
    /\ low[1] = "destructors" /\ low[2] > 2 => up[1] \in DoneNames

Stacked(s) == \A i \in DOMAIN s : \A j \in 1..(i - 1) : Over(s[i], s[j])

StackInv ==
    /\ todo \in [Thread -> Seq(Frame)]
    /\ \A t \in Thread :
       /\ Stacked(todo[t])
       /\ \A s \in Ahead(t) : s[1] \in MainNames => t = Main

(***************************************************************************)
(* The start of the process: the key, the main heap and `once'.            *)
(***************************************************************************)
Has(t, name) == \E s \in Ahead(t) : s[1] = name

Started == key /\ once /\ mainId = Main

EarlyNames == {"malloc", "thread_init", "process_init", "heap_init", "thread_done", "collect"}

BootInv ==
    /\ mainId \in {NoThread, Main}
    /\ \A t \in Thread \ {Main} : life[t] # "unborn" \/ ~Idle(t) => Started
    /\ ~once /\ ~loaded =>
          /\ default[Main] = HeapEmpty /\ ~tlsDone
          /\ \A s \in Ahead(Main) : s[1] \in EarlyNames
          /\ Has(Main, "heap_init") => Now(Main, "process_init")
    /\ tlsDone => key \/ Has(Main, "key")
    /\ once \/ loaded => key \/ Has(Main, "key") \/ Has(Main, "auto_done")
    /\ once => mainId = Main \/ Has(Main, "heap_main_init")
    /\ loaded => once \/ Has(Main, "process_init")

(***************************************************************************)
(* Thread data.                                                            *)
(***************************************************************************)
\* t is about to give up its heap.
Ending(t) == Has(t, "thread_done") \/ Has(t, "heap_done")

\* What holds of a step s that t has ahead of it.
DataStep(t, s) ==
    /\ s[1] \in OwnNames => t # Main /\ default[t] = HeapEmpty
    /\ s[1] = "adopt" => owner[s[2]] = t
    /\ s[1] \in {"thread_done", "heap_done"} => s[2] = default[t]
    /\ s[1] = "destructors" =>
          life[t] # "runs" /\ (s[2] > 2 /\ default[t] \in Td => Ending(t))

HeapInv(t) ==
    /\ \A s \in Ahead(t) : DataStep(t, s)
    /\ default[t] \in Td => /\ t # Main /\ owner[default[t]] = t
                            /\ keyValue[t] = default[t] \/ Ending(t)
    /\ default[t] = HeapMain => t = Main
    /\ keyValue[t] \in {Null, default[t]}
    /\ ~key => keyValue[t] = Null
    /\ life[t] # "runs" /\ Idle(t) => default[t] \notin Td
    /\ life[t] # "runs" /\ ~Idle(t) => Has(t, "destructors")

PlaceInv(d) ==
    /\ \A p, q \in Places(d) : p = q
    /\ Places(d) # {} => d \in mapped
    /\ d \in mapped /\ Places(d) = {} => memid[d] = "none"

DataInv == (\A t \in Thread : HeapInv(t)) /\ (\A d \in Td : PlaceInv(d))

(***************************************************************************)
(* Output.                                                                 *)
(***************************************************************************)
Closing(t) == Now(t, "terminate") \/ Now(t, "deliver")

OutputInv ==
    /\ \A i \in 0..(MaxDelay - 1) : i >= outLen => outBuf[i] = "zero"
    /\ \A t \in Copying :
       /\ Arg(t, 1) + Arg(t, 2) <= outLen /\ Arg(t, 1) + Arg(t, 2) < MaxDelay
       /\ \A i \in Target(t) : outBuf[i] = "zero"
       /\ \A u \in Copying \ {t} : Target(t) \cap Target(u) = {}
    /\ \A t \in Thread : Closing(t) =>
       /\ Arg(t, 1) < outLen \/ Arg(t, 1) = MaxDelay
       /\ \A u \in Copying : Arg(t, 1) \notin Target(u)
    /\ \A t \in Thread : Now(t, "deliver") => outBuf[Arg(t, 1)] = "zero"

(***************************************************************************)
(* Options.                                                                *)
(***************************************************************************)
\* t has a step with a name in N for the option o ahead of it.
HasFor(t, N, o) == \E s \in Ahead(t) : s[1] \in N /\ s[2] = o

\* The program has loaded and every option has been looked for.
Ready == loaded /\ \A o \in Option : init[o] # "UNINIT"

\* What holds of a step s that some thread has ahead of it.
OptionStep(s) ==
    /\ s[1] = "getenv" => given[s[2]] = Absent
    /\ s[1] = "parse" => given[s[2]] = Absent /\ s[3] = EnvOf(s[2]) /\ s[3] # Absent
    /\ s[1] = "initialized" =>
          given[s[2]] # Absent \/ (EnvOf(s[2]) \notin {Absent, Bogus} /\ value[s[2]] = EnvOf(s[2]))
    /\ s[1] = "quiet" => given["verbose"] = Absent /\ EnvOf("verbose") = Bogus
    /\ s[1] \in {"process_done", "unload"} => Ready

ValueInv(o) ==
    /\ given[o] # Absent => value[o] = given[o] /\ init[o] # "UNINIT"
    /\ given[o] = Absent /\ EnvOf(o) \in {Absent, Bogus} =>
          value[o] = Initial[o] \/ (o = "verbose" /\ \E t \in Thread : Has(t, "quiet"))
    /\ given[o] = Absent /\ EnvOf(o) \notin {Absent, Bogus} =>
          /\ init[o] # "UNINIT" => value[o] = EnvOf(o)
          /\ value[o] = Initial[o] \/ init[o] # "UNINIT"
                \/ \E t \in Thread : HasFor(t, {"initialized"}, o)

\* While the program loads, the main thread has the options ahead of it.
LoadInv ==
    /\ loaded => \A o \in Option :
          init[o] # "UNINIT" \/ Has(Main, "options_init")
             \/ HasFor(Main, {"get", "getenv", "parse", "initialized"}, o)
    /\ loaded /\ preloading => Ready \/ Has(Main, "options_init")
    /\ preloading /\ Has(Main, "options_init") => Ready \/ Has(Main, "loading")
    /\ \A t \in Thread \ {Main} : "early" \notin program[t] /\ life[t] # "unborn" => Ready

OptionsInv ==
    /\ \A t \in Thread : \A s \in Ahead(t) : OptionStep(s)
    /\ \A o \in Option : ValueInv(o)
    /\ LoadInv

ChoiceInv == /\ program \in Programs /\ env \in Environments
             /\ given \in [Option -> Int \cup {Absent}]

\* The inductive invariant.
IInv ==
    /\ TypeOK /\ ChoiceInv
    /\ StackInv /\ BootInv /\ DataInv /\ OutputInv /\ OptionsInv
=============================================================================
