------------------------------ MODULE Messages ------------------------------
(***************************************************************************)
(* Options, warnings and the delayed output of alloc_hook_options.c.       *)
(*                                                                         *)
(* An option is read from the environment when it is first asked for; what *)
(* it reads may be a warning, whose own options are read on the way.       *)
(* Messages go to a buffer until the program registers a function for      *)
(* them.  The wording is left out: a message is a prefix and a text of     *)
(* fixed lengths.  The guards of alloc_hook_recurse_enter only bite when   *)
(* the C runtime or an output function allocates, which they do not here.  *)
(***************************************************************************)
EXTENDS CallStack, FiniteSets

CONSTANTS
    Options,        \* the options, in the order of their enumeration
    Initial,        \* each option's value in the table
    Environments,   \* the environments that the program may start in
    Absent, Bogus,  \* a variable that is not set, one that is not a number
    MaxDelay,       \* ALLOC_HOOK_MAX_DELAY_OUTPUT
    PrefixLen, TextLen

Option == {Options[i] : i \in DOMAIN Options}
Kind == {"error", "warning"}
NoOption == "none"

ASSUME MessagesAssumption ==
    /\ {"verbose", "show_errors", "max_errors", "max_warnings"} \subseteq Option
    /\ Initial \in [Option -> Int] /\ Initial["verbose"] = 0
    /\ Options \in Seq(Option)
    /\ Absent \notin Int /\ Bogus \notin Int /\ Absent # Bogus
    /\ Environments \subseteq [name : [Option -> Int \cup {Absent, Bogus}],
                               old : [Option -> Int \cup {Absent, Bogus}]]
    /\ MaxDelay \in Nat \ {0} /\ PrefixLen \in Nat \ {0} /\ TextLen \in Nat \ {0}

VARIABLES
    env,        \* the environment: by the options' names, and by their old names
    preloading, \* os_preloading of alloc_hook_init.c
    value,      \* options[o].value
    init,       \* options[o].init
    given,      \* what each option was set to explicitly; the code does not have it
    limit,      \* alloc_hook_max_error_count, alloc_hook_max_warning_count
    said,       \* error_count, warning_count
    outDefault, \* alloc_hook_out_default
    outLen,     \* out_len
    outBuf      \* out_buf

optionVars == <<env, value, init, given, limit>>
outVars == <<said, outDefault, outLen, outBuf>>
messageVars == <<env, preloading, value, init, given, limit, said, outDefault, outLen, outBuf>>

MessagesTypeOK ==
    /\ preloading \in BOOLEAN
    /\ value \in [Option -> Int]
    /\ init \in [Option -> {"UNINIT", "DEFAULTED", "INITIALIZED"}]
    /\ limit \in [Kind -> Int] /\ said \in [Kind -> Nat]
    /\ outDefault \in {"buf", "bufStderr", "stderr", "user"}
    /\ outLen \in Nat
    /\ outBuf \in [0..MaxDelay -> {"zero", "text", "newline"}]

MessagesInit ==
    /\ env \in Environments
    /\ preloading = TRUE
    /\ value = Initial
    /\ init = [o \in Option |-> "UNINIT"]
    /\ given = [o \in Option |-> Absent]
    /\ limit = [k \in Kind |-> 16] /\ said = [k \in Kind |-> 0]
    /\ outDefault = "buf" /\ outLen = 0
    /\ outBuf = [i \in 0..MaxDelay |-> "zero"]

(***************************************************************************)
(* Options.                                                                *)
(***************************************************************************)
OptionGet(t) ==
    /\ Now(t, "get")
    /\ LET o == Arg(t, 1) IN
       Then(t, IF init[o] = "UNINIT" THEN <<<<"getenv", o>>>> ELSE <<>>)
    /\ UNCHANGED messageVars

\* Mutant of NotFound: the default is settled at once.
NotFoundEarly(o) == [init EXCEPT ![o] = "DEFAULTED"]

\* What becomes of an option that is not found: while the program is loading the
\* environment may not be there yet.
NotFound(o) == IF preloading THEN init ELSE [init EXCEPT ![o] = "DEFAULTED"]

OptionInit(t) ==
    /\ Now(t, "getenv")
    /\ LET o == Arg(t, 1)
           name == env.name[o]
           old == env.old[o] IN
       \E readable \in {TRUE, ~preloading} :
          \/ /\ readable /\ name # Absent
             /\ Then(t, <<<<"parse", o, name>>>>)
             /\ UNCHANGED init
          \/ /\ readable /\ name = Absent /\ old # Absent
             /\ Then(t, <<<<"message", "warning">>, <<"parse", o, old>>>>)
             /\ UNCHANGED init
          \/ /\ readable => name = Absent /\ old = Absent
             /\ init' = NotFound(o)
             /\ Then(t, <<>>)
    /\ UNCHANGED <<env, preloading, value, given, limit>> /\ UNCHANGED outVars

\* `verbose' is switched on for the warning about its own value.
OptionParse(t) ==
    /\ Now(t, "parse")
    /\ LET o == Arg(t, 1)
           v == Arg(t, 2) IN
       \/ /\ v # Bogus
          /\ value' = [value EXCEPT ![o] = v]
          /\ Then(t, <<<<"initialized", o>>>>)
          /\ UNCHANGED init
       \/ /\ v = Bogus
          /\ init' = [init EXCEPT ![o] = "DEFAULTED"]
          /\ \/ /\ o = "verbose" /\ value[o] = 0
                /\ value' = [value EXCEPT ![o] = 1]
                /\ Then(t, <<<<"message", "warning">>, <<"quiet">>>>)
             \/ /\ ~(o = "verbose" /\ value[o] = 0)
                /\ Then(t, <<<<"message", "warning">>>>)
                /\ UNCHANGED value
    /\ UNCHANGED <<env, preloading, given, limit>> /\ UNCHANGED outVars

OptionInitialized(t) ==
    /\ Now(t, "initialized")
    /\ init' = [init EXCEPT ![Arg(t, 1)] = "INITIALIZED"]
    /\ Then(t, <<>>)
    /\ UNCHANGED <<env, preloading, value, given, limit>> /\ UNCHANGED outVars

VerboseQuiet(t) ==
    /\ Now(t, "quiet")
    /\ value' = [value EXCEPT !["verbose"] = 0]
    /\ Then(t, <<>>)
    /\ UNCHANGED <<env, preloading, init, given, limit>> /\ UNCHANGED outVars

\* Some thread is between reading o from the environment and storing it.
Reading(o) ==
    \E t \in Thread : \/ \E step \in Ahead(t) : step[1] \in {"getenv", "parse", "initialized"} /\ step[2] = o
                      \/ o = "verbose" /\ \E step \in Ahead(t) : step[1] = "quiet"

OptionSet(t, o, v) ==
    /\ Call(t, <<<<"initialized", o>>>>)
    /\ value' = [value EXCEPT ![o] = v]
    /\ given' = [given EXCEPT ![o] = v]
    /\ UNCHANGED <<env, preloading, init, limit>> /\ UNCHANGED outVars

OptionSetDefault(t, o, v) ==
    /\ Idle(t)
    /\ init[o] # "INITIALIZED"
    /\ value' = [value EXCEPT ![o] = v]
    /\ given' = [given EXCEPT ![o] = v]
    /\ UNCHANGED <<env, preloading, init, limit, todo>> /\ UNCHANGED outVars

\* The rest of _alloc_hook_options_init: every option, then the limits.
OptionsInit(t) ==
    /\ Now(t, "options_init")
    /\ Then(t, <<<<"flush", FALSE>>, <<"add_stderr">>>>
               \o [i \in DOMAIN Options |-> <<"get", Options[i]>>] \o <<<<"limits">>>>)
    /\ UNCHANGED messageVars

SetLimits(t) ==
    /\ Now(t, "limits")
    /\ limit' = [error |-> value["max_errors"], warning |-> value["max_warnings"]]
    /\ Then(t, <<>>)
    /\ UNCHANGED <<env, preloading, value, init, given>> /\ UNCHANGED outVars

(***************************************************************************)
(* Messages.                                                               *)
(***************************************************************************)
Message(t) ==
    /\ Now(t, "message")
    /\ Then(t, <<<<"get", "verbose">>, <<"verbose?", Arg(t, 1)>>>>)
    /\ UNCHANGED messageVars

IfVerbose(t) ==
    /\ Now(t, "verbose?")
    /\ Then(t, IF value["verbose"] # 0 THEN <<<<"fputs">>>>
               ELSE <<<<"get", "show_errors">>, <<"limit?", Arg(t, 1)>>>>)
    /\ UNCHANGED messageVars

IfShown(t) ==
    /\ Now(t, "limit?")
    /\ LET k == Arg(t, 1)
           counted == value["show_errors"] # 0 /\ limit[k] >= 0 IN
       /\ said' = [said EXCEPT ![k] = IF counted THEN @ + 1 ELSE @]
       /\ Then(t, IF value["show_errors"] = 0 \/ (counted /\ said[k] > limit[k])
                  THEN <<>> ELSE <<<<"fputs">>>>)
    /\ UNCHANGED <<preloading, outDefault, outLen, outBuf>> /\ UNCHANGED optionVars

Fputs(t) ==
    /\ Now(t, "fputs")
    /\ Then(t, <<<<"out", outDefault, PrefixLen>>, <<"out", outDefault, TextLen>>>>)
    /\ UNCHANGED messageVars

Out(t) ==
    /\ Now(t, "out")
    /\ Then(t, IF Arg(t, 1) \in {"buf", "bufStderr"} /\ outLen < MaxDelay
               THEN <<<<"claim", Arg(t, 2)>>>> ELSE <<>>)
    /\ UNCHANGED messageVars

\* Mutant of Fitting: no bound.
Unfitting(start, n) == n

\* How much of a message of n bytes is copied to `start': the last byte stays zero.
Fitting(start, n) == IF start + n >= MaxDelay THEN MaxDelay - start - 1 ELSE n

ClaimOutput(t) ==
    /\ Now(t, "claim")
    /\ outLen' = outLen + Arg(t, 1)
    /\ Then(t, IF outLen >= MaxDelay THEN <<>>
               ELSE <<<<"copy", outLen, Fitting(outLen, Arg(t, 1))>>>>)
    /\ UNCHANGED <<preloading, said, outDefault, outBuf>> /\ UNCHANGED optionVars

CopyOutput(t) ==
    /\ Now(t, "copy")
    /\ outBuf' = [i \in 0..MaxDelay |->
                    IF i \in Arg(t, 1)..(Arg(t, 1) + Arg(t, 2) - 1) THEN "text" ELSE outBuf[i]]
    /\ Then(t, <<>>)
    /\ UNCHANGED <<preloading, said, outDefault, outLen>> /\ UNCHANGED optionVars

\* alloc_hook_out_buf_flush(out, noMore, arg): the terminator is in place while the
\* output function reads the buffer.
FlushOutput(t) ==
    /\ Now(t, "flush")
    /\ outLen' = outLen + (IF Arg(t, 1) THEN MaxDelay ELSE 1)
    /\ Then(t, <<<<"terminate", IF outLen > MaxDelay THEN MaxDelay ELSE outLen, Arg(t, 1)>>>>)
    /\ UNCHANGED <<preloading, said, outDefault, outBuf>> /\ UNCHANGED optionVars

Terminate(t) ==
    /\ Now(t, "terminate")
    /\ outBuf' = [outBuf EXCEPT ![Arg(t, 1)] = "zero"]
    /\ Then(t, <<<<"deliver", Arg(t, 1), Arg(t, 2)>>>>)
    /\ UNCHANGED <<preloading, said, outDefault, outLen>> /\ UNCHANGED optionVars

Deliver(t) ==
    /\ Now(t, "deliver")
    /\ outBuf' = IF Arg(t, 2) THEN outBuf ELSE [outBuf EXCEPT ![Arg(t, 1)] = "newline"]
    /\ Then(t, <<>>)
    /\ UNCHANGED <<preloading, said, outDefault, outLen>> /\ UNCHANGED optionVars

AddStderr(t) ==
    /\ Now(t, "add_stderr")
    /\ outDefault' = "bufStderr"
    /\ Then(t, <<>>)
    /\ UNCHANGED <<preloading, said, outLen, outBuf>> /\ UNCHANGED optionVars

RegisterOutput(t, out) ==
    /\ Call(t, IF out = "user" THEN <<<<"flush", TRUE>>>> ELSE <<>>)
    /\ outDefault' = out
    /\ UNCHANGED <<preloading, said, outLen, outBuf>> /\ UNCHANGED optionVars

MessageStep(t) ==
    \/ OptionGet(t) \/ OptionInit(t) \/ OptionParse(t) \/ OptionInitialized(t)
    \/ VerboseQuiet(t) \/ OptionsInit(t) \/ SetLimits(t)
    \/ Message(t) \/ IfVerbose(t) \/ IfShown(t) \/ Fputs(t)
    \/ Out(t) \/ ClaimOutput(t) \/ CopyOutput(t)
    \/ FlushOutput(t) \/ Terminate(t) \/ Deliver(t) \/ AddStderr(t)
=============================================================================
