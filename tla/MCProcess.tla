------------------------------ MODULE MCProcess ------------------------------
(***************************************************************************)
(* Process for TLC: the main thread and two others.                        *)
(***************************************************************************)
EXTENDS ProcessProps, TLC

CONSTANTS t1, t2, t3

MCOptions == <<"show_errors", "show_stats", "verbose", "purge_delay", "max_errors",
               "max_warnings">>
MCInitial == [o \in Option |-> CASE o = "show_errors" -> 1
                                 [] o = "purge_delay" -> 10
                                 [] o \in {"max_errors", "max_warnings"} -> 16
                                 [] OTHER -> 0]
Nothing == [o \in Option |-> Absent]
MCEnvironments ==
    {[name |-> [Nothing EXCEPT !["verbose"] = Bogus, !["max_warnings"] = 0],
      old |-> [Nothing EXCEPT !["purge_delay"] = 5]],
     [name |-> [Nothing EXCEPT !["verbose"] = 2, !["purge_delay"] = 7],
      old |-> [Nothing EXCEPT !["purge_delay"] = 5]]}
MCTld == Td \cup {HeapMain}
MCSettings == {<<"verbose", 1>>, <<"purge_delay", 0>>}
Do(main, second, third) ==
    [t \in Thread |-> CASE t = t1 -> main [] t = t2 -> second [] OTHER -> third]
MCPrograms ==
    {Do({"malloc", "collect"}, {"malloc", "exit"}, {"malloc", "exit", "late"}),
     Do({"malloc", "configure", "register", "fail"}, {"malloc", "early", "fail"}, {}),
     Do({"malloc"}, {"malloc", "page", "merge", "exit", "early"}, {"malloc", "abandoned"}),
     Do({"malloc", "exit", "exit_process"}, {"malloc", "done", "exit", "exit_process"}, {}),
     Do({"malloc"}, {"malloc", "exit", "again"}, {"malloc", "exit", "again"})}
Symmetry == Permutations(Td)
=============================================================================
