-------------------------------- MODULE Argv --------------------------------
(***************************************************************************)
(* Which argument of a configured command names a script, and how the      *)
(* command is rewritten so that it runs the frozen copy of that script:    *)
(* the argv scans of control_adapter.py, beside what the interpreters do   *)
(* with the same arguments.                                                *)
(*                                                                         *)
(* A command is an interpreter and its arguments.  A short option keeps    *)
(* its letters, which the code reads one by one; of the letters, W stands  *)
(* for the ones of python that take a value, P for -P and -I, o for -o and *)
(* -O of a shell, B and e for plain flags.  A command without interpreter  *)
(* is its own entrypoint: its first word is looked up as a script is.      *)
(***************************************************************************)
EXTENDS Naturals, Sequences, FiniteSets

Interpreters == {"python", "shell"}

Letters(kind) ==
  IF kind = "python" THEN {"c", "m", "W", "P", "B"} ELSE {"c", "o", "e"}

Short(letters) == [is |-> "short", letters |-> letters]
Other(name) == [is |-> name, letters |-> <<>>]

(***************************************************************************)
(* The other arguments: "--"; "-"; a long flag; a long option with a value *)
(* (--rcfile, --check-hash-based-pycs); a script that the base commit has; *)
(* another relative word; an absolute path; the path of a frozen copy.     *)
(***************************************************************************)
Others == {Other(n) : n \in {"end", "dash", "flag", "valued", "gate",
                             "word", "absolute"}}

Arguments(kind, most) ==
  Others \cup {Short(l) : l \in UNION {[1..n -> Letters(kind)] : n \in 1..most}}

IsOption(a) == a.is \in {"short", "flag", "valued"}
IsLong(a) == a.is \in {"flag", "valued"}

Occurs(a, set) == \E k \in DOMAIN a.letters : a.letters[k] \in set

(* The first letter of a short option that is in the set. *)
First(a, set) ==
  CHOOSE k \in DOMAIN a.letters :
    a.letters[k] \in set /\ \A j \in 1..(k - 1) : a.letters[j] \notin set

-----------------------------------------------------------------------------
(* The scans of the code *)

(* -c or -m, also in a cluster: what follows is no script. *)
Inline(kind, a) ==
  /\ a.is = "short"
  /\ IF kind = "python" THEN Occurs(a, {"c", "m"})
     ELSE Occurs(a, {"c", "o"}) /\ a.letters[First(a, {"c", "o"})] = "c"

TakesNext(kind, a) ==
  \/ a.is = "valued"
  \/ /\ a.is = "short"
     /\ IF kind = "python" THEN a.letters = <<"W">>
        ELSE Occurs(a, {"o"}) /\ First(a, {"o"}) = Len(a.letters)

(* _has_inline_code_or_module and _script_after_interpreter: the same walk *)
(* ends at inline code, at an operand, or past the last argument.          *)
Walk(kind, args) ==
  LET walk[i \in 1..(Len(args) + 2)] ==
        IF i > Len(args) THEN [found |-> "nothing", at |-> 0]
        ELSE IF args[i].is = "end"
             THEN IF i = Len(args) THEN [found |-> "nothing", at |-> 0]
                  ELSE [found |-> "operand", at |-> i + 1]
        ELSE IF ~IsOption(args[i]) THEN [found |-> "operand", at |-> i]
        ELSE IF Inline(kind, args[i]) THEN [found |-> "inline", at |-> i]
        ELSE walk[i + (IF TakesNext(kind, args[i]) THEN 2 ELSE 1)]
  IN walk[1]

(* _fallback_script_index: the first argument that looks like a script. *)
Scripts(args) == {i \in DOMAIN args : args[i].is = "gate"}

(* command_entrypoint_index: 0 when the command names no script.  A dash   *)
(* is taken for a relative path.                                           *)
Entrypoint(kind, args) ==
  LET walk == Walk(kind, args) IN
  CASE walk.found = "inline" -> 0
    [] walk.found = "operand" ->
         IF args[walk.at].is = "absolute" THEN 0 ELSE walk.at
    [] walk.found = "nothing" ->
         IF Scripts(args) = {} THEN 0
         ELSE CHOOSE i \in Scripts(args) : \A j \in Scripts(args) : i <= j

(* capture_control_adapter refuses a script the base commit does not have. *)
Capturable(kind, args) ==
  LET i == Entrypoint(kind, args) IN i = 0 \/ args[i].is = "gate"

(* _python_uses_module_flag *)
UsesModule(args) ==
  LET uses[i \in 1..(Len(args) + 2)] ==
        IF i > Len(args) THEN FALSE
        ELSE IF ~IsOption(args[i]) THEN FALSE
        ELSE IF TakesNext("python", args[i]) THEN uses[i + 2]
        ELSE IF Occurs(args[i], {"c", "m"})
             THEN args[i].letters[First(args[i], {"c", "m"})] = "m"
        ELSE uses[i + 1]
  IN Walk("python", args).found = "inline" /\ uses[1]

(* _python_unsafe_path_disabled: -P or -I before the module. *)
AnywhereDisabled(args) ==   \* fault: the scan does not stop at -m
  \E i \in DOMAIN args : Occurs(args[i], {"P"})
UnsafePathDisabled(args) ==
  LET Prefix(a) == IF Occurs(a, {"c", "m"})
                   THEN SubSeq(a.letters, 1, First(a, {"c", "m"}) - 1)
                   ELSE a.letters
      disabled[i \in 1..(Len(args) + 2)] ==
        IF i > Len(args) THEN FALSE
        ELSE IF ~IsOption(args[i]) THEN FALSE
        ELSE IF TakesNext("python", args[i]) THEN disabled[i + 2]
        ELSE IF Occurs(Short(Prefix(args[i])), {"P"}) THEN TRUE
        ELSE IF Occurs(args[i], {"c", "m"}) THEN FALSE
        ELSE disabled[i + 1]
  IN disabled[1]

(* isolate_python_module_argv *)
Isolate(kind, args) ==
  IF kind = "python" /\ UsesModule(args) /\ ~UnsafePathDisabled(args)
  THEN <<Short(<<"P">>)>> \o args ELSE args

(* rewrite_frozen_entrypoint, when the frozen copy or the blob is there. *)
Rewrite(kind, args) ==
  LET i == Entrypoint(kind, args) IN
  IF i = 0 THEN Isolate(kind, args) ELSE [args EXCEPT ![i] = Other("frozen")]

-----------------------------------------------------------------------------
(* What the interpreters do: external, from their manuals.                 *)

Operand(a) ==
  CASE a.is = "frozen" -> "frozen"
    [] a.is \in {"gate", "word"} -> "worktree"
    [] a.is = "absolute" -> "outside"
    [] OTHER -> "stdin"

(* python reads the letters of a cluster from the left; c and m end the    *)
(* options, W takes the rest of its cluster or the next argument, and P    *)
(* keeps modules of the current directory from being found by -m.          *)
Python(args) ==
  LET Ends(a) == a.is = "short" /\ Occurs(a, {"c", "m", "W"})
      End(a) == First(a, {"c", "m", "W"})
      Safe(a) == a.is = "short" /\ Occurs(a, {"P"})
                   /\ (Ends(a) => First(a, {"P"}) < End(a))
      Step(a) == IF a.is = "valued" \/ (Ends(a) /\ End(a) = Len(a.letters))
                 THEN 2 ELSE 1
      runs[i \in 1..(Len(args) + 2), safe \in BOOLEAN] ==
        IF i > Len(args) THEN "stdin"
        ELSE IF args[i].is = "end"
             THEN IF i = Len(args) THEN "stdin" ELSE Operand(args[i + 1])
        ELSE IF ~IsOption(args[i]) THEN Operand(args[i])
        ELSE IF Ends(args[i]) /\ args[i].letters[End(args[i])] = "c"
             THEN "inline"
        ELSE IF Ends(args[i]) /\ args[i].letters[End(args[i])] = "m"
             THEN IF safe \/ Safe(args[i]) THEN "outside" ELSE "worktree"
        ELSE runs[i + Step(args[i]), safe \/ Safe(args[i])]
  IN runs[1, FALSE]

(* A shell takes one more argument for every o, which has to be the name   *)
(* of an option; a dash ends the options as "--" does.                     *)
Shell(args) ==
  LET Names(a) == Cardinality({k \in DOMAIN a.letters : a.letters[k] = "o"})
      Step(a) == IF a.is = "valued" THEN 2 ELSE 1 + Names(a)
      Named(i) == \A j \in (i + 1)..(i + Names(args[i])) :
                    j <= Len(args) /\ args[j].is = "word"
      runs[i \in 1..(2 * Len(args) + 2)] ==
        IF i > Len(args) THEN "stdin"
        ELSE IF args[i].is \in {"end", "dash"}
             THEN IF i = Len(args) THEN "stdin" ELSE Operand(args[i + 1])
        ELSE IF ~IsOption(args[i]) THEN Operand(args[i])
        ELSE IF ~Named(i) THEN "usage error"
        ELSE IF Occurs(args[i], {"c"}) THEN "inline"
        ELSE runs[i + Step(args[i])]
  IN runs[1]

Runs(kind, args) == IF kind = "python" THEN Python(args) ELSE Shell(args)
=============================================================================
