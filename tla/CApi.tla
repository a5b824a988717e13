-------------------------------- MODULE CApi --------------------------------
(***************************************************************************)
(* The C interface: src/src/capi.rs.  What a function does with a          *)
(* simulator, as the set of its outcomes: the argument checks, the         *)
(* assertions of the simulator behind them and the error codes.            *)
(*                                                                         *)
(* Of a simulator only this is kept: whether its vector has elements (the  *)
(* sign of an error, Simulator::is_error), and which of its two queues     *)
(* hold something.  Whether memory runs out is a free choice.              *)
(***************************************************************************)
EXTENDS Integers, Sequences

CONSTANT MaxQubit   \* Qubit::MAX.index()

ASSUME MaxQubitAssumption == MaxQubit \in Nat

\* The gates pending per qubit, and the operations of the superposition-free queue.
Queues == {"gate", "op"}

Simulators == [vec : {"ok", "empty"}, queued : SUBSET Queues]
ErrorCodes == {"MEMORY", "DOMAIN", "QUBIT_INDEX", "QUBIT_USAGE"}

\* The functions that Python code can reach through an object, by short names.
Operations ==
    {"u3", "mcx", "mcswap", "mcphase", "measure", "probs", "flush", "dump", "copy_amplitudes",
     "import_amplitudes", "iter", "clone", "reset_state", "state_len", "_perf"}

\* A call: a function, whether its floating-point arguments are finite, its
\* target qubits, the qubits of its controls, and the length of its buffer.
Calls(op, finite, targets, controls, length) ==
    [op |-> op, finite |-> finite, targets |-> targets, controls |-> controls, length |-> length]

\* Simulator::new, as called by qblaze_new.  The vector is empty if there is no
\* memory for its one element.
NewSimulators == [vec : {"ok", "empty"}, queued : {{}}]

-----------------------------------------------------------------------------
(* Arguments                                                               *)

\* parse_qubit
ParseQubit(i) == IF i > MaxQubit THEN "QUBIT_INDEX" ELSE "ok"

\* parse_controls with Control::try_from_iter: all indices are looked at before
\* two controls on one qubit are.
ParseControls(controls) ==
    IF \E k \in DOMAIN controls : ParseQubit(controls[k]) # "ok" THEN "QUBIT_INDEX"
    ELSE IF \E j, k \in DOMAIN controls : j # k /\ controls[j] = controls[k] THEN "QUBIT_USAGE"
    ELSE "ok"

\* Fault: a control on a target passes.
CheckNotUses(c) ==
    IF ~c.finite THEN "DOMAIN"
    ELSE IF \E k \in DOMAIN c.targets : ParseQubit(c.targets[k]) # "ok" THEN "QUBIT_INDEX"
    ELSE ParseControls(c.controls)

\* The checks at the head of every function, the first that fails.
Check(c) ==
    IF ~c.finite THEN "DOMAIN"
    ELSE IF \E k \in DOMAIN c.targets : ParseQubit(c.targets[k]) # "ok" THEN "QUBIT_INDEX"
    ELSE IF ParseControls(c.controls) # "ok" THEN ParseControls(c.controls)
    ELSE IF \E k \in DOMAIN c.controls, j \in DOMAIN c.targets : c.controls[k] = c.targets[j]
         THEN "QUBIT_USAGE"
    ELSE "ok"

\* The assertions of Simulator::ctl_x and ctl_swap about their arguments.
Asserted(c) ==
    /\ c.op \in {"mcx", "mcswap"} /\ c.controls # <<>> =>
          \A k \in DOMAIN c.controls, j \in DOMAIN c.targets : c.controls[k] # c.targets[j]
    /\ c.op = "mcswap" => c.targets[1] # c.targets[2]

-----------------------------------------------------------------------------
(* Outcomes                                                                *)

Outcome(s, panic) == [vec |-> s.vec, queued |-> s.queued, panic |-> panic]
WithQueued(s, q) == [s EXCEPT !.queued = @ \cup {q}]

\* Simulator::_flush, of everything or of what it likes.  Gates may move to the
\* other queue.  Performing a superposition-free operation on a vector that is
\* empty, or that has just become so, panics.
Flush(s, all) ==
    {r \in [vec : {"ok", "empty"}, queued : SUBSET Queues, panic : BOOLEAN] :
        /\ s.vec = "empty" => r.vec = "empty"
        /\ s.queued = {} => r = Outcome(s, FALSE)
        /\ "gate" \notin s.queued => r.queued \subseteq s.queued
        /\ all => r.queued = {}
        /\ r.panic => r.vec = "empty"}

\* u3, ctl_x, ctl_swap and ctl_phase: with too few controls for an operation of
\* the queue a gate is left pending.
Gate(c, s) ==
    CASE c.op = "u3" \/ (c.op = "mcx" /\ c.controls = <<>>) \/ (c.op = "mcphase" /\ Len(c.controls) = 1) ->
           {Outcome(WithQueued(s, "gate"), FALSE)}
      [] c.op = "mcphase" /\ c.controls = <<>> -> {Outcome(s, FALSE)}
      [] OTHER -> {IF r.panic THEN r ELSE WithQueued(r, "op") : r \in Flush(s, FALSE)}

\* measure and qubit_probs: the probabilities of an empty vector panic, unless
\* the qubit is past the end of the vector; collapsing takes memory.
Probabilities(c, s) ==
    UNION {CASE r.panic -> {r}
             [] ~r.panic /\ r.vec = "empty" -> {r, [r EXCEPT !.panic = TRUE]}
             [] r.vec = "ok" /\ c.op = "probs" -> {r}
             [] r.vec = "ok" /\ c.op = "measure" -> {r, [r EXCEPT !.vec = "empty"]} : r \in Flush(s, FALSE)}

\* Fresh vectors replace the old one, and what was queued for it is dropped.
Replaced == {Outcome(s, FALSE) : s \in NewSimulators}

\* What a function whose arguments passed makes of simulator s.
Perform(c, s) ==
    CASE ~Asserted(c) -> {Outcome(s, TRUE)}
      [] Asserted(c) /\ c.op \in {"u3", "mcx", "mcswap", "mcphase"} -> Gate(c, s)
      [] c.op \in {"measure", "probs"} -> Probabilities(c, s)
      [] c.op \in {"flush", "dump", "copy_amplitudes", "iter", "clone"} -> Flush(s, TRUE)
      [] c.op = "import_amplitudes" -> IF c.length = 0 THEN {Outcome(s, FALSE)} ELSE Replaced
      [] c.op = "reset_state" -> Replaced
      [] c.op \in {"state_len", "_perf"} -> {Outcome(s, FALSE)}

\* wrap_err and the functions that do without it: an empty vector is an error,
\* whenever it was lost.  A clone may find no memory of its own; without a log of
\* performance events _qblaze_perf returns NULL, which Python takes for the same.
Code(c, r) ==
    CASE c.op \in {"reset_state", "state_len"} -> {"ok"}
      [] c.op = "_perf" -> {"ok", "MEMORY"}
      [] c.op = "import_amplitudes" /\ c.length = 0 -> {"MEMORY"}
      [] c.op = "clone" /\ r.vec = "ok" -> {"ok", "MEMORY"}
      [] OTHER -> {IF r.vec = "empty" THEN "MEMORY" ELSE "ok"}

\* A whole call.
Call(c, s) ==
    IF Check(c) # "ok" THEN {[sim |-> s, panic |-> FALSE, code |-> Check(c)]}
    ELSE UNION {{[sim |-> [vec |-> r.vec, queued |-> r.queued], panic |-> r.panic, code |-> e] :
                    e \in Code(c, r)} : r \in Perform(c, s)}
=============================================================================
