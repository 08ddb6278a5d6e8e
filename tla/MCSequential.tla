----------------------------- MODULE MCSequential -----------------------------
(* The code that runs without a thread of its own: trials of the runner, its
   evaluator over every small input, and the broker's command line. *)
EXTENDS Trial, EvaluatorCheck, BrokerArgs

CONSTANTS r1, r2

Demo ==
    [modeled |-> TRUE, advertised |-> TRUE, reversible |-> TRUE, hypothesis |-> 77,
     warmup |-> 1, nbase |-> 2, ncand |-> 2, parameters |-> "value", value |-> 40, lease |-> 30,
     bounds |-> [min_samples |-> 2, min_gain |-> 5, max_temp |-> 160, max_power |-> 200,
                 max_errors |-> 0]]

Envelope == [Demo EXCEPT !.bounds = [min_samples |-> 1, min_gain |-> 0, max_temp |-> 180,
                                     max_power |-> 250, max_errors |-> 0]]

\* Just inside and just outside of the envelope and of the demo's own bounds, and
\* one that is promoted and refused by the control plane.
Measured ==
    {Demo, Envelope, [Envelope EXCEPT !.value = 80], [Envelope EXCEPT !.value = 81],
     [Envelope EXCEPT !.value = 0], [Demo EXCEPT !.bounds.min_gain = 31],
     [Demo EXCEPT !.reversible = FALSE]}

Refused ==
    {[Demo EXCEPT !.modeled = FALSE], [Demo EXCEPT !.advertised = FALSE],
     [Demo EXCEPT !.hypothesis = 0], [Demo EXCEPT !.hypothesis = 4097],
     [Demo EXCEPT !.warmup = 4], [Demo EXCEPT !.nbase = 1], [Demo EXCEPT !.ncand = 4],
     [Demo EXCEPT !.parameters = "none"], [Demo EXCEPT !.parameters = "extra"],
     [Demo EXCEPT !.value = Missing], [Demo EXCEPT !.value = 101],
     [Demo EXCEPT !.lease = 301], [Demo EXCEPT !.bounds.max_temp = 181],
     [Demo EXCEPT !.bounds.max_power = 0], [Demo EXCEPT !.bounds.min_gain = -1],
     [Demo EXCEPT !.bounds.max_errors = 1], [Demo EXCEPT !.bounds.min_samples = 4]}

AllSpecs == Measured \cup Refused

Readings == {10, 101, Missing}

\* Temperatures and errors around the limits, negative temperatures included.
SmallSamples ==
    [fps : {1}, temp : {-2, 1}, power : {1}, errors : {0}]
        \cup [fps : {3}, temp : {-2}, power : {1, 2}, errors : {0, 501}]

SmallBounds == [min_samples : {1, 2}, min_gain : {0, 1}, max_temp : {-1, 1},
                max_power : {1}, max_errors : {0, 1}]

SequentialInit == Init /\ CheckInit /\ ArgumentsInit

AtStart ==
    /\ trials = << >>
    /\ knob = 10
    /\ \A r \in Runners : runners[r] = Idle(Answer("none", 0, FALSE))

NoInput == baseline = << >> /\ candidate = << >> /\ bounds = CHOOSE b \in Bounds : TRUE

\* The three have nothing in common: one of them moves and the others stay as they
\* began.
SequentialNext ==
    \/ NoInput /\ arguments = << >> /\ Next /\ UNCHANGED <<checkVars, arguments>>
    \/ AtStart /\ arguments = << >> /\ CheckNext /\ UNCHANGED <<vars, arguments>>
    \/ AtStart /\ NoInput /\ ArgumentsNext /\ UNCHANGED <<vars, checkVars>>

SequentialSpec == SequentialInit /\ [][SequentialNext]_<<vars, checkVars, arguments>>
=============================================================================
