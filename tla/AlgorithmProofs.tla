--------------------------- MODULE AlgorithmProofs ---------------------------
(***************************************************************************)
(* The pure algorithms over every input.  The evaluator's promises, for    *)
(* sample sets of any size over any samples and under any bounds that a    *)
(* spec author may tighten; and what parse_args makes of a command line of *)
(* any length over any words.                                              *)
(***************************************************************************)
EXTENDS EvaluatorCheck, EvaluatorProofs, BrokerArgs

\* The inputs are what the contracts decode.
InputsInv ==
    /\ baseline \in Seq(MetricSample)
    /\ candidate \in Seq(MetricSample)
    /\ bounds \in DecisionBounds

\* Measuring and tightening keep them so.
LEMMA InputsInvariance == CheckSpec => []InputsInv
  <1>1. CheckInit => InputsInv
    BY CheckAssumption DEF CheckInit, InputsInv
  <1>2. InputsInv /\ [CheckNext]_checkVars => InputsInv'
    <2> SUFFICES ASSUME InputsInv, [CheckNext]_checkVars PROVE InputsInv'
      OBVIOUS
    <2> USE CheckAssumption DEF InputsInv
    <2>1. ASSUME NEW s \in Samples, MeasureBaseline(s) PROVE InputsInv'
      BY <2>1 DEF MeasureBaseline
    <2>2. ASSUME NEW s \in Samples, MeasureCandidate(s) PROVE InputsInv'
      BY <2>2 DEF MeasureCandidate
    <2>3. CASE Tighten
      BY <2>3 DEF Tighten
    <2>4. CASE UNCHANGED checkVars
      BY <2>4 DEF checkVars
    <2> QED BY <2>1, <2>2, <2>3, <2>4 DEF CheckNext
  <1> QED BY <1>1, <1>2, PTL DEF CheckSpec

\* No promotion rests on too few samples or hides a single sample outside the
\* limits, however many samples there are, whatever they measure and wherever the
\* error total saturates (summarize, evaluate).
THEOREM PromotionInside == CheckSpec => []PromotionIsInside
  <1>1. InputsInv => PromotionIsInside
    <2> SUFFICES ASSUME InputsInv, Promoted PROVE PromotionIsInside
      BY DEF PromotionIsInside
    <2>1. Evaluate(baseline, candidate, bounds).decision = "promote"
      BY DEF Promoted
    <2>2. /\ Len(baseline) >= bounds.min_samples /\ Len(candidate) >= bounds.min_samples
          /\ \A i \in DOMAIN candidate : /\ candidate[i].temp <= bounds.max_temp
                                         /\ candidate[i].power <= bounds.max_power
                                         /\ candidate[i].errors <= bounds.max_errors
      BY <2>1, PromotedIsInside DEF InputsInv
    <2> QED BY <2>2 DEF PromotionIsInside
  <1> QED BY <1>1, InputsInvariance, PTL

\* Tightening a spec's bounds never turns a rejection into a promotion (evaluate).
THEOREM TighteningSafe == CheckSpec => TighteningNeverPromotes
  <1>1. InputsInv /\ InputsInv' /\ [CheckNext]_checkVars => [TightensOnly]_checkVars
    <2> SUFFICES ASSUME InputsInv, InputsInv', CheckNext, bounds' # bounds, Promoted'
                 PROVE  Promoted
      BY DEF TightensOnly
    <2>1. Tighten
      BY DEF CheckNext, MeasureBaseline, MeasureCandidate
    <2>2. /\ baseline' = baseline /\ candidate' = candidate /\ Tighter(bounds', bounds)
      BY <2>1 DEF Tighten
    <2>3. Evaluate(baseline, candidate, bounds').decision = "promote"
      BY <2>2 DEF Promoted
    <2>4. Evaluate(baseline, candidate, bounds).decision = "promote"
      BY <2>2, <2>3, TighterPromotesLess DEF InputsInv
    <2> QED BY <2>4 DEF Promoted
  <1>2. CheckSpec => [][CheckNext]_checkVars
    BY PTL DEF CheckSpec
  <1> QED BY <1>1, <1>2, InputsInvariance, PTL DEF TighteningNeverPromotes

-----------------------------------------------------------------------------
\* The command line

\* The states of parse_args' loop, one per argument taken.
ParserStates(args, f) ==
    f = [i \in 0..Len(args) |-> IF i = 0 THEN Parsing ELSE ParseToken(f[i - 1], args[i])]

\* The loop over the first n arguments is defined.
LEMMA ParserPrefix ==
    ASSUME NEW args
    PROVE  \A n \in Nat : \E f :
              f = [i \in 0..n |-> IF i = 0 THEN Parsing ELSE ParseToken(f[i - 1], args[i])]
  <1> DEFINE Defined(n) == \E f :
                 f = [i \in 0..n |-> IF i = 0 THEN Parsing ELSE ParseToken(f[i - 1], args[i])]
             T == {n \in Nat : ~Defined(n)}
  <1> SUFFICES ASSUME T # {} PROVE FALSE
    OBVIOUS
  <1>1. PICK n \in T : \A m \in T : n <= m
    BY SmallestOf
  <1>2. n # 0
    <2> DEFINE g == [i \in 0..0 |-> Parsing]
    <2>1. g = [i \in 0..0 |-> IF i = 0 THEN Parsing ELSE ParseToken(g[i - 1], args[i])]
      OBVIOUS
    <2>2. Defined(0)
      BY <2>1
    <2> QED BY <1>1, <2>2
  <1>3. n - 1 \in Nat /\ n - 1 \notin T
    BY <1>1, <1>2
  <1>4. PICK f : f = [i \in 0..(n - 1) |->
                 IF i = 0 THEN Parsing ELSE ParseToken(f[i - 1], args[i])]
    BY <1>3
  <1> DEFINE g == [i \in 0..n |-> IF i = n THEN ParseToken(f[n - 1], args[n]) ELSE f[i]]
  <1>5. ASSUME NEW i \in 0..n
        PROVE  g[i] = IF i = 0 THEN Parsing ELSE ParseToken(g[i - 1], args[i])
    <2>1. CASE i = n
      <3>1. g[i] = ParseToken(f[n - 1], args[n]) /\ g[i - 1] = f[n - 1]
        BY <1>1, <1>2, <2>1
      <3> QED BY <1>2, <2>1, <3>1
    <2>2. CASE i # n
      <3>1. i \in 0..(n - 1) /\ g[i] = f[i]
        BY <1>1, <2>2
      <3>2. f[i] = IF i = 0 THEN Parsing ELSE ParseToken(f[i - 1], args[i])
        BY <1>4, <3>1
      <3>3. i # 0 => g[i - 1] = f[i - 1]
        BY <1>1, <3>1
      <3> QED BY <3>1, <3>2, <3>3
    <2> QED BY <2>1, <2>2
  <1>6. g = [i \in 0..n |-> IF i = 0 THEN Parsing ELSE ParseToken(g[i - 1], args[i])]
    BY <1>5
  <1>7. Defined(n)
    BY <1>6
  <1> QED BY <1>1, <1>7

\* What parse_args returns, from the state after the last argument.
LEMMA ParseArgsLoop ==
    ASSUME NEW args \in Seq(Tokens)
    PROVE  \E f : /\ ParserStates(args, f)
                  /\ ParseArgs(args) =
                       IF f[Len(args)].outcome = "run" /\ f[Len(args)].pending # "none"
                       THEN Refuse(f[Len(args)], "missing-value") ELSE f[Len(args)]
  <1>1. \E f : ParserStates(args, f)
    <2>1. Len(args) \in Nat
      OBVIOUS
    <2> QED BY <2>1, ParserPrefix DEF ParserStates
  <1> DEFINE f == CHOOSE g : ParserStates(args, g)
  <1>2. ParserStates(args, f)
    BY <1>1
  <1>3. ParseArgs(args) =
          IF f[Len(args)].outcome = "run" /\ f[Len(args)].pending # "none"
          THEN Refuse(f[Len(args)], "missing-value") ELSE f[Len(args)]
    BY DEF ParseArgs, ParserStates
  <1> QED BY <1>2, <1>3

Values == Words \cup {"--help"}

\* An option of the usage message: one argument or two.
LEMMA OptionShape ==
    ASSUME NEW x \in Options
    PROVE  /\ x.flag \in Flags /\ x.value \in Values /\ x.args \in Seq(Tokens)
           /\ \/ x.value \in Words /\ x.args = <<Plain(x.flag), Plain(x.value)>>
              \/ x.args = <<Inline(x.flag, x.value)>>
           /\ x.value \notin {"empty", "unset", "absent", "bytes"}
  <1>1. \A value \in Values : value \notin {"empty", "unset", "absent", "bytes"}
    BY ArgumentsAssumption DEF Values
  <1>2. ASSUME NEW given \in [flag : Flags, value : Words],
               x = Option(given, <<Plain(given.flag), Plain(given.value)>>)
        PROVE  /\ x.flag \in Flags /\ x.value \in Words
               /\ x.args = <<Plain(x.flag), Plain(x.value)>> /\ x.args \in Seq(Tokens)
    <2>1. Plain(given.flag) \in Tokens /\ Plain(given.value) \in Tokens
      BY DEF Tokens, Plain
    <2> QED BY <1>2, <2>1 DEF Option
  <1>3. ASSUME NEW given \in [flag : Flags, value : Words \cup {"--help"}],
               x = Option(given, <<Inline(given.flag, given.value)>>)
        PROVE  /\ x.flag \in Flags /\ x.value \in Values
               /\ x.args = <<Inline(x.flag, x.value)>> /\ x.args \in Seq(Tokens)
    <2>1. Inline(given.flag, given.value) \in Tokens
      BY DEF Tokens, Inline
    <2> QED BY <1>3, <2>1 DEF Option, Values
  <1> QED BY <1>1, <1>2, <1>3 DEF Options, Values

\* A part of a usage is an option or none.
LEMMA PartShape ==
    ASSUME NEW x \in Options \cup {NoOption}
    PROVE  /\ x.args \in Seq(Tokens)
           /\ x \in Options \/ (x = NoOption /\ x.flag = "none" /\ x.args = << >>)
           /\ x = NoOption <=> x.flag = "none"
           /\ x # NoOption => x.flag \in Flags /\ x.value \in Values /\ x.value # "unset"
  <1>1. CASE x = NoOption
    BY <1>1 DEF NoOption
  <1>2. CASE x \in Options
    <2>1. "none" \notin Flags /\ NoOption.flag = "none"
      BY DEF Flags, NoOption
    <2> QED BY <1>2, <2>1, OptionShape
  <1> QED BY <1>1, <1>2

LEMMA UsageShape ==
    ASSUME NEW u \in Usages
    PROVE  /\ u[1] \in Options \cup {NoOption} /\ u[2] \in Options \cup {NoOption}
           /\ u[1].flag = u[2].flag => u[1] = NoOption
           /\ Spelled(u) \in Seq(Tokens)
           /\ Meant(u) \in [Flags -> Values \cup {"unset"}]
  <1>1. /\ u[1] \in Options \cup {NoOption} /\ u[2] \in Options \cup {NoOption}
        /\ u[1].flag = u[2].flag => u[1] = NoOption
    BY DEF Usages
  <1>2. Spelled(u) \in Seq(Tokens)
    BY <1>1, PartShape DEF Spelled
  <1>3. Meant(u) \in [Flags -> Values \cup {"unset"}]
    <2>1. ASSUME NEW flag \in Flags
          PROVE  (IF flag = u[1].flag THEN u[1].value
                  ELSE IF flag = u[2].flag THEN u[2].value ELSE "unset") \in Values \cup {"unset"}
      <3>1. "none" \notin Flags
        BY DEF Flags
      <3> QED BY <1>1, <3>1, PartShape
    <2> QED BY <2>1 DEF Meant
  <1> QED BY <1>1, <1>2, <1>3

\* An option whose flag has not been given may follow what was spelled so far.
LEMMA UsageGrows ==
    ASSUME NEW u \in Usages, NEW x \in Options, Meant(u)[x.flag] = "unset"
    PROVE  \E v \in Usages : /\ Spelled(v) = Spelled(u) \o x.args
                             /\ Meant(v) = [Meant(u) EXCEPT ![x.flag] = x.value]
  <1>0. /\ u[1] \in Options \cup {NoOption} /\ u[2] \in Options \cup {NoOption}
        /\ u[1].flag = u[2].flag => u[1] = NoOption
    BY UsageShape
  <1>1. /\ x.flag \in Flags /\ x.args \in Seq(Tokens) /\ x # NoOption
        /\ u[1].args \in Seq(Tokens) /\ u[2].args \in Seq(Tokens)
    <2>1. "none" \notin Flags
      BY DEF Flags
    <2> QED BY <1>0, <2>1, OptionShape, PartShape
  <1>2. x.flag # u[1].flag /\ x.flag # u[2].flag
    BY <1>0, <1>1, PartShape DEF Meant
  <1>3. CASE u[1] = NoOption
    <2> DEFINE v == <<u[2], x>>
    <2>1. v \in Usages
      BY <1>0, <1>2 DEF Usages
    <2>2. Spelled(u) = u[2].args
      <3>1. u[1].args = << >>
        BY <1>3 DEF NoOption
      <3> QED BY <1>1, <3>1 DEF Spelled
    <2>3. Spelled(v) = Spelled(u) \o x.args
      BY <2>2 DEF Spelled
    <2>4. ASSUME NEW flag \in Flags
          PROVE  Meant(v)[flag] = [Meant(u) EXCEPT ![x.flag] = x.value][flag]
      <3>1. flag # u[1].flag
        BY <1>3 DEF NoOption, Flags
      <3> QED BY <1>1, <1>2, <3>1 DEF Meant
    <2>5. Meant(v) = [Meant(u) EXCEPT ![x.flag] = x.value]
      BY <2>4 DEF Meant
    <2> QED BY <2>1, <2>3, <2>5
  <1>4. CASE u[2] = NoOption
    <2> DEFINE v == <<u[1], x>>
    <2>1. v \in Usages
      BY <1>0, <1>2 DEF Usages
    <2>2. Spelled(u) = u[1].args
      <3>1. u[2].args = << >>
        BY <1>4 DEF NoOption
      <3> QED BY <1>1, <3>1 DEF Spelled
    <2>3. Spelled(v) = Spelled(u) \o x.args
      BY <2>2 DEF Spelled
    <2>4. ASSUME NEW flag \in Flags
          PROVE  Meant(v)[flag] = [Meant(u) EXCEPT ![x.flag] = x.value][flag]
      <3>1. flag # u[2].flag
        BY <1>4 DEF NoOption, Flags
      <3> QED BY <1>1, <1>2, <3>1 DEF Meant
    <2>5. Meant(v) = [Meant(u) EXCEPT ![x.flag] = x.value]
      BY <2>4 DEF Meant
    <2> QED BY <2>1, <2>3, <2>5
  <1>5. CASE u[1] # NoOption /\ u[2] # NoOption
    <2>1. u[1].flag \in Flags /\ u[2].flag \in Flags /\ u[1].flag # u[2].flag
      BY <1>0, <1>5, PartShape
    <2> QED BY <1>1, <1>2, <2>1 DEF Flags
  <1> QED BY <1>3, <1>4, <1>5


Outcomes == {"run", "help", "missing-value", "unrecognized", "repeated", "not-unicode"}

Parsers == [options : [Flags -> Values \cup {"unset"}], pending : Flags \cup {"none"},
            outcome : Outcomes]

\* The first n arguments are what s spells.
Starts(args, s, n) == Len(s) = n /\ \A k \in 1..n : args[k] = s[k]

\* What the loop knows after n arguments: a usage spelled so far, with a flag that
\* waits for its value or without, or a help flag after a usage.
Reads(state, args, n) ==
    /\ state \in Parsers
    /\ state.outcome = "run" => \E u \in Usages :
          /\ state.options = Meant(u)
          /\ state.pending = "none" => Starts(args, Spelled(u), n)
          /\ state.pending # "none" =>
                /\ state.options[state.pending] = "unset"
                /\ Starts(args, Append(Spelled(u), Plain(state.pending)), n)
    /\ state.outcome = "help" => \E u \in Usages, flag \in HelpFlags, m \in 1..n :
          Starts(args, Append(Spelled(u), Plain(flag)), m)

\* An argument has a value of its own or not (split_once).
LEMMA TokenShape ==
    ASSUME NEW token \in Tokens
    PROVE  /\ token.text \in Flags \cup HelpFlags \cup Words \cup {"empty", "--other", "bytes"}
           /\ token.inline = "absent" => token = Plain(token.text)
           /\ token.inline # "absent" =>
                 /\ token = Inline(token.text, token.inline) /\ token.text \in Flags
                 /\ token.inline = "empty" \/ token.inline \in Values
  BY DEF Tokens, Plain, Inline, Values

LEMMA StartsAppend ==
    ASSUME NEW args \in Seq(Tokens), NEW s \in Seq(Tokens), NEW n \in 1..Len(args),
           Starts(args, s, n - 1)
    PROVE  Starts(args, Append(s, args[n]), n)
  BY DEF Starts

LEMMA ConcatOne ==
    ASSUME NEW T, NEW s \in Seq(T), NEW a \in T
    PROVE  s \o <<a>> = Append(s, a)
  OBVIOUS

LEMMA ConcatTwo ==
    ASSUME NEW T, NEW s \in Seq(T), NEW a \in T, NEW b \in T
    PROVE  s \o <<a, b>> = Append(Append(s, a), b)
  OBVIOUS

\* A parser that refuses.
LEMMA Refused ==
    ASSUME NEW state \in Parsers, NEW error \in Outcomes
    PROVE  /\ Refuse(state, error) \in Parsers /\ Refuse(state, error).outcome = error
           /\ Refuse(state, error).options = state.options
  BY DEF Refuse, Parsers

\* A parser that takes a value for a flag.
LEMMA OptionIsSet ==
    ASSUME NEW state \in Parsers, NEW flag \in Flags, NEW value \in Values, value # "empty"
    PROVE  /\ SetOption(state, flag, value) \in Parsers
           /\ SetOption(state, flag, value).outcome = state.outcome
           /\ SetOption(state, flag, value).pending = "none"
           /\ SetOption(state, flag, value).options = [state.options EXCEPT ![flag] = value]
  <1>1. /\ state.options \in [Flags -> Values \cup {"unset"}] /\ state.pending \in Flags \cup {"none"}
        /\ state.outcome \in Outcomes
    BY DEF Parsers
  <1>2. SetOption(state, flag, value) =
           [state EXCEPT !.options = [state.options EXCEPT ![flag] = value], !.pending = "none"]
    BY <1>1 DEF SetOption, Parsers
  <1>3. [state.options EXCEPT ![flag] = value] \in [Flags -> Values \cup {"unset"}]
    BY <1>1
  <1> QED BY <1>1, <1>2, <1>3 DEF Parsers

\* One iteration of parse_args' loop.
LEMMA ReadsStep ==
    ASSUME NEW args \in Seq(Tokens), NEW n \in 1..Len(args), NEW state,
           Reads(state, args, n - 1)
    PROVE  Reads(ParseToken(state, args[n]), args, n)
  <1> DEFINE token == args[n]
             next == ParseToken(state, token)
  <1>0. token \in Tokens /\ state \in Parsers /\ n \in Nat
    BY DEF Reads
  <1>1. CASE state.outcome # "run"
    <2>1. next = state
      BY <1>1 DEF ParseToken
    <2>2. \A m \in 1..(n - 1) : m \in 1..n
      BY <1>0
    <2> QED BY <1>1, <2>1, <2>2 DEF Reads
  <1>2. ASSUME NEW error \in Outcomes \ {"run", "help"}, next = Refuse(state, error)
        PROVE  Reads(next, args, n)
    <2>1. Refuse(state, error) \in Parsers /\ Refuse(state, error).outcome = error
      BY <1>0, Refused
    <2> QED BY <1>2, <2>1 DEF Reads
  <1>3. CASE state.outcome = "run" /\ token.text = "bytes"
    <2>1. next = Refuse(state, "not-unicode") /\ "not-unicode" \in Outcomes \ {"run", "help"}
      BY <1>3 DEF ParseToken, Outcomes
    <2> QED BY <1>2, <2>1
  <1>4. CASE state.outcome = "run" /\ token.text # "bytes"
    <2>0. PICK u \in Usages :
             /\ state.options = Meant(u)
             /\ state.pending = "none" => Starts(args, Spelled(u), n - 1)
             /\ state.pending # "none" =>
                   /\ state.options[state.pending] = "unset"
                   /\ Starts(args, Append(Spelled(u), Plain(state.pending)), n - 1)
      BY <1>4 DEF Reads
    <2>s. Spelled(u) \in Seq(Tokens)
      BY UsageShape
    <2>m. "missing-value" \in Outcomes \ {"run", "help"}
      BY DEF Outcomes
    \* An option is complete.
    <2>1. ASSUME NEW x \in Options, next = SetOption(state, x.flag, x.value),
                 state.options[x.flag] = "unset", Starts(args, Spelled(u) \o x.args, n)
          PROVE  Reads(next, args, n)
      <3>1. PICK v \in Usages : /\ Spelled(v) = Spelled(u) \o x.args
                                /\ Meant(v) = [Meant(u) EXCEPT ![x.flag] = x.value]
        BY <2>0, <2>1, UsageGrows
      <3>2. x.flag \in Flags /\ x.value \in Values /\ x.value # "empty"
        BY OptionShape
      <3>3. /\ next \in Parsers /\ next.outcome = "run" /\ next.pending = "none"
            /\ next.options = Meant(v)
        <4>1. /\ SetOption(state, x.flag, x.value) \in Parsers
              /\ SetOption(state, x.flag, x.value).outcome = state.outcome
              /\ SetOption(state, x.flag, x.value).pending = "none"
              /\ SetOption(state, x.flag, x.value).options =
                    [state.options EXCEPT ![x.flag] = x.value]
          BY <1>0, <3>2, OptionIsSet
        <4> QED BY <1>4, <2>0, <2>1, <3>1, <4>1
      <3> QED BY <2>1, <3>1, <3>3 DEF Reads
    <2>2. CASE state.pending # "none"
      <3>1. next = TakeValue(state, token)
        BY <1>4, <2>2 DEF ParseToken
      <3>2. CASE LooksLikeFlag(token) \/ token.text = "empty"
        <4>1. next = Refuse(state, "missing-value")
          BY <3>1, <3>2 DEF TakeValue, SetOption
        <4> QED BY <1>2, <2>m, <4>1
      <3>3. CASE ~LooksLikeFlag(token) /\ token.text # "empty"
        <4> DEFINE given == [flag |-> state.pending, value |-> token.text]
                   x == Option(given, <<Plain(given.flag), Plain(given.value)>>)
        <4>1. token.text \in Words /\ token = Plain(token.text)
          BY <1>0, <1>4, <3>3, TokenShape DEF LooksLikeFlag
        <4>2. state.pending \in Flags
          BY <1>0, <2>2 DEF Parsers
        <4>3. given \in [flag : Flags, value : Words]
          BY <4>1, <4>2
        <4>4. x \in Options
          BY <4>3 DEF Options
        <4>5. x.flag = state.pending /\ x.value = token.text /\ x.args = <<Plain(state.pending), token>>
          BY <4>1 DEF Option
        <4>6. next = SetOption(state, x.flag, x.value)
          BY <3>1, <3>3, <4>5 DEF TakeValue
        <4> HIDE DEF x, given
        <4>p. Plain(state.pending) \in Tokens
          BY <4>2 DEF Plain, Tokens
        <4>7. Starts(args, Append(Append(Spelled(u), Plain(state.pending)), token), n)
          <5>1. Append(Spelled(u), Plain(state.pending)) \in Seq(Tokens)
            BY <2>s, <4>p
          <5> QED BY <2>0, <2>2, <5>1, StartsAppend
        <4>8. Spelled(u) \o x.args = Append(Append(Spelled(u), Plain(state.pending)), token)
          BY <1>0, <2>s, <4>5, <4>p, ConcatTwo
        <4> QED BY <2>0, <2>1, <2>2, <4>4, <4>5, <4>6, <4>7, <4>8
      <3> QED BY <3>2, <3>3
    <2>3. CASE state.pending = "none"
      <3>1. next = TakeFlag(state, token)
        BY <1>4, <2>3 DEF ParseToken
      <3>2. Starts(args, Append(Spelled(u), token), n)
        BY <2>0, <2>3, <2>s, StartsAppend
      <3>3. CASE token.inline = "absent" /\ token.text \in HelpFlags
        <4>1. next = Refuse(state, "help") /\ "help" \in Outcomes /\ token = Plain(token.text)
          BY <1>0, <3>1, <3>3, TokenShape DEF TakeFlag, Outcomes
        <4>2. next \in Parsers /\ next.outcome = "help"
          <5>1. Refuse(state, "help") \in Parsers /\ Refuse(state, "help").outcome = "help"
            BY <1>0, <4>1, Refused
          <5> QED BY <4>1, <5>1
        <4>3. n \in 1..n
          BY <1>0
        <4> QED BY <3>2, <3>3, <4>1, <4>2, <4>3 DEF Reads
      <3>4. CASE ~(token.inline = "absent" /\ token.text \in HelpFlags) /\ token.text \notin Flags
        <4>1. next = Refuse(state, "unrecognized") /\ "unrecognized" \in Outcomes \ {"run", "help"}
          BY <3>1, <3>4 DEF TakeFlag, Outcomes
        <4> QED BY <1>2, <4>1
      <3>5. CASE token.text \in Flags /\ state.options[token.text] # "unset"
        <4>1. next = Refuse(state, "repeated") /\ "repeated" \in Outcomes \ {"run", "help"}
          BY <3>1, <3>5 DEF TakeFlag, Outcomes, Flags, HelpFlags
        <4> QED BY <1>2, <4>1
      <3>6. CASE token.text \in Flags /\ state.options[token.text] = "unset" /\ token.inline = "absent"
        <4>1. next = [state EXCEPT !.pending = token.text] /\ token = Plain(token.text)
          BY <1>0, <3>1, <3>6, TokenShape DEF TakeFlag, Flags, HelpFlags
        <4>2. /\ next \in Parsers /\ next.outcome = "run" /\ next.pending = token.text
              /\ next.options = state.options /\ next.pending # "none"
          BY <1>0, <1>4, <3>6, <4>1 DEF Parsers, Flags
        <4> QED BY <2>0, <3>2, <3>6, <4>1, <4>2 DEF Reads
      <3>7. CASE token.text \in Flags /\ state.options[token.text] = "unset" /\ token.inline # "absent"
        <4>1. /\ next = SetOption(state, token.text, token.inline)
              /\ token = Inline(token.text, token.inline)
              /\ token.inline = "empty" \/ token.inline \in Values
          BY <1>0, <3>1, <3>7, TokenShape DEF TakeFlag
        <4>2. CASE token.inline = "empty"
          <5>1. next = Refuse(state, "missing-value")
            BY <4>1, <4>2 DEF SetOption
          <5> QED BY <1>2, <2>m, <5>1
        <4>3. CASE token.inline \in Values
          <5> DEFINE given == [flag |-> token.text, value |-> token.inline]
                     x == Option(given, <<Inline(given.flag, given.value)>>)
          <5>1. given \in [flag : Flags, value : Words \cup {"--help"}]
            BY <3>7, <4>3 DEF Values
          <5>2. x \in Options
            BY <5>1 DEF Options
          <5>3. x.flag = token.text /\ x.value = token.inline /\ x.args = <<token>>
            BY <4>1 DEF Option
          <5>4. Spelled(u) \o x.args = Append(Spelled(u), token)
            BY <1>0, <2>s, <5>3, ConcatOne
          <5> HIDE DEF x
          <5> QED BY <2>1, <3>2, <3>7, <4>1, <5>2, <5>3, <5>4
        <4> QED BY <4>1, <4>2, <4>3
      <3> QED BY <3>3, <3>4, <3>5, <3>6, <3>7
    <2> QED BY <2>2, <2>3
  <1> QED BY <1>1, <1>3, <1>4

\* One iteration of the loop per argument (parse_args).
LEMMA ParserSteps ==
    ASSUME NEW args \in Seq(Tokens), NEW f, ParserStates(args, f)
    PROVE  /\ Len(args) \in Nat /\ f[0] = Parsing
           /\ \A i \in 1..Len(args) : f[i] = ParseToken(f[i - 1], args[i])
  <1>1. Len(args) \in Nat
    OBVIOUS
  <1>2. f[0] = Parsing
    BY <1>1 DEF ParserStates
  <1>3. ASSUME NEW i \in 1..Len(args)
        PROVE  f[i] = ParseToken(f[i - 1], args[i])
    <2>1. i \in 0..Len(args) /\ i # 0
      BY <1>1
    <2> QED BY <2>1 DEF ParserStates
  <1> QED BY <1>1, <1>2, <1>3

\* So the loop always knows it.
LEMMA ReadsAll ==
    ASSUME NEW args \in Seq(Tokens), NEW f, ParserStates(args, f)
    PROVE  \A n \in 0..Len(args) : Reads(f[n], args, n)
  <1> DEFINE T == {n \in 0..Len(args) : ~Reads(f[n], args, n)}
  <1> SUFFICES ASSUME T # {} PROVE FALSE
    OBVIOUS
  <1>0. /\ Len(args) \in Nat /\ f[0] = Parsing
        /\ \A i \in 1..Len(args) : f[i] = ParseToken(f[i - 1], args[i])
    BY ParserSteps
  <1>1. PICK n \in T : \A m \in T : n <= m
    <2>1. T \subseteq Nat
      BY <1>0
    <2> QED BY <2>1, SmallestOf
  <1>2. n # 0
    <2> DEFINE u == <<NoOption, NoOption>>
    <2>1. u \in Usages /\ u[1] = NoOption /\ u[2] = NoOption
      BY DEF Usages
    <2>2. Spelled(u) = << >> /\ Meant(u) = NoOptions
      <3>1. "none" \notin Flags
        BY DEF Flags
      <3> QED BY <3>1 DEF Spelled, Meant, NoOption, NoOptions
    <2>3. Starts(args, Spelled(u), 0)
      BY <2>2 DEF Starts
    <2>4. /\ Parsing \in Parsers /\ Parsing.outcome = "run" /\ Parsing.pending = "none"
          /\ Parsing.options = NoOptions
      BY DEF Parsing, NoOptions, Parsers, Outcomes
    <2>5. Reads(Parsing, args, 0)
      BY <2>1, <2>2, <2>3, <2>4 DEF Reads
    <2> QED BY <1>0, <1>1, <2>5
  <1>3. n \in 1..Len(args) /\ n - 1 \in 0..Len(args) /\ n - 1 \notin T
    BY <1>0, <1>1, <1>2
  <1>4. Reads(f[n - 1], args, n - 1)
    BY <1>3
  <1>5. Reads(ParseToken(f[n - 1], args[n]), args, n)
    BY <1>3, <1>4, ReadsStep
  <1> QED BY <1>0, <1>1, <1>3, <1>5

\* An early return is final: nothing after it is read.
LEMMA Final ==
    ASSUME NEW args \in Seq(Tokens), NEW f, ParserStates(args, f),
           NEW n \in 0..Len(args), f[n].outcome # "run"
    PROVE  f[Len(args)] = f[n]
  <1> DEFINE T == {m \in n..Len(args) : f[m] # f[n]}
  <1>0. /\ Len(args) \in Nat /\ n \in Nat
        /\ \A i \in 1..Len(args) : f[i] = ParseToken(f[i - 1], args[i])
    BY ParserSteps
  <1>1. ASSUME T # {} PROVE FALSE
    <2>1. PICK m \in T : \A k \in T : m <= k
      <3>1. T \subseteq Nat
        BY <1>0
      <3> QED BY <1>1, <3>1, SmallestOf
    <2>2. m # n /\ m \in 1..Len(args) /\ m - 1 \in n..Len(args) /\ m - 1 \notin T
      BY <1>0, <2>1
    <2>3. f[m - 1] = f[n] /\ f[m] = ParseToken(f[m - 1], args[m])
      BY <1>0, <2>2
    <2>4. f[m] = f[n]
      BY <2>3 DEF ParseToken
    <2> QED BY <2>1, <2>4
  <1>2. Len(args) \in n..Len(args)
    BY <1>0
  <1> QED BY <1>1, <1>2

\* A parser between two options.
Between(state, options) ==
    state \in Parsers /\ state.outcome = "run" /\ state.pending = "none" /\ state.options = options

\* An option whose flag has not been given is taken, in one argument or in two.
LEMMA TakesOption ==
    ASSUME NEW args \in Seq(Tokens), NEW f, ParserStates(args, f),
           NEW x \in Options, NEW n \in Nat, n + Len(x.args) <= Len(args),
           \A k \in 1..Len(x.args) : args[n + k] = x.args[k],
           NEW options, Between(f[n], options), options[x.flag] = "unset"
    PROVE  Between(f[n + Len(x.args)], [options EXCEPT ![x.flag] = x.value])
  <1>0. /\ Len(args) \in Nat
        /\ \A i \in 1..Len(args) : f[i] = ParseToken(f[i - 1], args[i])
    BY ParserSteps
  <1>1. /\ x.flag \in Flags /\ x.value \in Values
        /\ \/ x.value \in Words /\ x.args = <<Plain(x.flag), Plain(x.value)>>
           \/ x.args = <<Inline(x.flag, x.value)>>
        /\ x.value \notin {"empty", "unset", "absent", "bytes"}
    BY OptionShape
  <1>2. /\ f[n] \in Parsers /\ f[n].outcome = "run" /\ f[n].pending = "none"
        /\ f[n].options = options
    BY DEF Between
  <1>3. ASSUME NEW state \in Parsers, state.outcome = "run", state.options = options
        PROVE  Between(SetOption(state, x.flag, x.value), [options EXCEPT ![x.flag] = x.value])
    BY <1>1, <1>3, OptionIsSet DEF Between
  <1>4. CASE x.value \in Words /\ x.args = <<Plain(x.flag), Plain(x.value)>>
    <2>1. /\ Len(x.args) = 2 /\ n + 1 \in 1..Len(args) /\ n + 2 \in 1..Len(args)
          /\ args[n + 1] = Plain(x.flag) /\ args[n + 2] = Plain(x.value)
      BY <1>0, <1>4
    <2>2. f[n + 1] = ParseToken(f[n], Plain(x.flag)) /\ f[n + 2] = ParseToken(f[n + 1], Plain(x.value))
      <3>1. (n + 1) - 1 = n /\ (n + 2) - 1 = n + 1
        OBVIOUS
      <3> QED BY <1>0, <2>1, <3>1
    <2>3. f[n + 1] = [f[n] EXCEPT !.pending = x.flag]
      <3>1. /\ Plain(x.flag).text = x.flag /\ Plain(x.flag).inline = "absent"
            /\ x.flag \notin HelpFlags /\ x.flag # "bytes"
        BY <1>1 DEF Plain, Flags, HelpFlags
      <3>2. f[n + 1] = TakeFlag(f[n], Plain(x.flag))
        BY <1>2, <2>2, <3>1 DEF ParseToken
      <3> QED BY <1>1, <1>2, <3>1, <3>2 DEF TakeFlag
    <2>4. /\ f[n + 1] \in Parsers /\ f[n + 1].outcome = "run" /\ f[n + 1].options = options
          /\ f[n + 1].pending = x.flag /\ x.flag # "none"
      BY <1>1, <1>2, <2>3 DEF Parsers, Flags
    <2>5. f[n + 2] = SetOption(f[n + 1], x.flag, x.value)
      <3>1. /\ Plain(x.value).text = x.value /\ Plain(x.value).inline = "absent"
            /\ x.value \notin Flags \cup HelpFlags \cup {"--other"}
        BY <1>4, ArgumentsAssumption DEF Plain
      <3>2. f[n + 2] = TakeValue(f[n + 1], Plain(x.value))
        BY <1>1, <2>2, <2>4, <3>1 DEF ParseToken
      <3>3. ~LooksLikeFlag(Plain(x.value))
        BY <3>1 DEF LooksLikeFlag
      <3> QED BY <2>4, <3>1, <3>2, <3>3 DEF TakeValue
    <2> QED BY <1>3, <2>1, <2>4, <2>5
  <1>5. CASE x.args = <<Inline(x.flag, x.value)>>
    <2>1. Len(x.args) = 1 /\ n + 1 \in 1..Len(args) /\ args[n + 1] = Inline(x.flag, x.value)
      BY <1>0, <1>5
    <2>2. f[n + 1] = ParseToken(f[n], Inline(x.flag, x.value))
      <3>1. (n + 1) - 1 = n
        OBVIOUS
      <3> QED BY <1>0, <2>1, <3>1
    <2>3. /\ Inline(x.flag, x.value).text = x.flag /\ Inline(x.flag, x.value).inline = x.value
          /\ x.flag # "bytes"
      BY <1>1 DEF Inline, Flags
    <2>4. f[n + 1] = TakeFlag(f[n], Inline(x.flag, x.value))
      BY <1>2, <2>2, <2>3 DEF ParseToken
    <2>5. f[n + 1] = SetOption(f[n], x.flag, x.value)
      BY <1>1, <1>2, <2>3, <2>4 DEF TakeFlag
    <2> QED BY <1>2, <1>3, <2>1, <2>5
  <1> QED BY <1>1, <1>4, <1>5

\* What the part x of a usage adds to the options.
With(x, options) == [flag \in Flags |-> IF flag = x.flag THEN x.value ELSE options[flag]]

\* The arguments after the first n are what s spells.
Follows(args, s, n) == n + Len(s) <= Len(args) /\ \A k \in 1..Len(s) : args[n + k] = s[k]

\* A part of a usage is taken.
LEMMA TakesPart ==
    ASSUME NEW args \in Seq(Tokens), NEW f, ParserStates(args, f),
           NEW x \in Options \cup {NoOption}, NEW n \in Nat, Follows(args, x.args, n),
           NEW options \in [Flags -> Values \cup {"unset"}], Between(f[n], options),
           x \in Options => options[x.flag] = "unset"
    PROVE  Between(f[n + Len(x.args)], With(x, options))
  <1>1. CASE x \in Options
    <2>1. Between(f[n + Len(x.args)], [options EXCEPT ![x.flag] = x.value])
      BY <1>1, TakesOption DEF Follows
    <2>2. [options EXCEPT ![x.flag] = x.value] = With(x, options)
      BY DEF With
    <2> QED BY <2>1, <2>2
  <1>2. CASE x = NoOption
    <2>1. n + Len(x.args) = n /\ x.flag = "none" /\ "none" \notin Flags
      BY <1>2 DEF NoOption, Flags
    <2>2. options = With(x, options)
      BY <2>1 DEF With
    <2> QED BY <2>1, <2>2
  <1> QED BY <1>1, <1>2

\* What the usage message allows is read as it is meant.
LEMMA TakesUsage ==
    ASSUME NEW args \in Seq(Tokens), NEW f, ParserStates(args, f), NEW u \in Usages,
           Len(Spelled(u)) <= Len(args),
           \A k \in 1..Len(Spelled(u)) : args[k] = Spelled(u)[k]
    PROVE  Between(f[Len(Spelled(u))], Meant(u))
  <1> DEFINE a == u[1].args
             b == u[2].args
             first == With(u[1], NoOptions)
  <1>0. /\ u[1] \in Options \cup {NoOption} /\ u[2] \in Options \cup {NoOption}
        /\ u[1].flag = u[2].flag => u[1] = NoOption
        /\ a \in Seq(Tokens) /\ b \in Seq(Tokens) /\ Len(args) \in Nat
    BY UsageShape, PartShape
  <1>1. /\ Spelled(u) = a \o b /\ Len(Spelled(u)) = Len(a) + Len(b)
        /\ Len(a) \in Nat /\ Len(b) \in Nat
        /\ \A k \in 1..Len(a) : Spelled(u)[k] = a[k]
        /\ \A k \in 1..Len(b) : Spelled(u)[Len(a) + k] = b[k]
    <2>1. Spelled(u) = a \o b
      BY DEF Spelled
    <2> HIDE DEF a, b
    <2> QED BY <1>0, <2>1
  <1>2. Follows(args, a, 0) /\ Follows(args, b, Len(a))
    <2>1. /\ Len(a) + Len(b) <= Len(args)
          /\ \A k \in 1..(Len(a) + Len(b)) : args[k] = Spelled(u)[k]
      BY <1>1
    <2> HIDE DEF a, b
    <2>2. ASSUME NEW k \in 1..Len(a) PROVE 0 + k = k /\ args[k] = a[k]
      <3>1. k \in 1..(Len(a) + Len(b))
        BY <1>1
      <3> QED BY <1>1, <2>1, <3>1
    <2>3. ASSUME NEW k \in 1..Len(b) PROVE args[Len(a) + k] = b[k]
      <3>1. Len(a) + k \in 1..(Len(a) + Len(b))
        BY <1>1
      <3> QED BY <1>1, <2>1, <3>1
    <2>4. 0 + Len(a) <= Len(args)
      BY <1>0, <1>1, <2>1
    <2> QED BY <2>1, <2>2, <2>3, <2>4 DEF Follows
  <1>3. Between(f[0], NoOptions)
    BY DEF Between, ParserStates, Parsing, NoOptions, Parsers, Outcomes
  <1>4. NoOptions \in [Flags -> Values \cup {"unset"}] /\ \A flag \in Flags : NoOptions[flag] = "unset"
    BY DEF NoOptions
  <1>5. Between(f[Len(a)], first)
    <2>1. 0 \in Nat /\ 0 + Len(a) = Len(a)
      BY <1>1
    <2>2. u[1] \in Options => NoOptions[u[1].flag] = "unset"
      BY <1>4, OptionShape
    <2>3. Between(f[0 + Len(a)], first)
      BY <1>0, <1>2, <1>3, <1>4, <2>1, <2>2, TakesPart
    <2> QED BY <2>1, <2>3
  <1>6. first \in [Flags -> Values \cup {"unset"}]
    <2>1. "none" \notin Flags
      BY DEF Flags
    <2> QED BY <1>0, <1>4, <2>1, PartShape DEF With
  <1>7. Between(f[Len(a) + Len(b)], With(u[2], first))
    <2>1. u[2] \in Options => first[u[2].flag] = "unset"
      <3>1. ASSUME u[2] \in Options PROVE u[1].flag # u[2].flag /\ u[2].flag \in Flags
        <4>1. u[2].flag \in Flags /\ "none" \notin Flags
          BY <3>1, OptionShape DEF Flags
        <4> QED BY <1>0, <4>1, PartShape
      <3> QED BY <1>4, <3>1 DEF With
    <2>2. Len(a) \in Nat
      BY <1>1
    <2> HIDE DEF first
    <2> QED BY <1>0, <1>2, <1>5, <1>6, <2>1, <2>2, TakesPart
  <1>8. With(u[2], first) = Meant(u)
    <2>1. ASSUME NEW flag \in Flags
          PROVE  With(u[2], first)[flag] = IF flag = u[1].flag THEN u[1].value
                                           ELSE IF flag = u[2].flag THEN u[2].value ELSE "unset"
      <3>1. flag = u[1].flag /\ flag = u[2].flag => FALSE
        <4>1. "none" \notin Flags
          BY DEF Flags
        <4> QED BY <1>0, <4>1, PartShape
      <3> QED BY <1>4, <3>1 DEF With
    <2> QED BY <2>1 DEF Meant, With
  <1> QED BY <1>1, <1>7, <1>8

\* A help flag between two options.
LEMMA TakesHelp ==
    ASSUME NEW state, NEW options, Between(state, options), NEW flag \in HelpFlags
    PROVE  ParseToken(state, Plain(flag)).outcome = "help"
  <1>1. Plain(flag).text = flag /\ Plain(flag).inline = "absent" /\ flag # "bytes"
    BY DEF Plain, HelpFlags
  <1>2. state \in Parsers /\ state.outcome = "run" /\ state.pending = "none"
    BY DEF Between
  <1>3. ParseToken(state, Plain(flag)) = Refuse(state, "help")
    BY <1>1, <1>2 DEF ParseToken, TakeFlag
  <1>4. "help" \in Outcomes
    BY DEF Outcomes
  <1> QED BY <1>2, <1>3, <1>4, Refused

\* parse_args on every command line.
LEMMA EveryCommandLine ==
    ASSUME NEW args \in Seq(Tokens)
    PROVE  /\ ParseArgs(args).outcome = "run"
                 <=> \E u \in Usages : args = Spelled(u) /\ ParseArgs(args).options = Meant(u)
           /\ ParseArgs(args).outcome = "help"
                 <=> \E u \in Usages, flag \in HelpFlags :
                        IsPrefix(Append(Spelled(u), Plain(flag)), args)
  <1> DEFINE n == Len(args)
             result == ParseArgs(args)
  <1>0. n \in Nat
    OBVIOUS
  <1>1. PICK f : /\ ParserStates(args, f)
                 /\ result = IF f[n].outcome = "run" /\ f[n].pending # "none"
                             THEN Refuse(f[n], "missing-value") ELSE f[n]
    BY ParseArgsLoop
  <1> HIDE DEF result
  <1>2. Reads(f[n], args, n) /\ f[n] \in Parsers
    BY <1>0, <1>1, ReadsAll DEF Reads
  <1>3. /\ result.outcome = "run" <=> f[n].outcome = "run" /\ f[n].pending = "none"
        /\ result.outcome = "help" <=> f[n].outcome = "help"
        /\ result.outcome = "run" => result = f[n]
    <2>1. CASE f[n].outcome = "run" /\ f[n].pending # "none"
      <3>1. "missing-value" \in Outcomes
        BY DEF Outcomes
      <3>2. result.outcome = "missing-value"
        BY <1>1, <1>2, <2>1, <3>1, Refused
      <3> QED BY <2>1, <3>2
    <2>2. CASE ~(f[n].outcome = "run" /\ f[n].pending # "none")
      BY <1>1, <2>2
    <2> QED BY <2>1, <2>2
  \* A broker runs on a usage ...
  <1>4. ASSUME result.outcome = "run"
        PROVE  \E u \in Usages : args = Spelled(u) /\ result.options = Meant(u)
    <2>1. PICK u \in Usages : f[n].options = Meant(u) /\ Starts(args, Spelled(u), n)
      BY <1>2, <1>3, <1>4 DEF Reads
    <2>2. args = Spelled(u)
      BY <2>1, UsageShape DEF Starts
    <2> QED BY <1>3, <1>4, <2>1, <2>2
  \* ... and on every usage.
  <1>5. ASSUME NEW u \in Usages, args = Spelled(u) PROVE result.outcome = "run"
    <2>1. Between(f[Len(Spelled(u))], Meant(u))
      BY <1>0, <1>1, <1>5, TakesUsage
    <2> QED BY <1>3, <1>5, <2>1 DEF Between
  \* The message is printed for a help flag after a usage ...
  <1>6. ASSUME result.outcome = "help"
        PROVE  \E u \in Usages, flag \in HelpFlags :
                  IsPrefix(Append(Spelled(u), Plain(flag)), args)
    <2>1. PICK u \in Usages, flag \in HelpFlags, m \in 1..n :
             Starts(args, Append(Spelled(u), Plain(flag)), m)
      BY <1>2, <1>3, <1>6 DEF Reads
    <2> DEFINE s == Append(Spelled(u), Plain(flag))
    <2>2. s \in Seq(Tokens)
      <3>1. Plain(flag) \in Tokens
        BY DEF Plain, Tokens
      <3> QED BY <3>1, UsageShape
    <2>3. Len(s) = m /\ m <= Len(args) /\ \A k \in 1..m : args[k] = s[k]
      BY <1>0, <2>1 DEF Starts
    <2> HIDE DEF s
    <2>4. IsPrefix(s, args)
      <3>1. /\ SubSeq(s, 1, m) \in Seq(Tokens) /\ Len(SubSeq(s, 1, m)) = m
            /\ \A k \in 1..m : SubSeq(s, 1, m)[k] = s[k]
        BY <2>2, <2>3
      <3>2. /\ SubSeq(args, 1, m) \in Seq(Tokens) /\ Len(SubSeq(args, 1, m)) = m
            /\ \A k \in 1..m : SubSeq(args, 1, m)[k] = args[k]
        BY <2>3
      <3>3. SubSeq(s, 1, m) = SubSeq(args, 1, m)
        BY <2>3, <3>1, <3>2
      <3> QED BY <2>3, <3>3 DEF IsPrefix
    <2> QED BY <2>4 DEF s
  \* ... and for every one.
  <1>7. ASSUME NEW u \in Usages, NEW flag \in HelpFlags,
               IsPrefix(Append(Spelled(u), Plain(flag)), args)
        PROVE  result.outcome = "help"
    <2> DEFINE s == Append(Spelled(u), Plain(flag))
               m == Len(Spelled(u))
    <2>1. /\ Spelled(u) \in Seq(Tokens) /\ m \in Nat /\ s \in Seq(Tokens) /\ Len(s) = m + 1
          /\ \A k \in 1..m : s[k] = Spelled(u)[k]
          /\ s[m + 1] = Plain(flag)
      <3>1. Plain(flag) \in Tokens
        BY DEF Plain, Tokens
      <3> QED BY <3>1, UsageShape
    <2>2. m + 1 <= n /\ SubSeq(s, 1, m + 1) = SubSeq(args, 1, m + 1)
      BY <1>7, <2>1 DEF IsPrefix
    <2>3. ASSUME NEW k \in 1..(m + 1) PROVE args[k] = s[k]
      <3> HIDE DEF s, m
      <3>1. SubSeq(s, 1, m + 1)[k] = s[k]
        BY <2>1
      <3>2. SubSeq(args, 1, m + 1)[k] = args[k]
        BY <2>1, <2>2
      <3> QED BY <2>2, <3>1, <3>2
    <2>4. Between(f[m], Meant(u))
      <3>1. \A k \in 1..m : args[k] = Spelled(u)[k]
        BY <2>1, <2>3
      <3>2. m <= Len(args)
        BY <1>0, <2>1, <2>2
      <3> QED BY <1>1, <3>1, <3>2, TakesUsage
    <2>5. f[m + 1] = ParseToken(f[m], Plain(flag)) /\ m + 1 \in 0..n
      <3>1. m + 1 \in 0..n /\ m + 1 # 0 /\ (m + 1) - 1 = m /\ m + 1 \in 1..(m + 1)
        BY <1>0, <2>1, <2>2
      <3>2. args[m + 1] = Plain(flag)
        BY <2>1, <2>3, <3>1
      <3> QED BY <1>1, <3>1, <3>2 DEF ParserStates
    <2>6. f[m + 1].outcome = "help"
      BY <2>4, <2>5, TakesHelp
    <2>7. f[n] = f[m + 1]
      BY <1>1, <2>5, <2>6, Final
    <2> QED BY <1>3, <2>6, <2>7
  <1> QED BY <1>4, <1>5, <1>6, <1>7 DEF result

\* A command line of any length, over any words, runs a broker exactly if the usage
\* message allows it, with the paths it spells, and prints the message exactly if a
\* help flag stands where a flag would (parse_args).
THEOREM CommandLineParsed == ArgumentsSpec => []ParsedAsDocumented
  <1> DEFINE Typed == arguments \in Seq(Tokens)
  <1>1. ArgumentsInit => Typed
    BY DEF ArgumentsInit
  <1>2. Typed /\ [ArgumentsNext]_arguments => Typed'
    BY DEF ArgumentsNext, TypeArgument
  <1>3. Typed => ParsedAsDocumented
    BY EveryCommandLine DEF ParsedAsDocumented
  <1> QED BY <1>1, <1>2, <1>3, PTL DEF ArgumentsSpec

=============================================================================
