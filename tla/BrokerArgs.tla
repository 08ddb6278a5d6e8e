----------------------------- MODULE BrokerArgs ------------------------------
(***************************************************************************)
(* parse_args of the broker: `--flag value` and `--flag=value` pairs.      *)
(***************************************************************************)
EXTENDS Naturals, Sequences, SequencesExt

CONSTANTS
    Words,              \* arguments that are neither empty nor flag-shaped: paths
    MaxArguments        \* bound: the length of a command line

Flags == {"--socket", "--journal"}

HelpFlags == {"--help", "-h"}

ASSUME ArgumentsAssumption ==
    /\ MaxArguments \in Nat
    /\ Words \cap (Flags \cup HelpFlags \cup {"empty", "--other", "bytes", "unset", "absent"}) = {}

VARIABLE arguments      \* the command line

\* An argument as split_once('=') sees it.  "empty" stands for the empty string,
\* "bytes" for one that is not UTF-8, "--other" for any other long flag.
Plain(text) == [text |-> text, inline |-> "absent"]

Inline(flag, value) == [text |-> flag, inline |-> value]

Tokens ==
    [text : Flags \cup HelpFlags \cup Words \cup {"empty", "--other", "bytes"}, inline : {"absent"}]
        \cup [text : Flags, inline : Words \cup {"empty", "--help"}]

\* Mutant: the short help flag passes for a value.
MutLooksLikeFlag(token) ==
    token.inline # "absent" \/ token.text \in Flags \cup {"--help", "--other"}

\* Two leading dashes, or a help flag.
LooksLikeFlag(token) ==
    token.inline # "absent" \/ token.text \in Flags \cup HelpFlags \cup {"--other"}

\* The options so far, the flag that still waits for its value, and the outcome.
NoOptions == [flag \in Flags |-> "unset"]

Parsing == [options |-> NoOptions, pending |-> "none", outcome |-> "run"]

Refuse(state, error) == [state EXCEPT !.outcome = error]

SetOption(state, flag, value) ==
    IF value = "empty" THEN Refuse(state, "missing-value")
    ELSE [state EXCEPT !.options[flag] = value, !.pending = "none"]

\* A token where a flag is expected.
TakeFlag(state, token) ==
    IF token.inline = "absent" /\ token.text \in HelpFlags THEN Refuse(state, "help")
    ELSE IF token.text \notin Flags THEN Refuse(state, "unrecognized")
    ELSE IF state.options[token.text] # "unset" THEN Refuse(state, "repeated")
    ELSE IF token.inline = "absent" THEN [state EXCEPT !.pending = token.text]
    ELSE SetOption(state, token.text, token.inline)

\* A token in value position.
TakeValue(state, token) ==
    IF LooksLikeFlag(token) THEN Refuse(state, "missing-value")
    ELSE SetOption(state, state.pending, token.text)

ParseToken(state, token) ==
    IF state.outcome # "run" THEN state
    ELSE IF token.text = "bytes" THEN Refuse(state, "not-unicode")
    ELSE IF state.pending # "none" THEN TakeValue(state, token)
    ELSE TakeFlag(state, token)

\* parse_args: the loop over the arguments, and a flag left without its value.
ParseArgs(args) ==
    LET after[i \in 0..Len(args)] ==
            IF i = 0 THEN Parsing ELSE ParseToken(after[i - 1], args[i])
        state == after[Len(args)]
    IN  IF state.outcome = "run" /\ state.pending # "none" THEN Refuse(state, "missing-value")
        ELSE state

-----------------------------------------------------------------------------
ArgumentsInit == arguments = << >>

TypeArgument(token) ==
    /\ Len(arguments) < MaxArguments
    /\ arguments' = Append(arguments, token)

ArgumentsNext == \E token \in Tokens : TypeArgument(token)

ArgumentsSpec == ArgumentsInit /\ [][ArgumentsNext]_arguments

-----------------------------------------------------------------------------
\* The usage message as a grammar: at most two options, each a flag and its value
\* in one argument or in two, and not the same flag twice.
Option(given, args) == [flag |-> given.flag, value |-> given.value, args |-> args]

NoOption == [flag |-> "none", value |-> "unset", args |-> << >>]

Options ==
    {Option(given, <<Plain(given.flag), Plain(given.value)>>) :
        given \in [flag : Flags, value : Words]}
    \cup
    {Option(given, <<Inline(given.flag, given.value)>>) :
        given \in [flag : Flags, value : Words \cup {"--help"}]}

Usages ==
    {usage \in (Options \cup {NoOption}) \X (Options \cup {NoOption}) :
        usage[1].flag = usage[2].flag => usage[1] = NoOption}

Spelled(usage) == usage[1].args \o usage[2].args

Meant(usage) ==
    [flag \in Flags |-> IF flag = usage[1].flag THEN usage[1].value
                        ELSE IF flag = usage[2].flag THEN usage[2].value
                        ELSE "unset"]

\* A command line runs a broker exactly if the usage message allows it, with the
\* paths it spells, and prints the message exactly if a help flag follows where
\* the next flag would stand; every other one is refused.  In particular no value
\* is ever a mistyped flag, and a help flag in value position does not end the
\* broker with success (parse_args).
ParsedAsDocumented ==
    /\ ParseArgs(arguments).outcome = "run"
          <=> \E usage \in Usages : /\ arguments = Spelled(usage)
                                    /\ ParseArgs(arguments).options = Meant(usage)
    /\ ParseArgs(arguments).outcome = "help"
          <=> \E usage \in Usages, flag \in HelpFlags :
                  IsPrefix(Append(Spelled(usage), Plain(flag)), arguments)
=============================================================================
