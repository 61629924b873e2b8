------------------------------ MODULE ArgParser ------------------------------
(***************************************************************************)
(* The command line parser: options are registered, then parse() is called *)
(* with an argument list, possibly again with another.  Each turn of the   *)
(* loop over the arguments is a step.                                      *)
(*                                                                         *)
(* A text is taken apart at its leading dashes and its first = sign:       *)
(* [dashes, letters, eq, value], so "-ov" has one dash and the letters o,  *)
(* v.  An option is [short, key, has_arg, default].                        *)
(***************************************************************************)
EXTENDS Integers, Sequences

CONSTANTS Letters,     \* the characters of names and values
          Options,     \* the options that may be registered, before add_option fills in key
          CommandLines \* CommandLines[n]: the argument lists of the n-th call of parse()

\* The short name 0 of an option that has none.
NoLetter == "none"

Texts == [dashes : 0 .. 2, letters : Seq(Letters), eq : BOOLEAN, value : Seq(Letters)]
OptionTypes ==
  [short : Letters \cup {NoLetter}, key : Seq(Letters), has_arg : BOOLEAN, default : Texts]

ASSUME LettersAssumption == NoLetter \notin Letters
ASSUME OptionsAssumption == Options \subseteq OptionTypes
ASSUME CommandLinesAssumption == CommandLines \in Seq(SUBSET Seq(Texts))

VARIABLES
  options,     \* long_options and short_options
  calls,       \* how many times parse() has been called
  argv,        \* the arguments of the last call
  i,           \* the index of the loop
  set,         \* the keys of the options with is_set
  value,       \* the value of each option that takes one
  positional,  \* positional_args
  state        \* "registering", "parsing", "parsed" or "error": parse() threw

vars == <<options, calls, argv, i, set, value, positional, state>>

Word(letters) == [dashes |-> 0, letters |-> letters, eq |-> FALSE, value |-> <<>>]
Keys == {o.key : o \in options}

Init ==
  /\ options = {}
  /\ calls = 0
  /\ argv = <<>>
  /\ i = 1
  /\ set = {}
  /\ value = <<>>
  /\ positional = <<>>
  /\ state = "registering"

-----------------------------------------------------------------------------
(* add_option and add_flag *)

\* A mistake: only the long names are compared.
add_option_long_only(o) ==
  LET key == IF o.key = <<>> THEN <<o.short>> ELSE o.key
  IN /\ state = "registering"
     /\ o.key # <<>> \/ o.short # NoLetter
     /\ key \notin Keys
     /\ options' = options \cup {[o EXCEPT !.key = key]}
     /\ UNCHANGED <<calls, argv, i, set, value, positional, state>>

\* An option without a name, or with one that is taken, is refused and changes nothing.
add_option(o) ==
  LET key == IF o.key = <<>> THEN <<o.short>> ELSE o.key
  IN /\ state = "registering"
     /\ o.key # <<>> \/ o.short # NoLetter
     /\ key \notin Keys
     /\ o.short # NoLetter => \A p \in options : p.short # o.short
     /\ options' = options \cup {[o EXCEPT !.key = key]}
     /\ UNCHANGED <<calls, argv, i, set, value, positional, state>>

-----------------------------------------------------------------------------
(* parse *)

Defaults == [k \in {o.key : o \in {p \in options : p.has_arg}} |->
               (CHOOSE o \in options : o.key = k).default]

\* A mistake: parse() does not set the options back.
parse_keeps(args) ==
  /\ state # "parsing"
  /\ calls < Len(CommandLines)
  /\ calls' = calls + 1
  /\ argv' = args
  /\ i' = 1
  /\ positional' = <<>>
  /\ UNCHANGED set
  /\ value' = [k \in DOMAIN Defaults |-> IF k \in DOMAIN value THEN value[k] ELSE Defaults[k]]
  /\ state' = "parsing"
  /\ UNCHANGED options

\* parse() forgets what an earlier call left, finished or not.
parse(args) ==
  /\ state # "parsing"
  /\ calls < Len(CommandLines)
  /\ calls' = calls + 1
  /\ argv' = args
  /\ i' = 1
  /\ positional' = <<>>
  /\ set' = {}
  /\ value' = Defaults
  /\ state' = "parsing"
  /\ UNCHANGED options

Arg == argv[i]
Looping == state = "parsing" /\ i <= Len(argv)

IsEnd(a) == a.dashes = 2 /\ a.letters = <<>> /\ ~a.eq
IsLong(a) == a.dashes = 2 /\ ~IsEnd(a)
IsShort(a) == a.dashes = 1 /\ (a.letters # <<>> \/ a.eq)

\* The arguments behind "--" are all positional.
Rest ==
  /\ Looping
  /\ IsEnd(Arg)
  /\ positional' = positional \o SubSeq(argv, i + 1, Len(argv))
  /\ i' = Len(argv) + 1
  /\ UNCHANGED <<options, calls, argv, set, value, state>>

\* A mistake: the loop stays at a positional argument.
PositionalStays ==
  /\ Looping
  /\ ~IsEnd(Arg) /\ ~IsLong(Arg) /\ ~IsShort(Arg)
  /\ positional' = <<Arg>>
  /\ UNCHANGED <<options, calls, argv, i, set, value, state>>

Positional ==
  /\ Looping
  /\ ~IsEnd(Arg) /\ ~IsLong(Arg) /\ ~IsShort(Arg)
  /\ positional' = Append(positional, Arg)
  /\ i' = i + 1
  /\ UNCHANGED <<options, calls, argv, set, value, state>>

fixed == <<options, calls, argv, positional>>

\* The exception leaves what was set before it.
throw == state' = "error" /\ UNCHANGED <<i, value>>

set_flags(keys) == set' = set \cup keys
set_value(o, v) == value' = [value EXCEPT ![o.key] = v]

\* The option gets v and the loop goes on n arguments further.
Give(o, v, n) == set_value(o, v) /\ i' = i + n /\ UNCHANGED state

GiveNext(o, flags) ==
  IF i < Len(argv) THEN Give(o, argv[i + 1], 2) /\ set_flags(flags \cup {o.key})
                   ELSE throw /\ set_flags(flags)

Flags(keys) == set_flags(keys) /\ i' = i + 1 /\ UNCHANGED <<value, state>>

parse_long_option ==
  /\ Looping
  /\ IsLong(Arg)
  /\ LET known == {o \in options : o.key = Arg.letters}
     IN \/ known = {} /\ throw /\ UNCHANGED set
        \/ \E o \in known :
             \/ o.has_arg /\ Arg.eq /\ Give(o, Word(Arg.value), 1) /\ set_flags({o.key})
             \/ o.has_arg /\ ~Arg.eq /\ GiveNext(o, {})
             \/ ~o.has_arg /\ Arg.eq /\ throw /\ UNCHANGED set
             \/ ~o.has_arg /\ ~Arg.eq /\ Flags({o.key})
  /\ UNCHANGED fixed

OptionOf(c) == {o \in options : o.short = c}
IsFlag(c) == \E o \in OptionOf(c) : ~o.has_arg
TakesValue(c) == \E o \in OptionOf(c) : o.has_arg
KeysOf(letters) == {o.key : o \in UNION {OptionOf(letters[j]) : j \in DOMAIN letters}}

\* -o=value: exactly one letter before the sign.
ShortWithSign ==
  /\ Looping
  /\ IsShort(Arg) /\ Arg.eq
  /\ IF Len(Arg.letters) = 1 /\ TakesValue(Arg.letters[1])
     THEN \E o \in OptionOf(Arg.letters[1]) :
            Give(o, Word(Arg.value), 1) /\ set_flags({o.key})
     ELSE throw /\ UNCHANGED set
  /\ UNCHANGED fixed

\* Letter j of a cluster is looked at as an option: those before it are flags.
Reached(a, j) == \A m \in 1 .. j - 1 : IsFlag(a.letters[m])

\* The letters of a cluster are flags up to the first that is not: an option with
\* a value, which takes the rest of the cluster or else the next argument, or an
\* unknown letter.
Cluster ==
  /\ Looping
  /\ IsShort(Arg) /\ ~Arg.eq
  /\ \E stop \in 1 .. Len(Arg.letters) + 1 :
       /\ Reached(Arg, stop)
       /\ LET flags == KeysOf(SubSeq(Arg.letters, 1, stop - 1))
              rest == SubSeq(Arg.letters, stop + 1, Len(Arg.letters))
          IN \/ stop > Len(Arg.letters) /\ Flags(flags)
             \/ stop <= Len(Arg.letters) /\ OptionOf(Arg.letters[stop]) = {} /\ throw /\ set_flags(flags)
             \/ stop <= Len(Arg.letters) /\ \E o \in OptionOf(Arg.letters[stop]) :
                  \/ o.has_arg /\ rest # <<>> /\ Give(o, Word(rest), 1) /\ set_flags(flags \cup {o.key})
                  \/ o.has_arg /\ rest = <<>> /\ GiveNext(o, flags)
  /\ UNCHANGED fixed

Return ==
  /\ state = "parsing"
  /\ i > Len(argv)
  /\ state' = "parsed"
  /\ UNCHANGED <<options, calls, argv, i, set, value, positional>>

Step == Rest \/ Positional \/ parse_long_option \/ ShortWithSign \/ Cluster \/ Return

Next ==
  \/ \E o \in Options : add_option(o)
  \/ calls < Len(CommandLines) /\ \E args \in CommandLines[calls + 1] : parse(args)
  \/ Step

Spec == Init /\ [][Next]_vars

\* A call of parse() that has begun runs on.
FairSpec == Spec /\ WF_vars(Step)

-----------------------------------------------------------------------------
ValueKeys == {o.key : o \in {p \in options : p.has_arg}}

TypeOK ==
  /\ state \in {"registering", "parsing", "parsed", "error"}
  /\ options \subseteq OptionTypes
  /\ \A o, p \in options : o.key = p.key \/ (o.short = p.short /\ o.short # NoLetter) => o = p
  /\ calls \in 0 .. Len(CommandLines)
  /\ argv \in Seq(Texts) /\ i \in 1 .. Len(argv) + 1
  /\ positional \in Seq(Texts)
  /\ set \subseteq Keys
  /\ state # "registering" => value \in [ValueKeys -> Texts]

(* What the arguments mean, without the loop *)

\* The option named in a whose value is the argument behind a.
WantsNext(a) ==
  /\ ~a.eq
  /\ \/ IsLong(a) /\ \E o \in options : o.key = a.letters /\ o.has_arg
     \/ IsShort(a) /\ TakesValue(a.letters[Len(a.letters)]) /\ Reached(a, Len(a.letters))

\* The place of the next argument that is not the value of an option.
After(k) ==
  IF IsEnd(argv[k]) THEN Len(argv) + 1
  ELSE IF WantsNext(argv[k]) THEN k + 2 ELSE k + 1

\* From the first argument to the place e, heads are the places of the arguments that
\* are neither the value of an option nor behind "--".
Heads(heads, e) ==
  /\ heads \in SUBSET (1 .. e) /\ 1 \in heads /\ e \in heads
  /\ \A k \in heads \ {e} : After(k) \in heads
  /\ \A k \in heads \ {1} : \E m \in heads : m < k /\ After(m) = k

IsOption(a) == IsLong(a) \/ IsShort(a)

Names(a, o) ==
  \/ IsLong(a) /\ a.letters = o.key
  \/ IsShort(a) /\ \E j \in DOMAIN a.letters : a.letters[j] = o.short /\ Reached(a, j)

Malformed(a) ==
  \/ \A o \in options : ~Names(a, o)
  \/ a.eq /\ \E o \in options : Names(a, o) /\ ~o.has_arg
  \/ IsShort(a) /\ a.eq /\ Len(a.letters) # 1
  \/ IsShort(a) /\ \E j \in DOMAIN a.letters : OptionOf(a.letters[j]) = {} /\ Reached(a, j)

Wrong(k) ==
  /\ IsOption(argv[k])
  /\ Malformed(argv[k]) \/ (WantsNext(argv[k]) /\ k = Len(argv))

\* The places of the positional arguments before place e.
Words(heads, e) ==
  {k \in 1 .. e - 1 :
     \/ k \in heads /\ ~IsEnd(argv[k]) /\ ~IsOption(argv[k])
     \/ \E m \in heads : m < k /\ IsEnd(argv[m])}

\* s has the arguments at these places in order.
InOrder(s, places) ==
  \E place \in [1 .. Len(s) -> places] :
    /\ \A m, n \in 1 .. Len(s) : m < n => place[m] < place[n]
    /\ \A k \in places : \E n \in 1 .. Len(s) : place[n] = k
    /\ \A n \in 1 .. Len(s) : s[n] = argv[place[n]]

\* The places before e of the arguments that name o.
Naming(heads, e, o) == {k \in heads : k < e /\ IsOption(argv[k]) /\ Names(argv[k], o)}

\* The value that argument k gives to the option o it names.
Gives(k, o, v) ==
  LET a == argv[k]
  IN \/ a.eq /\ v = Word(a.value)
     \/ WantsNext(a) /\ v = argv[k + 1]
     \/ /\ ~a.eq /\ ~WantsNext(a)
        /\ \E j \in DOMAIN a.letters :
             /\ a.letters[j] = o.short /\ Reached(a, j)
             /\ v = Word(SubSeq(a.letters, j + 1, Len(a.letters)))

\* The option o is what the arguments before place e say.
OptionRight(heads, e, o) ==
  LET naming == Naming(heads, e, o)
  IN /\ o.key \in set <=> naming # {}
     /\ o.has_arg =>
          \/ naming = {} /\ value[o.key] = o.default
          \/ \E k \in naming : (\A m \in naming : m <= k) /\ Gives(k, o, value[o.key])

\* So are the arguments understood that are before place e.
Understood(heads, e) ==
  /\ Heads(heads, e)
  /\ \A k \in heads \ {e} : ~Wrong(k)
  /\ InOrder(positional, Words(heads, e))
  /\ \A o \in options : OptionRight(heads, e, o)

\* When parse() returns, every argument has had its one meaning, whatever was
\* parsed before: the words in order are positional, an option is set exactly if
\* an argument that is not itself a value names it, and it has the value given
\* last or its default.  parse() throws exactly if, from the first argument on, it
\* comes to an option argument that is malformed or lacks its value.
ParseExact ==
  /\ state = "parsed" =>
       \E heads \in SUBSET (1 .. Len(argv) + 1) : Understood(heads, Len(argv) + 1)
  /\ state = "error" =>
       \E e \in 1 .. Len(argv), heads \in SUBSET (1 .. Len(argv)) :
         Heads(heads, e) /\ Wrong(e) /\ \A k \in heads \ {e} : ~Wrong(k)

\* parse() returns or throws, whatever the arguments.
ParseEnds == (state = "parsing") ~> (state \in {"parsed", "error"})
=============================================================================
