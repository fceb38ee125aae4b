------------------------------- MODULE Bands -------------------------------
(***************************************************************************)
(* What the analysis engines share.  The if/elif ladders by which they put *)
(* a number into a band: a sequence of <<bound, name>> pairs, tried in     *)
(* order, and the name of the last else branch.  And their claims: a value *)
(* with the facts it cites and a confidence in percent.                    *)
(***************************************************************************)
EXTENDS Integers, SequencesExt

CONSTANTS None,        \* Python's None: no value, no answer
          Raised       \* what an engine that ends with an exception returns

\* It is no number, and none of the words that are looked for where it may be.
ASSUME NoneAssumption == None \notin Int /\ None \notin {"success", "unknown"}

Maybe(S) == S \cup {None}

Bounds(steps) == {steps[i][1] : i \in DOMAIN steps}

\* The name of the first step whose bound is one of fits.
FirstOf(steps, fits, rest) ==
  LET fit == {i \in DOMAIN steps : steps[i][1] \in fits}
  IN  IF fit = {} THEN rest
      ELSE steps[CHOOSE i \in fit : \A j \in fit : i <= j][2]

\* if x >= bound ... elif x >= bound ... else
AtLeast(x, steps, rest) == FirstOf(steps, {b \in Bounds(steps) : x >= b}, rest)

\* if x <= bound ... elif x <= bound ... else
AtMost(x, steps, rest) == FirstOf(steps, {b \in Bounds(steps) : x <= b}, rest)

\* if x < bound ... elif x < bound ... else
Below(x, steps, rest) == FirstOf(steps, {b \in Bounds(steps) : x < b}, rest)

\* The nearest integers below and above a quotient; a ladder of >= keeps its
\* outcome when x is rounded down, a ladder of <= when x is rounded up.
Floor(a, b) == a \div b
Ceiling(a, b) == -((-a) \div b)

\* s without the members that are in out, the others in their order.
Without(s, out) == FoldLeft(LAMBDA kept, x : IF x \in out THEN kept ELSE Append(kept, x), <<>>, s)

SumOf(s) == FoldLeft(LAMBDA a, b : a + b, 0, s)

-----------------------------------------------------------------------------
Claim(name, value, refs, confidence) ==
  [name |-> name, value |-> value, refs |-> refs, confidence |-> confidence]

\* A result's confidence is the mean of its claims' that are above zero: it is
\* zero when none is.
Confident(claims) == \E c \in claims : c.confidence > 0

\* The value an engine gave to one of its claims, if it made that claim.
Said(claims, name) == {c.value : c \in {d \in claims : d.name = name}}
=============================================================================
