--------------------------------- MODULE Glob ---------------------------------
(***************************************************************************)
(* glob_match, the pattern matching of kv_keys: `*` stands for any         *)
(* characters, `?` for one.  It recurses once per `*` and gives up below   *)
(* MaxGlobDepth.  The state is one input, chosen at the start.             *)
(***************************************************************************)
EXTENDS Naturals, Sequences, FiniteSets

CONSTANTS
  Letter,              \* letters of keys
  Star, AnyOne,        \* the pattern characters `*` and `?`
  MaxPattern, MaxText, \* bounds on the input
  MaxGlobDepth         \* MAX_GLOB_DEPTH

GlobAssumption == MaxGlobDepth \in Nat /\ Star # AnyOne
ASSUME GlobAssumption

VARIABLES globPattern, globText
globVars == <<globPattern, globText>>

Strings(S, n) == UNION {[1..m -> S] : m \in 0..n}

GlobInit ==
  /\ globPattern \in Strings(Letter \cup {Star, AnyOne}, MaxPattern)
  /\ globText \in Strings(Letter, MaxText)

\* Mutant: `?` also matches the end of the text.
FitsLoosely(c, t, j) == IF c = AnyOne THEN TRUE ELSE j <= Len(t) /\ c = t[j]
\* A pattern character other than `*` against the next character of the text.
Fits(c, t, j) == j <= Len(t) /\ c \in {AnyOne, t[j]}

\* glob_match_inner with the pattern from character i on, the text from j on, at
\* the given depth.
GlobMatchInner(p, t) ==
  LET inner[i \in 1..(Len(p) + 1)] == [j \in Nat |-> [depth \in Nat |->
        IF depth > MaxGlobDepth THEN FALSE
        ELSE IF i = Len(p) + 1 THEN j > Len(t)
        ELSE IF p[i] = Star
          THEN i = Len(p) \/ \E n \in j..(Len(t) + 1) : inner[i + 1][n][depth + 1]
        ELSE Fits(p[i], t, j) /\ inner[i + 1][j + 1][depth]]]
  IN inner

GlobMatch(p, t) == GlobMatchInner(p, t)[1][1][0]

-----------------------------------------------------------------------------
(* What matching means: the pattern, with each `*` replaced by some stretch
   of the text, covers the text; cut[i] is where character i begins. *)
Matches(p, t) ==
  \E cut \in [1..(Len(p) + 1) -> 1..(Len(t) + 1)] :
    /\ cut[1] = 1 /\ cut[Len(p) + 1] = Len(t) + 1
    /\ \A i \in 1..Len(p) :
         IF p[i] = Star THEN cut[i] <= cut[i + 1]
         ELSE cut[i + 1] = cut[i] + 1 /\ p[i] \in {AnyOne, t[cut[i]]}

Stars(p) == Cardinality({i \in 1..Len(p) : p[i] = Star})

(* kv_keys lists a key only if it matches the pattern, and every key that
   does as long as the pattern has at most MaxGlobDepth stars. *)
GlobMatchIsMatching ==
  /\ GlobMatch(globPattern, globText) => Matches(globPattern, globText)
  /\ Stars(globPattern) <= MaxGlobDepth /\ Matches(globPattern, globText)
       => GlobMatch(globPattern, globText)
=============================================================================
