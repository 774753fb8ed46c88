------------------------------- MODULE Utils -------------------------------
(***************************************************************************)
(* The name, label, join and bit helpers of src/utils/utils.go, as         *)
(* operators on strings (sequences of one-character strings over a small   *)
(* alphabet of character classes) and on W-bit unsigned integers, with     *)
(* the reference behaviour their comments describe.  A run examines one   *)
(* input per state.                                                         *)
(***************************************************************************)
EXTENDS Integers, Sequences, SequencesExt, Bitwise

CONSTANTS
    Lower,      \* lowercase letters and digits: [a-z0-9]
    Upper,      \* uppercase letters: [A-Z]
    LowerOf,    \* strings.ToLower on Upper
    Specials,   \* other characters; contains "-", "_", "." and "/"
    MaxStrLen,  \* bound on the length of an input string
    NameLimit,  \* CleanName's truncation length (63 in the code)
    W,          \* bit width of the integers (32 in the code)
    Seps,       \* separators given to Join
    MaxElems    \* bound on Join's number of elements

ASSUME UtilsAssumption ==
    /\ LowerOf \in [Upper -> Lower]
    /\ {"-", "_", ".", "/"} \subseteq Specials
    /\ Lower \cap Specials = {} /\ Upper \cap Specials = {}
    /\ MaxStrLen \in Nat /\ NameLimit \in Nat \ {0}
    /\ W \in Nat \ {0} /\ MaxElems \in Nat

Alnum == Lower \cup Upper
Alphabet == Alnum \cup Specials
Str == BoundedSeq(Alphabet, MaxStrLen)

\* The characters a label value may hold: [a-z0-9A-Z-_.].
LabelChar == Alnum \cup {"-", "_", "."}

\* The first index of s after which only characters of C follow.
TrailStart(s, C) ==
    SelectInSeq([i \in 1..Len(s) + 1 |-> i], LAMBDA i : \A j \in i..Len(s) : s[j] \in C)

\* The first index of s holding a character outside C (Len(s)+1 if none).
LeadEnd(s, C) ==
    LET k == SelectInSeq(s, LAMBDA c : c \notin C)
    IN IF k = 0 THEN Len(s) + 1 ELSE k

\* Go's filepath.Base on a Unix path: "." for "", trailing slashes removed,
\* the part after the last slash, "/" when nothing is left.
Base(p) ==
    IF p = <<>> THEN <<".">>
    ELSE LET q == SubSeq(p, 1, TrailStart(p, {"/"}) - 1)
             k == SelectLastInSeq(q, LAMBDA c : c = "/")
             r == SubSeq(q, k + 1, Len(q))
         IN IF r = <<>> THEN <<"/">> ELSE r

\* strings.ToLower.
ToLower(s) == [i \in 1..Len(s) |-> IF s[i] \in Upper THEN LowerOf[s[i]] ELSE s[i]]

\* regexp.ReplaceAllLiteralString(s, "-") for a class of allowed characters.
DashOutside(s, C) == [i \in 1..Len(s) |-> IF s[i] \in C THEN s[i] ELSE "-"]

\* strings.TrimSuffix(s, "-") and strings.TrimPrefix(s, "-"): one dash each.
TrimDashSuffix(s) == IF s # <<>> /\ Last(s) = "-" THEN Front(s) ELSE s
TrimDashPrefix(s) == IF s # <<>> /\ s[1] = "-" THEN Tail(s) ELSE s

\* CleanName: basename, lowercase, [^a-z0-9] to dashes, one dash trimmed
\* at each end, truncated to the limit.
CleanName(name) ==
    LET t == TrimDashPrefix(TrimDashSuffix(DashOutside(ToLower(Base(name)), Lower)))
    IN IF Len(t) > NameLimit THEN SubSeq(t, 1, NameLimit) ELSE t

\* IsValidName: non-empty and unchanged by CleanName.
IsValidName(name) == name # <<>> /\ name = CleanName(name)

\* Mutant: the leading run is trimmed like TrimPrefix, one character only.
StripLabelPrefixOnce(s) == IF s # <<>> /\ s[1] \notin Alnum THEN Tail(s) ELSE s

\* RegexpLabelPrefix ^[^a-z0-9A-Z]* replaced by "": the leading run of
\* non-alphanumerics removed.
StripLabelPrefix(s) == SubSeq(s, LeadEnd(s, Alphabet \ Alnum), Len(s))

\* The leftmost start of a match of RegexpLabelSuffix,
\* [^a-z0-9A-Z-_.]*[^a-z0-9A-Z]*$, in s (Len(s)+1 for the empty match).
SuffixMatchStart(s) ==
    SelectInSeq([i \in 1..Len(s) + 1 |-> i],
        LAMBDA i : \E k \in i..Len(s) + 1 :
                      /\ \A j \in i..k - 1 : s[j] \notin LabelChar
                      /\ \A j \in k..Len(s) : s[j] \notin Alnum)

\* RegexpLabelSuffix replaced by "": s cut at its match.
StripLabelSuffix(s) == SubSeq(s, 1, SuffixMatchStart(s) - 1)

\* CleanLabel: basename, [^a-z0-9A-Z-_.] to dashes, non-alphanumerics
\* removed from both ends.
CleanLabel(value) ==
    StripLabelSuffix(StripLabelPrefix(DashOutside(Base(value), LabelChar)))

\* Mutant: sep is written before empty elements too.
JoinKeepsEmpty(sep, elems) ==
    CASE Len(elems) = 0 -> <<>>
      [] Len(elems) = 1 -> elems[1]
      [] OTHER ->
           LET b == FlattenSeq([i \in 1..Len(elems) |-> sep \o elems[i]])
           IN IF b = <<>> THEN <<>> ELSE Tail(b)

\* Join: "" for no elements, the element itself for one; otherwise sep and
\* each non-empty element are written, and the first byte is cut off.
Join(sep, elems) ==
    CASE Len(elems) = 0 -> <<>>
      [] Len(elems) = 1 -> elems[1]
      [] OTHER ->
           LET b == FlattenSeq([i \in 1..Len(elems) |->
                       IF elems[i] = <<>> THEN <<>> ELSE sep \o elems[i]])
           IN IF b = <<>> THEN <<>> ELSE Tail(b)

\* What Join's comment says: the non-empty elements with sep between them.
JoinRef(sep, elems) ==
    LET ne == SelectSeq(elems, LAMBDA e : e # <<>>)
    IN IF ne = <<>> THEN <<>>
       ELSE FlattenSeq([i \in 1..Len(ne) |-> IF i = 1 THEN ne[1] ELSE sep \o ne[i]])

\* 1 << pos in uint32: zero once pos reaches the width.
Shl1(pos) == (2^pos) % (2^W)

\* ^x in uint32.
Complement(x) == 2^W - 1 - x

SetBit(n, pos) == n | Shl1(pos)

\* Mutant: the bit is toggled (n ^ (1 << pos)) instead of cleared.
ClearBitToggle(n, pos) == n ^^ Shl1(pos)

ClearBit(n, pos) == n & Complement(Shl1(pos))
HasBit(n, pos) == (n & Shl1(pos)) > 0

\* Bit q of n, by arithmetic.
BitOf(n, q) == (n \div 2^q) % 2

\* What CleanLabel's comment says: the basename with special characters
\* dashed, cut to the span from its first to its last [a-z0-9A-Z].
CleanLabelRef(value) ==
    LET d == DashOutside(Base(value), LabelChar)
        A == {i \in 1..Len(d) : d[i] \in Alnum}
    IN IF A = {} THEN <<>> ELSE SubSeq(d, Min(A), Max(A))

-----------------------------------------------------------------------------
(* One call per state: a string for CleanName and CleanLabel, a separator  *)
(* and elements for Join, a uint32 and a position for the bit helpers.     *)

Inputs ==
    {[f |-> "str", s |-> x] : x \in Str}
    \cup {[f |-> "join", sep |-> p, elems |-> e] :
            p \in Seps, e \in BoundedSeq(BoundedSeq(Lower, 1), MaxElems)}
    \cup {[f |-> "bits", n |-> k, pos |-> q] : k \in 0..2^W - 1, q \in 0..W - 1}

VARIABLE input

Init == input \in Inputs
Next == input' \in Inputs
Spec == Init /\ [][Next]_input

TypeOK == input \in Inputs

\* CleanLabel's regexp pipeline (special characters dashed, the prefix
\* regexp, then the suffix regexp with its two classes) does what its
\* comment promises for every string: a label value that begins and ends
\* with [a-z0-9A-Z], holds only [a-z0-9A-Z-_.], and is the dashed
\* basename cut to its first and last alphanumeric; cleaning it again
\* changes nothing.
CleanLabelContract ==
    input.f = "str" =>
        LET c == CleanLabel(input.s)
        IN /\ c = CleanLabelRef(input.s)
           /\ CleanLabel(c) = c

\* SetBit, ClearBit and HasBit on a uint32 and a position below the width
\* set, clear and test exactly that bit and leave every other bit alone.
BitOpsExact ==
    input.f = "bits" =>
        \A q \in 0..W - 1 :
            /\ BitOf(SetBit(input.n, input.pos), q)
                  = IF q = input.pos THEN 1 ELSE BitOf(input.n, q)
            /\ BitOf(ClearBit(input.n, input.pos), q)
                  = IF q = input.pos THEN 0 ELSE BitOf(input.n, q)
            /\ HasBit(input.n, q) <=> BitOf(input.n, q) = 1

\* Join's comment, for the one-byte separators it is written for: sep is
\* placed between the elements and empty elements are ignored, whether the
\* empty ones come first, last or in a row.  The code writes sep before
\* every non-empty element and cuts one byte, so for an empty or a longer
\* separator it cuts the wrong bytes; those inputs are excluded here.
JoinMatchesComment ==
    (input.f = "join" /\ Len(input.sep) = 1) =>
        Join(input.sep, input.elems) = JoinRef(input.sep, input.elems)

\* A non-empty name CleanName produces is accepted by IsValidName: the two
\* are the cleaning and the check of one DNS-name rule, so a cleaned name
\* should pass the check.
CleanNameValid ==
    (input.f = "str" /\ CleanName(input.s) # <<>>) => IsValidName(CleanName(input.s))
=============================================================================
