----------------------------- MODULE Prototypes ------------------------------
(***************************************************************************)
(* The orders of the maps of methods: CmpMethodPrototype of the dispatcher *)
(* (dispatch.cpp) and of the old server (jsonRpc.cpp). A prototype is the  *)
(* method's name, a colon and a letter for the type of each argument; a    *)
(* registered one may have letters that stand for several. A map finds a   *)
(* key that is neither before nor behind the one sought.                   *)
(***************************************************************************)
EXTENDS Naturals, Sequences, SequencesExt

CONSTANT Code   \* of each letter

Prototype(name, args) == name \o <<":">> \o args

(* The dispatcher's. What it asks about a d is always so (an or of two     *)
(* inequalities): a d comes behind every other letter.                     *)
Less(a, b) ==
    LET before(x, y) == Code[x] < Code[y]
        from[i \in 1..Len(a) + 1, j \in 1..Len(b) + 1] ==
            IF i > Len(a) \/ j > Len(b) THEN i <= Len(a) /\ a[i] # "*"
            ELSE IF a[i] = b[j] THEN from[i + 1, j + 1]
            ELSE CASE a[i] = "d" -> FALSE
                   [] a[i] = "?" -> from[i + 1, j + 1]
                   [] a[i] = "*" -> IF i = 1 THEN before("*", b[j])
                                    ELSE IF a[i - 1] = b[j] THEN from[i, j + 1] ELSE before(a[i - 1], b[j])
                   [] OTHER ->
                        CASE b[j] = "d" -> TRUE
                          [] b[j] = "?" -> from[i + 1, j + 1]
                          [] b[j] = "*" -> IF j = 1 THEN before(a[i], "*")
                                           ELSE IF b[j - 1] = a[i] THEN from[i + 1, j] ELSE before(a[i], b[j - 1])
                          [] OTHER -> before(a[i], b[j])
    IN  from[1, 1]

(* Mutant: the letters that both have decide, however many there are.      *)
OldLessByLetter(a, b) ==
    LET n == IF Len(a) < Len(b) THEN Len(a) ELSE Len(b)
        differ == {i \in 1..n : a[i] # b[i]}
        at == CHOOSE i \in differ : \A j \in differ : i <= j
    IN  differ # {} /\ Code[a[at]] < Code[b[at]]

(* The old server's: a d equals an s and an n there.                       *)
OldLess(a, b) ==
    LET n == IF Len(a) < Len(b) THEN Len(a) ELSE Len(b)
        named(i) == \E c \in 1..i - 1 : a[c] = ":" /\ b[c] = ":"
        alike(i) == a[i] = b[i] \/ (named(i) /\ {a[i], b[i]} \in {{"d", "s"}, {"d", "n"}})
        differ == {i \in 1..n : ~alike(i)}
        at == CHOOSE i \in differ : \A j \in differ : i <= j
    IN  IF differ = {} THEN Len(a) < Len(b)
        ELSE IF named(at) /\ "d" \in {a[at], b[at]} THEN b[at] = "d"
        ELSE Code[a[at]] < Code[b[at]]
-----------------------------------------------------------------------------
Finds(registered, called) == ~Less(registered, called) /\ ~Less(called, registered)
OldFinds(registered, called) == ~OldLess(registered, called) /\ ~OldLess(called, registered)

(* methodreg.h: d is a string or a number, ? is any, * repeats the last.   *)
StandsFor(c, x) == c = x \/ c = "?" \/ (c = "d" /\ x \in {"n", "s"})
Documented(q, p) ==
    LET match[i \in 0..Len(q), j \in 0..Len(p)] ==
            IF i = 0 THEN j = 0
            ELSE IF q[i] = "*"
            THEN i > 1 /\ (match[i - 1, j] \/ (j > 0 /\ StandsFor(q[i - 1], p[j]) /\ match[i, j - 1]))
            ELSE j > 0 /\ StandsFor(q[i], p[j]) /\ match[i - 1, j - 1]
    IN  match[Len(q), Len(p)]

(* Known defects of the dispatcher's order, against methodreg.h:63-74. A d *)
(* stands for no argument at all: the question about it joins two          *)
(* inequalities by or, where and was meant (dispatch.cpp:108, 120). And a  *)
(* * is right at the end only, and not behind a ?: nothing that follows it *)
(* is looked at once the call has no more arguments (142-143), and the     *)
(* letter before it is compared as it is (112).                            *)
LetterDLost(q, p) == "d" \in Range(q) /\ Documented(q, p)
StarMisread(q) == \E i \in DOMAIN q : q[i] = "*" /\ (i = 1 \/ i < Len(q) \/ q[i - 1] = "?")

(* A call finds a registered method, while it is the only one, if and only *)
(* if the documentation says that its letters stand for the arguments; the *)
(* old server has neither ? nor *.                                         *)
FoundAsDocumented(name, q, p) ==
    LET registered == Prototype(name, q)
        called == Prototype(name, p)
    IN  /\ (Finds(registered, called) <=> Documented(q, p)) \/ LetterDLost(q, p) \/ StarMisread(q)
        /\ Range(q) \cap {"?", "*"} = {} => (OldFinds(registered, called) <=> Documented(q, p))

(* Methods registered without letters that stand for others are in a       *)
(* strict order, in which a map can find each of them.                     *)
StrictlyOrdered(keys) ==
    \A a, b \in keys :
        /\ Finds(a, b) <=> a = b
        /\ OldFinds(a, b) <=> a = b
        /\ \A c \in keys : /\ Less(a, b) /\ Less(b, c) => Less(a, c)
                          /\ OldLess(a, b) /\ OldLess(b, c) => OldLess(a, c)
=============================================================================
