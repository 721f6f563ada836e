---------------------------- MODULE SourcePatterns ----------------------------
(***************************************************************************)
(* The expansion of source patterns (internal/source/files.go) over a tree *)
(* of files.  A path, like a pattern, is a sequence of segments; "/" as    *)
(* the first one stands for the root of an absolute path (the code has the *)
(* empty segment there).  Of the wildcards within a segment the pattern    *)
(* "*" stands for all.                                                     *)
(***************************************************************************)
EXTENDS Naturals, Sequences

hasMeta(pattern) == \E i \in DOMAIN pattern : pattern[i] \in {"*", "**"}

(* Mutant: ** stands for at least one segment. *)
matchSegments_someSegment(pattern, candidate) ==
    LET match[here \in (1 .. Len(pattern) + 1) \X (1 .. Len(candidate) + 1)] ==
            LET p == here[1]
                c == here[2]
            IN  IF p > Len(pattern) THEN c > Len(candidate)
                ELSE IF c > Len(candidate) THEN FALSE
                ELSE IF pattern[p] = "**" THEN match[<<p + 1, c + 1>>] \/ match[<<p, c + 1>>]
                ELSE pattern[p] \in {"*", candidate[c]} /\ match[<<p + 1, c + 1>>]
    IN  match[<<1, 1>>]

(* match[<<p, c>>]: the pattern from segment p on matches the candidate from *)
(* segment c on.                                                            *)
matchSegments(pattern, candidate) ==
    LET match[here \in (1 .. Len(pattern) + 1) \X (1 .. Len(candidate) + 1)] ==
            LET p == here[1]
                c == here[2]
            IN  IF p > Len(pattern) THEN c > Len(candidate)
                ELSE IF pattern[p] = "**"
                  THEN match[<<p + 1, c>>] \/ (c <= Len(candidate) /\ match[<<p, c + 1>>])
                ELSE /\ c <= Len(candidate)
                     /\ pattern[p] \in {"*", candidate[c]}
                     /\ match[<<p + 1, c + 1>>]
    IN  match[<<1, 1>>]

(* The segments before the first one with a wildcard.  The root of the file *)
(* system alone is taken for no directory, that is, for the current one.    *)
patternRoot(pattern) ==
    LET literal == {i \in 0 .. Len(pattern) : ~ hasMeta(SubSeq(pattern, 1, i))}
        root == SubSeq(pattern, 1, CHOOSE i \in literal : \A j \in literal : j <= i)
    IN  IF root = <<"/">> THEN << >> ELSE root

IsUnder(path, root) == Len(root) <= Len(path) /\ SubSeq(path, 1, Len(root)) = root

(* What WalkDir finds under a directory; the current one holds no absolute  *)
(* path.                                                                    *)
filesUnder(tree, root) ==
    {path \in tree : IsUnder(path, root) /\ (root = << >> => path[1] # "/")}

(* A pattern without wildcards is one file or a whole directory, and an     *)
(* error when there is neither; so is one whose walk has no place to start. *)
Expand(tree, pattern) ==
    LET start == IF hasMeta(pattern) THEN patternRoot(pattern) ELSE pattern
        files == filesUnder(tree, start)
    IN  [error |-> files = {} /\ start # << >>,
         files |-> IF hasMeta(pattern) THEN {path \in files : matchSegments(pattern, path)}
                                       ELSE files]

-----------------------------------------------------------------------------
(* What a pattern means: its segments stand for consecutive stretches of    *)
(* the path, "**" for any number of segments and every other one for one    *)
(* segment that it equals.                                                  *)
Matches(pattern, path) ==
    \E end \in [1 .. Len(pattern) -> 0 .. Len(path)] :
        LET begin(i) == IF i = 1 THEN 0 ELSE end[i - 1]
        IN  /\ \A i \in DOMAIN pattern :
                 IF pattern[i] = "**" THEN begin(i) <= end[i]
                 ELSE end[i] = begin(i) + 1 /\ pattern[i] \in {"*", path[end[i]]}
            /\ end[Len(pattern)] = Len(path)
=============================================================================
