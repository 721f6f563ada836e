------------------------------- MODULE TraceQL -------------------------------
(***************************************************************************)
(* The TraceQL scanner (pkg/traceql/analyzer.go): which span and resource  *)
(* attributes an expression uses, and whether there is anything else in it *)
(* that may be one.                                                        *)
(*                                                                         *)
(* An expression is a sequence of tokens: a scope prefix, a word, or one   *)
(* character of those the scanner tells apart.  Prefixes are tokens since  *)
(* the scanner matches them as a whole, at a token boundary only.          *)
(***************************************************************************)
EXTENDS Naturals, Sequences

Scopes == {"span.", "resource."}
UnsupportedScopes == {"parent.", "event.", "link.", "instrumentation."}
Quotes == {"doublequote", "backquote", "'"}
Terminators == {" ", "{", "}", "(", ")", "=", "~", "!", "<", ">", "&", "|", "^", ","}
(* Everything that is no identifier; a word is one, and so are "." and "$". *)
Separators == Quotes \cup Terminators \cup {"backslash", "-", "+", "*", "/"}

-----------------------------------------------------------------------------
tokenBoundaryBefore(e, i) == i = 1 \/ e[i - 1] \in Separators

(* The position after the quoted value that begins at position i; 0 when it *)
(* does not end.  Backquotes know no escape.                                *)
skipQuoted(e, i) ==
    LET after[k \in Nat] ==
            IF k > Len(e) THEN 0
            ELSE IF e[k] = e[i] THEN k + 1
            ELSE IF e[k] = "backslash" /\ e[i] # "backquote" THEN after[k + 2]
            ELSE after[k + 1]
    IN  after[i + 1]

Prefixed(tokens, r) == [name |-> tokens \o r.name, next |-> r.next, valid |-> r.valid]
Unreadable(e) == [name |-> << >>, next |-> Len(e) + 1, valid |-> FALSE]

(* Inside of the quotes of a name only a quote and a backslash are escaped. *)
readQuotedAttribute(e, i) ==
    LET read[k \in Nat] ==
            IF k > Len(e) THEN Unreadable(e)
            ELSE IF e[k] = "doublequote" THEN [name |-> << >>, next |-> k + 1, valid |-> TRUE]
            ELSE IF e[k] = "backslash"
              THEN IF k < Len(e) /\ e[k + 1] \in {"backslash", "doublequote"}
                     THEN Prefixed(<<e[k + 1]>>, read[k + 2])
                     ELSE Unreadable(e)
            ELSE Prefixed(<<e[k]>>, read[k + 1])
    IN  read[i + 1]

(* Mutant: a quote inside of a quoted name ends it. *)
readAttribute_unquoted(e, i) ==
    LET read[k \in Nat] ==
            IF k > Len(e) \/ e[k] \in Terminators
              THEN [name |-> << >>, next |-> k, valid |-> TRUE]
            ELSE Prefixed(<<e[k]>>, read[k + 1])
    IN  read[i]

(* The name at position i: up to a terminator, quoted parts included. *)
readAttribute(e, i) ==
    LET read[k \in Nat] ==
            IF k > Len(e) \/ e[k] \in Terminators
              THEN [name |-> << >>, next |-> k, valid |-> TRUE]
            ELSE IF e[k] = "doublequote"
              THEN LET quoted == readQuotedAttribute(e, k)
                   IN  IF quoted.valid THEN Prefixed(quoted.name, read[quoted.next])
                                       ELSE Unreadable(e)
            ELSE Prefixed(<<e[k]>>, read[k + 1])
    IN  read[i]

-----------------------------------------------------------------------------
containsTemplate(name) == \E k \in DOMAIN name : name[k] = "$"

Nothing == [references |-> {}, unresolved |-> {}]
Found(scope, name, rest) ==
    [rest EXCEPT !.references = @ \cup {[scope |-> scope, name |-> name]}]
Reason(why, rest) == [rest EXCEPT !.unresolved = @ \cup {why}]

(* The references of an expression, and the kinds of reasons for which it   *)
(* may have others.                                                         *)
Analyze(e) ==
    LET from[i \in Nat] ==
            IF i > Len(e) THEN Nothing
            ELSE IF e[i] \in Quotes
              THEN LET next == skipQuoted(e, i)
                   IN  IF next = 0 THEN Reason("unterminated", Nothing) ELSE from[next]
            ELSE IF e[i] \in Scopes /\ tokenBoundaryBefore(e, i)
              THEN LET a == readAttribute(e, i + 1)
                   IN  IF ~ a.valid \/ a.name = << >> THEN Reason("invalid", from[a.next])
                       ELSE IF containsTemplate(a.name) THEN Reason("templated", from[a.next])
                       ELSE Found(e[i], a.name, from[a.next])
            ELSE IF e[i] \in UnsupportedScopes /\ tokenBoundaryBefore(e, i)
              THEN Reason("scope", from[readAttribute(e, i + 1).next])
            ELSE IF e[i] = "." /\ tokenBoundaryBefore(e, i)
              THEN Reason("unscoped", from[readAttribute(e, i + 1).next])
            ELSE IF e[i] = "$" THEN Reason("template", from[i + 1])
            ELSE from[i + 1]
    IN  from[1]

-----------------------------------------------------------------------------
(* How an expression is written: its parts are attributes, quoted or not,   *)
(* string literals and other words, with an operator in between.  Nothing   *)
(* in the name of an attribute that is not quoted, in a word or in a raw    *)
(* string would make it something else.                                     *)
WellWritten(p) ==
    /\ p.kind \in {"attribute", "quotedAttribute", "word"} => p.name # << >>
    /\ p.kind = "attribute" => \A k \in DOMAIN p.name : p.name[k] \notin Terminators \cup {"doublequote"}
    /\ p.kind = "rawString" => \A k \in DOMAIN p.name : p.name[k] # "backquote"
    /\ p.kind = "word" => \A k \in DOMAIN p.name :
          /\ p.name[k] \notin Quotes
          /\ tokenBoundaryBefore(p.name, k) => p.name[k] \notin Scopes \cup UnsupportedScopes \cup {"."}

Part == {p \in [kind : {"attribute", "quotedAttribute", "string", "rawString", "word"},
                scope : Scopes \cup UnsupportedScopes \cup {"."}, name : Seq(STRING)] : WellWritten(p)}

Escaped(token) == IF token \in {"doublequote", "backslash"} THEN <<"backslash", token>> ELSE <<token>>
Quoted(name) ==
    LET after[k \in Nat] == IF k >= Len(name) THEN <<"doublequote">>
                            ELSE Escaped(name[k + 1]) \o after[k + 1]
    IN  <<"doublequote">> \o after[0]

PartText(p) ==
    CASE p.kind = "attribute" -> <<p.scope>> \o p.name
      [] p.kind = "quotedAttribute" -> <<p.scope>> \o Quoted(p.name)
      [] p.kind = "string" -> Quoted(p.name)
      [] p.kind = "rawString" -> <<"backquote">> \o p.name \o <<"backquote">>
      [] p.kind = "word" -> p.name

Expression(parts) ==
    LET after[k \in Nat] == IF k >= Len(parts) THEN << >>
                            ELSE (IF k = 0 THEN << >> ELSE <<"=">>) \o PartText(parts[k + 1]) \o after[k + 1]
    IN  after[0]

(* The parts that are exact references, and those that leave no doubt.      *)
IsAttribute(p) == p.kind \in {"attribute", "quotedAttribute"}
IsClear(p) == /\ IsAttribute(p) => p.scope \in Scopes
              /\ IsAttribute(p) \/ p.kind = "word" => ~ containsTemplate(p.name)
=============================================================================
