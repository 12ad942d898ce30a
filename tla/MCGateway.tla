----------------------------- MODULE MCGateway -----------------------------
(***************************************************************************)
(* Instance of Gateway for TLC: a key that is limited to one agent, two    *)
(* requests at a time, two payments; two callers of the limiter; and as    *)
(* letters the values of each type that depart in at most two fields from  *)
(* the one that holds nothing optional or from the one that holds all.     *)
(***************************************************************************)
EXTENDS Gateway, JsonValues, TLC

Interchangeable == Permutations(Handlers) \cup Permutations(Urls)

-----------------------------------------------------------------------------
RECURSIVE Sample(_, _)

SampleField(f, full) ==
  CASE Plain(f) /\ (full \/ f.need = "must") ->
         IF full THEN Given(f) ELSE Default(f)
    [] f.kind = "one" /\ (full \/ f.need = "must") ->
         LET s == Sample(f.of, full) IN s[1]
    [] f.kind = "many" -> List(IF full THEN Sample(f.of, full) ELSE << >>)
    [] f.kind = "map" /\ full ->
         LET s == Sample(f.of, full)
         IN Object([k \in {s[i].tag : i \in DOMAIN s} |->
                      s[CHOOSE i \in DOMAIN s : s[i].tag = k]])
    [] OTHER -> Absent

\* A list with one value of the type, or with one of each variant.
Sample(t, full) ==
  LET Of(r) == [n \in {f.name : f \in Records[r]} |->
                  SampleField(CHOOSE f \in Records[r] : f.name = n, full)]
  IN CASE t = "string" -> <<Scalar("string", "given")>>
       [] t \in DOMAIN Unions ->
            [i \in DOMAIN Unions[t] |->
               [tag |-> Unions[t][i].tag, v |-> Of(Unions[t][i].of)]]
       [] OTHER -> <<Of(t)>>

\* More than the bare and the full value: arrays of bare values.
Choices(f) ==
  {SampleField(f, FALSE), SampleField(f, TRUE)} \cup
    (CASE f.kind = "many" -> {List(Sample(f.of, FALSE))}
       [] f.kind = "one"  -> {Sample(f.of, FALSE)[1]}
       [] OTHER -> {})

SampleLetters ==
  [t \in Types |->
     IF t \in DOMAIN Unions
     THEN {Sample(t, full)[i] : full \in BOOLEAN, i \in DOMAIN Unions[t]}
     ELSE UNION {LET x == Sample(t, full)[1]
                 IN UNION {{[x EXCEPT ![f.name] = a, ![g.name] = b] :
                              a \in Choices(f), b \in Choices(g)} :
                           f \in Records[t], g \in Records[t]} :
                 full \in BOOLEAN}]
=============================================================================
