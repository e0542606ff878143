---------------------------- MODULE RestApiProofs ----------------------------
(***************************************************************************)
(* The answers of POST, and the pages of GET, for any requests, limits,    *)
(* notifications and page sizes.                                           *)
(***************************************************************************)
EXTENDS RestApi, FiniteSetTheorems, SequenceTheorems, WellFoundedInduction, TLAPS

(***************************************************************************)
(* The first of some errors                                                *)
(***************************************************************************)

(* Among the intervals 0 .. k of a set's elements one is the smallest.     *)
LEMMA Minimum ==
    ASSUME NEW S \in SUBSET Nat, S # {}
    PROVE  Min(S) \in S /\ \A j \in S : Min(S) <= j
<1> DEFINE T == {0 .. k : k \in S}
<1>1. T \subseteq FiniteSubsetsOf(Nat) /\ T # {}
  <2>1. ASSUME NEW k \in S
        PROVE  0 .. k \in FiniteSubsetsOf(Nat)
    BY FS_Interval DEF FiniteSubsetsOf
  <2> QED
    BY <2>1
<1>2. PICK x \in T : \A y \in T : <<y, x>> \notin StrictSubsetOrdering(Nat)
  <2>1. IsWellFoundedOn(StrictSubsetOrdering(Nat), FiniteSubsetsOf(Nat))
    BY FS_StrictSubsetOrderingWellFounded
  <2> HIDE DEF T
  <2> QED
    BY <1>1, <2>1, WFMin
<1>3. PICK k \in S : x = 0 .. k
  OBVIOUS
<1>4. ASSUME NEW j \in S, j < k
      PROVE  FALSE
  <2>1. 0 .. j \subseteq 0 .. k /\ 0 .. j # 0 .. k
    BY <1>4
  <2> QED
    <3>1. 0 .. j \in T
      OBVIOUS
    <3>2. 0 .. j \in SUBSET Nat /\ 0 .. k \in SUBSET Nat
      OBVIOUS
    <3>3. <<0 .. j, 0 .. k>> \in StrictSubsetOrdering(Nat)
      BY <2>1, <3>2 DEF StrictSubsetOrdering
    <3> HIDE DEF T
    <3> QED
      BY <1>2, <1>3, <3>1, <3>3
<1>5. \A j \in S : k <= j
  BY <1>4
<1> QED
  BY <1>5 DEF Min

LEMMA FirstErrorIs ==
    ASSUME NEW errors, NEW n \in Nat, DOMAIN errors = 1 .. n, Len(errors) = n
    PROVE  /\ FirstError(errors) # "none" => \E i \in DOMAIN errors : FirstError(errors) = errors[i]
           /\ FirstError(errors) = "none" => \A i \in DOMAIN errors : errors[i] = "none"
<1> DEFINE I == {i \in 1 .. Len(errors) : errors[i] # "none"}
<1>1. FirstError(errors) = IF I = {} \/ Min(I) = 0 THEN "none" ELSE errors[Min(I)]
  BY DEF FirstError, SelectInSeq
<1>2. I # {} => Min(I) \in I
  BY Minimum
<1>3. CASE I = {}
  BY <1>1, <1>3
<1>4. CASE I # {}
  <2>1. Min(I) \in DOMAIN errors /\ errors[Min(I)] # "none" /\ Min(I) # 0
    BY <1>2, <1>4
  <2> HIDE DEF I
  <2> QED
    BY <1>1, <1>4, <2>1
<1> QED
  BY <1>3, <1>4

(***************************************************************************)
(* Requests                                                                *)
(***************************************************************************)
LEMMA SequenceHas ==
    ASSUME NEW s, IsSequence(s)
    PROVE  Len(s) \in Nat /\ DOMAIN s = 1 .. Len(s)
BY LenProperties DEF IsSequence

LEMMA SequenceIn ==
    ASSUME NEW s, IsSequence(s), NEW T, \A i \in DOMAIN s : s[i] \in T
    PROVE  s \in Seq(T)
<1>1. Len(s) \in Nat /\ DOMAIN s = 1 .. Len(s) /\ s \in Seq(Range(s))
  BY SequenceHas DEF IsSequence
<1>2. s \in [1 .. Len(s) -> Range(s)]
  BY <1>1, LenProperties
<1> DEFINE n == Len(s)
<1> HIDE DEF n
<1>3. s \in [1 .. n -> T]
  BY <1>1, <1>2 DEF n
<1> QED
  BY <1>1, <1>3, SeqDef DEF n

LEMMA LengthOfDomain ==
    ASSUME NEW n \in Nat, NEW f, f = [i \in 1 .. n |-> f[i]]
    PROVE  Len(f) = n
<1>1. f \in [1 .. n -> Range(f)]
  BY DEF Range
<1>2. f \in Seq(Range(f))
  BY <1>1, SeqDef
<1> QED
  BY <1>1, <1>2, LenProperties

LEMMA PostHas ==
    ASSUME post \in Posts
    PROVE  /\ post # NoPost
           /\ Len(post.items) \in Nat /\ DOMAIN post.items = 1 .. Len(post.items)
           /\ ~post.batch => Len(post.items) = 1
           /\ post.batch \in BOOLEAN
<1>1. IsSequence(post.items) /\ post.batch \in BOOLEAN /\ (~post.batch => Len(post.items) = 1)
  BY PostsAssumption
<1>2. post # NoPost
  <2>1. NoPost.batch = FALSE /\ NoPost.items = << >> /\ Len(<< >>) = 0
    BY DEF NoPost
  <2> QED
    BY <1>1, <2>1
<1>3. Len(post.items) \in Nat /\ DOMAIN post.items = 1 .. Len(post.items)
  BY <1>1, SequenceHas
<1> QED
  BY <1>1, <1>2, <1>3

LEMMA ErrorsOf ==
    ASSUME post \in Posts
    PROVE  /\ RequestError = "none" =>
                 \A i \in DOMAIN post.items : ParseError(i) = "none" /\ ValidationError(i) = "none"
           /\ RequestError # "none" =>
                 \/ RequestError = "batch too large"
                 \/ \E i \in DOMAIN post.items :
                       RequestError = ParseError(i) \/ RequestError = ValidationError(i)
<1> DEFINE n         == Len(post.items)
           parsed    == [i \in 1 .. n |-> ParseError(i)]
           validated == [i \in 1 .. n |-> ValidationError(i)]
<1>1. n \in Nat /\ DOMAIN post.items = 1 .. n
  BY PostHas
<1>2. Len(parsed) = n /\ Len(validated) = n
  BY <1>1, LengthOfDomain
<1>6. /\ DOMAIN parsed = 1 .. n /\ \A i \in 1 .. n : parsed[i] = ParseError(i)
      /\ DOMAIN validated = 1 .. n /\ \A i \in 1 .. n : validated[i] = ValidationError(i)
  OBVIOUS
<1>3. RequestError = CASE FirstError(parsed) # "none" -> FirstError(parsed)
                       [] FirstError(parsed) = "none" /\ post.batch /\ n > MaxBatchSize
                             -> "batch too large"
                       [] OTHER -> FirstError(validated)
  BY <1>1 DEF RequestError
<1> HIDE DEF parsed, validated, n
<1>4. /\ FirstError(parsed) # "none" => \E i \in 1 .. n : FirstError(parsed) = ParseError(i)
      /\ FirstError(parsed) = "none" => \A i \in 1 .. n : ParseError(i) = "none"
  BY <1>1, <1>2, <1>6, FirstErrorIs
<1>5. /\ FirstError(validated) # "none" =>
             \E i \in 1 .. n : FirstError(validated) = ValidationError(i)
      /\ FirstError(validated) = "none" => \A i \in 1 .. n : ValidationError(i) = "none"
  BY <1>1, <1>2, <1>6, FirstErrorIs
<1> QED
  BY <1>1, <1>3, <1>4, <1>5

LEMMA RefusedAs4xx ==
    ASSUME post \in Posts, RequestError # "none"
    PROVE  ErrorStatus(RequestError) = 400
<1>1. \A i : ParseError(i) \in {"invalid channel", "invalid priority", "none"}
  BY DEF ParseError
<1>2. \A i : ValidationError(i) \in {"empty recipient", "empty content", "content too long", "none"}
  BY DEF ValidationError
<1>3. RequestError \in {"batch too large", "invalid channel", "invalid priority",
                        "empty recipient", "empty content", "content too long"}
  BY <1>1, <1>2, ErrorsOf
<1>4. RequestError # "duplicate key"
  BY <1>3
<1> QED
  BY <1>3, <1>4, Zenon DEF ErrorStatus

(***************************************************************************)
(* The invariant: a request is answered once, after all checks.            *)
(***************************************************************************)
Asked(i) == stored[i].channel = post.items[i].channel

Answered ==
    /\ post \in Posts \cup {NoPost}
    /\ answer # 0 => post # NoPost
    /\ answer \in {0, 400, 409} => stored = << >>
    /\ answer \in {202, 500} => RequestError = "none"
    /\ answer = 202 => Len(stored) = Len(post.items) /\ DOMAIN stored = DOMAIN post.items
    /\ stored # << >> =>
          /\ post \in Posts /\ RequestError = "none"
          /\ Len(stored) = Len(post.items) /\ DOMAIN stored = DOMAIN post.items
          /\ \A i \in DOMAIN stored : Asked(i)

LEMMA SameErrors ==
    ASSUME post' = post
    PROVE  /\ RequestError' = RequestError
           /\ stored' = stored => \A i : Asked(i)' <=> Asked(i)
BY DEF RequestError, ParseError, ValidationError, Asked

LEMMA RefusedAnswer ==
    ASSUME post \in Posts, post' = post, answer = 0, stored = << >>,
           \/ RequestError # "none" /\ Refuse(RequestError)
           \/ RequestError = "none" /\ Refuse("database")
           \/ RequestError = "none" /\ InsertError # "none" /\ Refuse(InsertError)
    PROVE  Answered'
<1>1. post # NoPost
  BY PostHas
<1>2. stored' = << >> /\ RequestError' = RequestError
  BY SameErrors DEF Refuse
<1>3. ASSUME NEW e
      PROVE  ErrorStatus(e) \in {400, 409, 500}
  <2> DEFINE client == {"invalid channel", "invalid priority", "batch too large",
                        "empty recipient", "empty content", "content too long"}
  <2>1. "duplicate key" \notin client
    OBVIOUS
  <2>2. CASE e = "duplicate key"
    <3>1. e \notin client
      BY <2>2
    <3>2. ErrorStatus(e) = 409
      BY <2>2, <3>1, ZenonT(60) DEF ErrorStatus
    <3> QED
      BY <3>2
  <2>3. CASE e \in client
    BY <2>1, <2>3, Zenon DEF ErrorStatus
  <2>4. CASE e # "duplicate key" /\ e \notin client
    <3>1. ErrorStatus(e) = 500
      BY <2>4, ZenonT(60) DEF ErrorStatus
    <3> QED
      BY <3>1
  <2> QED
    BY <2>2, <2>3, <2>4
<1>4. answer' \in {400, 409, 500}
  BY <1>3 DEF Refuse
<1>5. RequestError # "none" => answer' = 400
  BY RefusedAs4xx DEF Refuse
<1> QED
  BY <1>1, <1>2, <1>4, <1>5 DEF Answered

LEMMA AcceptedAnswer ==
    ASSUME post \in Posts, post' = post, RequestError = "none", answer' \in {202, 500},
           NEW rows, stored' = rows, DOMAIN rows = DOMAIN post.items, Len(rows) = Len(post.items),
           \A i \in DOMAIN rows : \E content : rows[i] = Row(post.items[i], content)
    PROVE  Answered'
<1>1. post # NoPost
  BY PostHas
<1>2. RequestError' = RequestError
  BY SameErrors
<1>3. ASSUME NEW i \in DOMAIN rows
      PROVE  Asked(i)'
  <2>1. PICK content : rows[i] = Row(post.items[i], content)
    BY <1>3
  <2>2. rows[i].channel = post.items[i].channel
    BY <2>1 DEF Row
  <2> QED
    BY <2>2 DEF Asked
<1> QED
  BY <1>1, <1>2, <1>3 DEF Answered

LEMMA DatabaseErrors == ErrorStatus("database") = 500
<1> DEFINE client == {"invalid channel", "invalid priority", "batch too large",
                      "empty recipient", "empty content", "content too long"}
<1>1. "database" \notin client /\ "database" # "duplicate key"
  OBVIOUS
<1> QED
  BY <1>1, Zenon DEF ErrorStatus

LEMMA CreateStep ==
    ASSUME Answered, CreateNext
    PROVE  Answered'
<1>1. CASE Post
  <2>1. post' \in Posts /\ answer' = 0 /\ stored' = << >>
    BY <1>1 DEF Post, Answered
  <2> QED
    BY <2>1 DEF Answered
<1>2. CASE CreateNotification
  <2>1. post \in Posts /\ answer = 0 /\ stored = << >> /\ post' = post /\ ~post.batch
    BY <1>2 DEF CreateNotification, Answered
  <2>2. CASE RequestError # "none" /\ Refuse(RequestError)
    BY <2>1, <2>2, RefusedAnswer
  <2>3. CASE /\ RequestError = "none"
             /\ \E order \in SetToSeqs(DOMAIN post.items[1].vars) :
                   Insert(<<Row(post.items[1],
                                ResolveTemplate(post.items[1].content, post.items[1].vars, order))>>)
    <3>1. PICK content : Insert(<<Row(post.items[1], content)>>)
      BY <2>3
    <3>2. CASE answer' \in {202, 500} /\ stored' = <<Row(post.items[1], content)>>
      <4> DEFINE rows == <<Row(post.items[1], content)>>
      <4>1. Len(post.items) = 1 /\ DOMAIN post.items = 1 .. 1
        BY <2>1, PostHas
      <4>2. Len(rows) = 1 /\ DOMAIN rows = 1 .. 1
            /\ rows[1] = Row(post.items[1], content)
        OBVIOUS
      <4> HIDE DEF rows
      <4>3. stored' = rows
        BY <3>2 DEF rows
      <4> QED
        BY <2>1, <2>3, <3>2, <4>1, <4>2, <4>3, AcceptedAnswer
    <3> QED
      BY <2>1, <2>3, <3>1, <3>2, RefusedAnswer, DatabaseErrors DEF Insert
  <2> QED
    BY <1>2, <2>2, <2>3 DEF CreateNotification
<1>3. CASE CreateBatch
  <2>1. post \in Posts /\ answer = 0 /\ stored = << >> /\ post' = post /\ post.batch
    BY <1>3 DEF CreateBatch, Answered
  <2>2. CASE RequestError # "none" /\ Refuse(RequestError)
    BY <2>1, <2>2, RefusedAnswer
  <2>3. CASE /\ RequestError = "none"
             /\ Insert([i \in DOMAIN post.items |-> Row(post.items[i], post.items[i].content)])
    <3> DEFINE rows == [i \in DOMAIN post.items |-> Row(post.items[i], post.items[i].content)]
    <3>1. CASE answer' \in {202, 500} /\ stored' = rows
      <4>1. Len(post.items) \in Nat /\ DOMAIN post.items = 1 .. Len(post.items)
        BY <2>1, PostHas
      <4>2. Len(rows) = Len(post.items)
        BY <4>1, LengthOfDomain
      <4>3. /\ DOMAIN rows = DOMAIN post.items
            /\ \A i \in DOMAIN rows : rows[i] = Row(post.items[i], post.items[i].content)
        OBVIOUS
      <4>4. stored' = rows
        BY <3>1
      <4> HIDE DEF rows
      <4> QED
        BY <2>1, <2>3, <3>1, <4>2, <4>3, <4>4, AcceptedAnswer
    <3> QED
      BY <2>1, <2>3, <3>1, RefusedAnswer, DatabaseErrors DEF Insert
  <2> QED
    BY <1>3, <2>2, <2>3 DEF CreateBatch
<1> QED
  BY <1>1, <1>2, <1>3 DEF CreateNext

LEMMA AnsweredStep ==
    ASSUME Answered, [Next]_vars
    PROVE  Answered'
<1>1. CASE UNCHANGED createVars
  <2>1. post' = post /\ answer' = answer /\ stored' = stored
    BY <1>1 DEF createVars
  <2>2. RequestError' = RequestError /\ \A i : Asked(i)' <=> Asked(i)
    BY <2>1, SameErrors
  <2> QED
    BY <2>1, <2>2 DEF Answered
<1> QED
  BY <1>1, CreateStep DEF Next, vars

LEMMA AnsweredHolds == Spec => []Answered
<1>1. Init => Answered
  BY DEF Init, CreateInit, Answered, NoPost
<1> QED
  BY <1>1, AnsweredStep, PTL DEF Spec

(* A request is stored as a whole or not at all: as a whole if it is       *)
(* answered 202, not at all if 400 or 409 (handler.go;                     *)
(* service/notification.go, Create and CreateBatch).                       *)
THEOREM AllOrNothingStored == Spec => []AllOrNothing
<1>1. Answered => AllOrNothing
  BY DEF Answered, AllOrNothing, Accepted
<1> QED
  BY <1>1, AnsweredHolds, PTL

(* What a check refuses is blamed on the client (handler.go,               *)
(* handleServiceError).                                                    *)
THEOREM ChecksAreAnswered4xx == Spec => []ClientErrorsAre4xx
<1>1. Answered => ClientErrorsAre4xx
  BY DEF Answered, ClientErrorsAre4xx
<1> QED
  BY <1>1, AnsweredHolds, PTL

LEMMA LengthIsInt ==
    ASSUME NEW content, IsSequence(content)
    PROVE  Length(content) \in Int
<1> DEFINE placeholders == {i \in DOMAIN content : content[i] \in Variables}
<1>1. Len(content) \in Nat /\ DOMAIN content = 1 .. Len(content)
  BY SequenceHas
<1>2. Cardinality(placeholders) \in Nat
  <2>1. IsFiniteSet(1 .. Len(content)) /\ placeholders \in SUBSET (1 .. Len(content))
    BY <1>1, FS_Interval
  <2> QED
    BY <2>1, FS_Subset, FS_CardinalityType
<1> HIDE DEF placeholders
<1>3. Len(content) + Cardinality(placeholders) * (PlaceholderLength - 1) \in Int
  BY <1>1, <1>2, LengthsAssumption
<1> QED
  BY <1>3 DEF Length, placeholders

(* No content that its template left alone is longer than its channel      *)
(* allows (notification.go, Validate).                                     *)
THEOREM ContentStaysWithinLimit == Spec => []ContentWithinLimit
<1>1. Answered => ContentWithinLimit
  <2> SUFFICES ASSUME Answered, NEW i \in DOMAIN stored,
                      stored[i].content = post.items[i].content
               PROVE  Length(stored[i].content) <= MaxContentLength[stored[i].channel]
    BY DEF ContentWithinLimit
  <2> DEFINE item == post.items[i]
  <2>1. stored # << >>
    OBVIOUS
  <2>2. post \in Posts /\ i \in DOMAIN post.items /\ stored[i].channel = item.channel
    BY <2>1 DEF Answered, Asked
  <2>3. ParseError(i) = "none" /\ ValidationError(i) = "none"
    BY <2>1, <2>2, ErrorsOf DEF Answered
  <2>4. MaxContentLength[item.channel] \in Nat
    BY <2>3, LengthsAssumption DEF ParseError, ParseChannel
  <2>5. Length(item.content) \in Int
    BY <2>2, LengthIsInt, PostsAssumption
  <2>6. ~(Length(item.content) > MaxContentLength[item.channel])
    BY <2>3 DEF ValidationError
  <2> HIDE DEF item
  <2> QED
    BY <2>2, <2>4, <2>5, <2>6 DEF item
<1> QED
  BY <1>1, AnsweredHolds, PTL

(***************************************************************************)
(* Sequences of sequences put together                                     *)
(***************************************************************************)
(* A set of numbers that has 0 and the successor of each number it has.    *)
LEMMA Induction ==
    ASSUME NEW n \in Nat, NEW P, 0 \in P, \A i \in 1 .. n : i - 1 \in P => i \in P
    PROVE  \A i \in 0 .. n : i \in P
<1> DEFINE S == {i \in 0 .. n : i \notin P}
<1> SUFFICES ASSUME S # {}
             PROVE  FALSE
  OBVIOUS
<1>1. S \in SUBSET Nat
  OBVIOUS
<1> DEFINE m == Min(S)
<1>2. m \in S /\ \A j \in S : m <= j
  <2> HIDE DEF S
  <2> QED
    BY <1>1, Minimum
<1> HIDE DEF m
<1>3. m \in 1 .. n /\ m \notin P
  BY <1>2
<1>4. m - 1 \notin P
  BY <1>3
<1>5. m - 1 \in S
  BY <1>3, <1>4
<1> HIDE DEF S
<1> QED
  BY <1>2, <1>3, <1>5

(* g[k] is what the first k sequences make when they are put together.     *)
Joins(g, seqs, n) ==
    /\ g[0] = << >>
    /\ \A i \in 1 .. n : g[i] = g[i - 1] \o seqs[i]

LEMMA JoinsExist ==
    ASSUME NEW T, NEW seqs \in Seq(Seq(T))
    PROVE  \E g \in [0 .. Len(seqs) -> Seq(T)] : Joins(g, seqs, Len(seqs))
<1> DEFINE n == Len(seqs)
           P == {k \in 0 .. n : \E g \in [0 .. k -> Seq(T)] : Joins(g, seqs, k)}
<1>1. n \in Nat /\ \A i \in 1 .. n : seqs[i] \in Seq(T)
  BY LenProperties
<1> HIDE DEF n
<1>2. 0 \in P
  <2> DEFINE g == [i \in 0 .. 0 |-> << >>]
  <2>1. g \in [0 .. 0 -> Seq(T)] /\ Joins(g, seqs, 0)
    BY EmptySeq DEF Joins
  <2> HIDE DEF g
  <2> QED
    BY <1>1, <2>1
<1>3. ASSUME NEW k \in 1 .. n, k - 1 \in P
      PROVE  k \in P
  <2>1. PICK g \in [0 .. k - 1 -> Seq(T)] : Joins(g, seqs, k - 1)
    BY <1>3
  <2> DEFINE last == g[k - 1] \o seqs[k]
             h == [i \in 0 .. k |-> IF i = k THEN last ELSE g[i]]
  <2>2. g[k - 1] \in Seq(T) /\ seqs[k] \in Seq(T)
    BY <1>1, <2>1
  <2>3. last \in Seq(T)
    BY <2>2, ConcatProperties
  <2> HIDE DEF last
  <2>4. h \in [0 .. k -> Seq(T)]
    BY <2>1, <2>3
  <2>5. Joins(h, seqs, k)
    <3>1. /\ \A i \in 0 .. k - 1 : h[i] = g[i]
          /\ h[k] = last
      BY <1>1
    <3> HIDE DEF h
    <3>2. ASSUME NEW i \in 1 .. k
          PROVE  h[i] = h[i - 1] \o seqs[i]
      <4>1. i - 1 \in 0 .. k - 1 /\ (i # k => i \in 1 .. k - 1 /\ i \in 0 .. k - 1)
        BY <1>1
      <4>2. CASE i = k
        BY <3>1, <4>1, <4>2 DEF last
      <4>3. CASE i # k
        <5>1. g[i] = g[i - 1] \o seqs[i]
          BY <2>1, <4>1, <4>3 DEF Joins
        <5> QED
          BY <3>1, <4>1, <4>3, <5>1
      <4> QED
        BY <4>2, <4>3
    <3>3. h[0] = << >>
      <4>1. 0 \in 0 .. k - 1 /\ g[0] = << >>
        BY <1>1, <2>1 DEF Joins
      <4> QED
        BY <3>1, <4>1
    <3> QED
      BY <3>2, <3>3 DEF Joins
  <2> HIDE DEF h
  <2> QED
    BY <2>4, <2>5
<1>4. \A i \in 0 .. n : i \in P
  <2> HIDE DEF P
  <2> QED
    BY <1>1, <1>2, <1>3, Induction
<1>5. n \in P
  <2>1. n \in 0 .. n
    BY <1>1
  <2> HIDE DEF P
  <2> QED
    BY <1>4, <2>1
<1> QED
  BY <1>5 DEF n

(* FlattenSeq's recursion has a solution, and it is this one.              *)
LEMMA FlattenIs ==
    ASSUME NEW T, NEW seqs \in Seq(Seq(T)),
           NEW g \in [0 .. Len(seqs) -> Seq(T)], Joins(g, seqs, Len(seqs))
    PROVE  FlattenSeq(seqs) = g[Len(seqs)] /\ FlattenSeq(seqs) \in Seq(T)
<1> DEFINE n == Len(seqs)
           Solves(f) == f = [i \in 1 .. n |-> IF i = 1 THEN seqs[i] ELSE f[i - 1] \o seqs[i]]
           flatten == CHOOSE f : Solves(f)
           h == [i \in 1 .. n |-> g[i]]
<1>1. n \in Nat /\ \A i \in 1 .. n : seqs[i] \in Seq(T)
  BY LenProperties
<1>2. CASE n = 0
  <2>1. seqs = << >>
    BY <1>2, EmptySeq
  <2> QED
    BY <1>2, <2>1 DEF FlattenSeq, Joins
<1>3. CASE n # 0
  <2>1. FlattenSeq(seqs) = flatten[n]
    BY <1>3 DEF FlattenSeq
  <2>2. Solves(h)
    <3>1. ASSUME NEW i \in 1 .. n
          PROVE  g[i] = IF i = 1 THEN seqs[i] ELSE h[i - 1] \o seqs[i]
      <4>1. g[i] = g[i - 1] \o seqs[i]
        BY DEF Joins
      <4>2. CASE i = 1
        BY <1>1, <4>1, <4>2, ConcatEmptySeq DEF Joins
      <4>3. CASE i # 1
        <5>1. i - 1 \in 1 .. n
          BY <1>1, <4>3
        <5> QED
          BY <4>1, <4>3, <5>1
      <4> QED
        BY <4>2, <4>3
    <3> QED
      BY <3>1
  <2>3. Solves(flatten)
    <3> HIDE DEF Solves, h
    <3> QED
      BY <2>2
  <2> HIDE DEF flatten, h
  <2> DEFINE P == {k \in 0 .. n : k = 0 \/ flatten[k] = g[k]}
  <2>4. 0 \in P
    BY <1>1
  <2>5. ASSUME NEW k \in 1 .. n, k - 1 \in P
        PROVE  k \in P
    <3>1. flatten[k] = IF k = 1 THEN seqs[k] ELSE flatten[k - 1] \o seqs[k]
      BY <2>3
    <3>2. g[k] = g[k - 1] \o seqs[k] /\ g[0] = << >> /\ seqs[k] \in Seq(T)
      BY <1>1 DEF Joins
    <3>3. k - 1 = 0 \/ flatten[k - 1] = g[k - 1]
      BY <2>5
    <3> HIDE DEF n, Solves
    <3>4. CASE k = 1
      <4>1. << >> \o seqs[k] = seqs[k]
        BY <3>2, ConcatEmptySeq
      <4>2. k - 1 = 0
        BY <3>4
      <4>3. g[k] = seqs[k]
        BY <3>2, <4>1, <4>2, Zenon
      <4>4. flatten[k] = seqs[k]
        BY <3>1, <3>4, Zenon
      <4>5. flatten[k] = g[k]
        BY <4>3, <4>4
      <4> QED
        BY <1>1, <4>5
    <3>5. CASE k # 1
      <4>1. k - 1 # 0
        BY <1>1, <3>5
      <4>2. flatten[k] = flatten[k - 1] \o seqs[k]
        BY <3>1, <3>5, Zenon
      <4>3. flatten[k] = g[k]
        BY <3>2, <3>3, <4>1, <4>2, Zenon
      <4> QED
        BY <1>1, <4>3
    <3> QED
      BY <3>4, <3>5
  <2>6. \A k \in 0 .. n : k \in P
    <3> HIDE DEF P, n
    <3> QED
      BY <1>1, <2>4, <2>5, Induction
  <2>7. n \in P
    BY <1>1, <2>6
  <2> QED
    BY <1>1, <1>3, <2>1, <2>7
<1> QED
  BY <1>2, <1>3

LEMMA FlattenTyped ==
    ASSUME NEW T, NEW seqs \in Seq(Seq(T))
    PROVE  FlattenSeq(seqs) \in Seq(T)
BY JoinsExist, FlattenIs

LEMMA FlattenOne ==
    ASSUME NEW T, NEW s \in Seq(T)
    PROVE  FlattenSeq(<<s>>) = s
<1> DEFINE seqs == <<s>>
<1>1. seqs \in Seq(Seq(T)) /\ Len(seqs) = 1 /\ seqs[1] = s
  OBVIOUS
<1> HIDE DEF seqs
<1>2. PICK g \in [0 .. 1 -> Seq(T)] : Joins(g, seqs, 1)
  BY <1>1, JoinsExist
<1>3. g[1] = g[1 - 1] \o seqs[1] /\ g[0] = << >>
  BY <1>2 DEF Joins
<1>4. 1 - 1 = 0
  OBVIOUS
<1>5. g[1] = << >> \o s
  BY <1>1, <1>3, <1>4, Zenon
<1>6. FlattenSeq(seqs) = g[1]
  BY <1>1, <1>2, FlattenIs
<1> QED
  BY <1>5, <1>6, ConcatEmptySeq DEF seqs

LEMMA FlattenConcat ==
    ASSUME NEW T, NEW a \in Seq(Seq(T)), NEW b \in Seq(Seq(T))
    PROVE  FlattenSeq(a \o b) = FlattenSeq(a) \o FlattenSeq(b)
<1> DEFINE c == a \o b
           m == Len(a)
           n == Len(b)
<1>1. /\ c \in Seq(Seq(T)) /\ Len(c) = m + n /\ m \in Nat /\ n \in Nat
      /\ \A i \in 1 .. m + n : c[i] = IF i <= m THEN a[i] ELSE b[i - m]
      /\ \A i \in 1 .. n : b[i] \in Seq(T)
  BY ConcatProperties, LenProperties
<1> HIDE DEF c
<1>2. PICK ga \in [0 .. Len(a) -> Seq(T)] : Joins(ga, a, Len(a))
  BY JoinsExist
<1>3. PICK gb \in [0 .. Len(b) -> Seq(T)] : Joins(gb, b, Len(b))
  BY JoinsExist
<1>4. PICK gc \in [0 .. Len(c) -> Seq(T)] : Joins(gc, c, Len(c))
  BY <1>1, JoinsExist
<1>5. FlattenSeq(a) = ga[m] /\ FlattenSeq(b) = gb[n] /\ FlattenSeq(c) = gc[m + n]
  BY <1>1, <1>2, <1>3, <1>4, FlattenIs
<1> HIDE DEF m, n
<1>8. \A x, y, z \in Seq(T) : (x \o y) \o z = x \o (y \o z)
  BY ConcatAssociative
<1>6. gc[m] = ga[m]
  <2> DEFINE P == {k \in 0 .. m : gc[k] = ga[k]}
  <2>1. 0 \in P
    BY <1>1, <1>2, <1>4 DEF Joins
  <2>2. ASSUME NEW k \in 1 .. m, k - 1 \in P
        PROVE  k \in P
    <3>1. ga[k] = ga[k - 1] \o a[k] /\ gc[k - 1] = ga[k - 1]
      BY <1>2, <2>2 DEF Joins, m
    <3>2. k \in 1 .. m + n /\ k <= m /\ k \in 0 .. m
      BY <1>1
    <3>3. gc[k] = gc[k - 1] \o c[k] /\ c[k] = a[k]
      BY <1>1, <1>4, <3>2 DEF Joins
    <3>4. gc[k] = ga[k]
      BY <3>1, <3>3, Zenon
    <3> QED
      BY <3>2, <3>4
  <2>3. \A k \in 0 .. m : k \in P
    <3> HIDE DEF P
    <3> QED
      BY <1>1, <2>1, <2>2, Induction
  <2>4. m \in 0 .. m
    BY <1>1
  <2> QED
    BY <2>3, <2>4
<1>7. gc[m + n] = ga[m] \o gb[n]
  <2> DEFINE P == {k \in 0 .. n : gc[m + k] = ga[m] \o gb[k]}
  <2>1. 0 \in P
    <3>1. ga[m] \in Seq(T)
      <4>1. m \in 0 .. m
        BY <1>1
      <4> QED
        BY <1>2, <4>1 DEF m
    <3>4. gb[0] = << >> /\ m + 0 = m /\ 0 \in 0 .. n
      BY <1>1, <1>3 DEF Joins
    <3>2. ga[m] \o gb[0] = ga[m]
      BY <3>1, <3>4, ConcatEmptySeq
    <3>3. gc[m + 0] = ga[m] \o gb[0]
      BY <1>6, <3>2, <3>4, Zenon
    <3> QED
      BY <3>3, <3>4, Zenon
  <2>2. ASSUME NEW k \in 1 .. n, k - 1 \in P
        PROVE  k \in P
    <3>1. gb[k] = gb[k - 1] \o b[k] /\ gc[m + (k - 1)] = ga[m] \o gb[k - 1]
      BY <1>3, <2>2 DEF Joins, n
    <3>2. /\ m + k \in 1 .. m + n /\ ~(m + k <= m) /\ (m + k) - m = k /\ k \in 0 .. n
          /\ k - 1 \in 0 .. n /\ (m + k) - 1 = m + (k - 1) /\ m \in 0 .. m
      BY <1>1
    <3>3. gc[m + k] = gc[(m + k) - 1] \o c[m + k]
      BY <1>1, <1>4, <3>2 DEF Joins
    <3>4. c[m + k] = b[k]
      <4>1. c[m + k] = IF m + k <= m THEN a[m + k] ELSE b[(m + k) - m]
        BY <1>1, <3>2
      <4> QED
        BY <3>2, <4>1, Zenon
    <3>5. gc[m + k] = (ga[m] \o gb[k - 1]) \o b[k]
      BY <3>1, <3>2, <3>3, <3>4, Zenon
    <3>6. ga[m] \in Seq(T) /\ gb[k - 1] \in Seq(T) /\ b[k] \in Seq(T)
      BY <1>1, <3>2 DEF m, n
    <3>7. (ga[m] \o gb[k - 1]) \o b[k] = ga[m] \o (gb[k - 1] \o b[k])
      BY <1>8, <3>6, Zenon
    <3>8. gc[m + k] = ga[m] \o gb[k]
      BY <3>1, <3>5, <3>7, Zenon
    <3> QED
      BY <3>2, <3>8
  <2>3. \A k \in 0 .. n : k \in P
    <3> HIDE DEF P
    <3> QED
      BY <1>1, <2>1, <2>2, Induction
  <2>4. n \in 0 .. n
    BY <1>1
  <2> QED
    BY <2>3, <2>4
<1> QED
  BY <1>5, <1>7 DEF c

(***************************************************************************)
(* Replacing                                                               *)
(***************************************************************************)

(* What ReplaceEvery puts in the place of each token.                      *)
Images(s, v, value) == [i \in DOMAIN s |-> IF s[i] = v THEN value ELSE <<s[i]>>]

LEMMA ImagesTyped ==
    ASSUME NEW T, NEW s \in Seq(T), NEW v, NEW value \in Seq(T)
    PROVE  /\ Images(s, v, value) \in Seq(Seq(T)) /\ Len(Images(s, v, value)) = Len(s)
           /\ \A i \in 1 .. Len(s) : Images(s, v, value)[i] = IF s[i] = v THEN value ELSE <<s[i]>>
<1> DEFINE n == Len(s)
           f == Images(s, v, value)
<1>1. n \in Nat /\ DOMAIN s = 1 .. n /\ \A i \in 1 .. n : s[i] \in T
  BY LenProperties
<1>2. \A i \in 1 .. n : <<s[i]>> \in Seq(T)
  BY <1>1
<1>3. f = [i \in 1 .. n |-> IF s[i] = v THEN value ELSE <<s[i]>>]
  BY <1>1 DEF Images
<1> HIDE DEF n
<1>4. f \in [1 .. n -> Seq(T)] /\ DOMAIN f = 1 .. n
      /\ \A i \in 1 .. n : f[i] = IF s[i] = v THEN value ELSE <<s[i]>>
  BY <1>2, <1>3
<1> HIDE DEF f
<1>5. f \in Seq(Seq(T)) /\ Len(f) = n
  <2>1. f \in Seq(Seq(T))
    BY <1>1, <1>4, SeqDef
  <2>2. Len(f) \in Nat /\ DOMAIN f = 1 .. Len(f)
    BY <2>1, LenProperties
  <2> QED
    BY <1>1, <1>4, <2>1, <2>2
<1> QED
  BY <1>4, <1>5 DEF f, n

LEMMA ReplaceTyped ==
    ASSUME NEW T, NEW s \in Seq(T), NEW v, NEW value \in Seq(T)
    PROVE  /\ ReplaceEvery(s, v, value) = FlattenSeq(Images(s, v, value))
           /\ ReplaceEvery(s, v, value) \in Seq(T)
<1>1. ReplaceEvery(s, v, value) = FlattenSeq(Images(s, v, value))
  BY DEF ReplaceEvery, Images
<1> QED
  BY <1>1, ImagesTyped, FlattenTyped

LEMMA ReplaceConcat ==
    ASSUME NEW T, NEW s \in Seq(T), NEW t \in Seq(T), NEW v, NEW value \in Seq(T)
    PROVE  ReplaceEvery(s \o t, v, value) = ReplaceEvery(s, v, value) \o ReplaceEvery(t, v, value)
<1> DEFINE a == Images(s, v, value)
           b == Images(t, v, value)
           c == Images(s \o t, v, value)
<1>1. /\ s \o t \in Seq(T) /\ Len(s \o t) = Len(s) + Len(t) /\ Len(s) \in Nat /\ Len(t) \in Nat
      /\ \A i \in 1 .. Len(s) + Len(t) : (s \o t)[i] = IF i <= Len(s) THEN s[i] ELSE t[i - Len(s)]
  BY ConcatProperties, LenProperties
<1> DEFINE st == s \o t
<1>6. /\ a \in Seq(Seq(T)) /\ Len(a) = Len(s)
      /\ \A i \in 1 .. Len(s) : a[i] = IF s[i] = v THEN value ELSE <<s[i]>>
      /\ ReplaceEvery(s, v, value) = FlattenSeq(a)
  BY ImagesTyped, ReplaceTyped
<1>7. /\ b \in Seq(Seq(T)) /\ Len(b) = Len(t)
      /\ \A i \in 1 .. Len(t) : b[i] = IF t[i] = v THEN value ELSE <<t[i]>>
      /\ ReplaceEvery(t, v, value) = FlattenSeq(b)
  BY ImagesTyped, ReplaceTyped
<1>8. /\ c \in Seq(Seq(T)) /\ Len(c) = Len(st)
      /\ \A i \in 1 .. Len(st) : c[i] = IF st[i] = v THEN value ELSE <<st[i]>>
      /\ ReplaceEvery(st, v, value) = FlattenSeq(c)
  <2>1. st \in Seq(T) /\ c = Images(st, v, value)
    BY <1>1
  <2> HIDE DEF st, c
  <2> QED
    BY <2>1, ImagesTyped, ReplaceTyped
<1> HIDE DEF a, b, c
<1>2. /\ a \in Seq(Seq(T)) /\ Len(a) = Len(s)
      /\ \A i \in 1 .. Len(s) : a[i] = IF s[i] = v THEN value ELSE <<s[i]>>
      /\ b \in Seq(Seq(T)) /\ Len(b) = Len(t)
      /\ \A i \in 1 .. Len(t) : b[i] = IF t[i] = v THEN value ELSE <<t[i]>>
      /\ c \in Seq(Seq(T)) /\ Len(c) = Len(s) + Len(t)
      /\ \A i \in 1 .. Len(s) + Len(t) : c[i] = IF (s \o t)[i] = v THEN value ELSE <<(s \o t)[i]>>
  BY <1>1, <1>6, <1>7, <1>8
<1>3. /\ a \o b \in Seq(Seq(T)) /\ Len(a \o b) = Len(s) + Len(t)
      /\ \A i \in 1 .. Len(s) + Len(t) : (a \o b)[i] = IF i <= Len(s) THEN a[i] ELSE b[i - Len(s)]
  <2>1. a \o b \in Seq(Seq(T)) /\ Len(a \o b) = Len(a) + Len(b)
        /\ \A i \in 1 .. Len(a) + Len(b) : (a \o b)[i] = IF i <= Len(a) THEN a[i] ELSE b[i - Len(a)]
    <3>1. a \in Seq(Seq(T)) /\ b \in Seq(Seq(T))
      BY <1>2
    <3> QED
      BY <3>1, ConcatProperties
  <2> QED
    BY <1>2, <2>1
<1>4. c = a \o b
  <2> DEFINE ab == a \o b
  <2>3. ab \in Seq(Seq(T)) /\ c \in Seq(Seq(T)) /\ Len(c) = Len(ab) /\ Len(c) = Len(s) + Len(t)
    BY <1>2, <1>3
  <2> SUFFICES ASSUME NEW i \in 1 .. Len(s) + Len(t)
               PROVE  c[i] = ab[i]
    <3> HIDE DEF ab
    <3>1. (\A i \in 1 .. Len(c) : c[i] = ab[i]) => c = ab
      BY <2>3, SeqEqual
    <3> QED
      BY <2>3, <3>1 DEF ab
  <2>1. CASE i <= Len(s)
    <3>1. i \in 1 .. Len(s)
      BY <1>1, <2>1
    <3> QED
      BY <1>1, <1>2, <1>3, <2>1, <3>1, Zenon
  <2>2. CASE ~(i <= Len(s))
    <3>1. i - Len(s) \in 1 .. Len(t)
      BY <1>1, <2>2
    <3> QED
      BY <1>1, <1>2, <1>3, <2>2, <3>1, Zenon
  <2> QED
    BY <2>1, <2>2
<1>5. FlattenSeq(c) = FlattenSeq(a) \o FlattenSeq(b)
  BY <1>2, <1>4, FlattenConcat
<1> QED
  BY <1>5, <1>6, <1>7, <1>8 DEF st

(* Put together, the tokens of a sequence are the sequence.                *)
LEMMA FlattenTokens ==
    ASSUME NEW T, NEW s \in Seq(T), NEW f, f \in Seq(Seq(T)), Len(f) = Len(s),
           \A i \in 1 .. Len(s) : f[i] = <<s[i]>>
    PROVE  FlattenSeq(f) = s
<1> DEFINE n == Len(s)
           P == {k \in 0 .. n : FlattenSeq(SubSeq(f, 1, k)) = SubSeq(s, 1, k)}
<1>1. n \in Nat /\ \A i \in 1 .. n : s[i] \in T /\ f[i] \in Seq(T)
  BY LenProperties
<1>2. 0 \in P
  <2>1. SubSeq(f, 1, 0) = << >> /\ SubSeq(s, 1, 0) = << >>
    BY SubSeqEmpty
  <2>2. FlattenSeq(<< >>) = << >>
    BY DEF FlattenSeq
  <2>3. 0 \in 0 .. n
    BY <1>1
  <2> QED
    BY <2>1, <2>2, <2>3, Zenon
<1>3. ASSUME NEW k \in 1 .. n, k - 1 \in P
      PROVE  k \in P
  <2>1. 1 \in 1 .. n /\ k \in 1 .. n /\ k \in 0 .. n
    BY <1>1
  <2>2. /\ SubSeq(f, 1, k) = SubSeq(f, 1, k - 1) \o <<f[k]>>
        /\ SubSeq(s, 1, k) = SubSeq(s, 1, k - 1) \o <<s[k]>>
    <3>1. k \in 1 .. Len(f) /\ 1 \in 1 .. Len(f)
      BY <2>1
    <3>2. k \in 1 .. Len(s) /\ 1 \in 1 .. Len(s)
      BY <2>1
    <3> QED
      BY <3>1, <3>2, SubSeqRecursiveSecond
  <2> DEFINE a == SubSeq(f, 1, k - 1)
             b == <<f[k]>>
  <2>3. a \in Seq(Seq(T)) /\ b \in Seq(Seq(T))
    <3>1. \A i \in 1 .. k - 1 : f[i] \in Seq(T)
      BY <1>1
    <3>2. k - 1 \in Int /\ f[k] \in Seq(T)
      BY <1>1
    <3> QED
      BY <3>1, <3>2, SubSeqProperties
  <2>4. FlattenSeq(b) = <<s[k]>>
    BY <1>1, FlattenOne
  <2>5. FlattenSeq(a) = SubSeq(s, 1, k - 1)
    BY <1>3
  <2> HIDE DEF a, b
  <2>6. FlattenSeq(a \o b) = FlattenSeq(a) \o FlattenSeq(b)
    BY <2>3, FlattenConcat
  <2>7. FlattenSeq(SubSeq(f, 1, k)) = SubSeq(s, 1, k)
    BY <2>2, <2>4, <2>5, <2>6, Zenon DEF a, b
  <2> QED
    BY <2>1, <2>7
<1>4. \A k \in 0 .. n : k \in P
  <2> HIDE DEF P, n
  <2> QED
    BY <1>1, <1>2, <1>3, Induction
<1>5. FlattenSeq(SubSeq(f, 1, n)) = SubSeq(s, 1, n)
  <2>1. n \in 0 .. n
    BY <1>1
  <2> QED
    BY <1>4, <2>1
<1>6. SubSeq(f, 1, n) = f /\ SubSeq(s, 1, n) = s
  BY SubSeqFull
<1> QED
  BY <1>5, <1>6

LEMMA ReplaceNothing ==
    ASSUME NEW T, NEW s \in Seq(T), NEW v, NEW value \in Seq(T), \A i \in DOMAIN s : s[i] # v
    PROVE  ReplaceEvery(s, v, value) = s
<1> DEFINE f == Images(s, v, value)
<1>1. DOMAIN s = 1 .. Len(s)
  BY LenProperties
<1>2. f \in Seq(Seq(T)) /\ Len(f) = Len(s) /\ \A i \in 1 .. Len(s) : f[i] = <<s[i]>>
  <2>1. /\ f \in Seq(Seq(T)) /\ Len(f) = Len(s)
        /\ \A i \in 1 .. Len(s) : f[i] = IF s[i] = v THEN value ELSE <<s[i]>>
    BY ImagesTyped
  <2> HIDE DEF f
  <2> QED
    BY <1>1, <2>1
<1>3. ReplaceEvery(s, v, value) = FlattenSeq(f)
  BY ReplaceTyped
<1> HIDE DEF f
<1> QED
  BY <1>2, <1>3, FlattenTokens

LEMMA ReplaceToken ==
    ASSUME NEW T, NEW x \in T, NEW v, NEW value \in Seq(T)
    PROVE  ReplaceEvery(<<x>>, v, value) = IF x = v THEN value ELSE <<x>>
<1> DEFINE s == <<x>>
           image == IF x = v THEN value ELSE <<x>>
<1>1. s \in Seq(T) /\ Len(s) = 1 /\ s[1] = x /\ DOMAIN s = 1 .. 1 /\ image \in Seq(T)
  OBVIOUS
<1>2. ReplaceEvery(s, v, value) = FlattenSeq(Images(s, v, value))
  BY <1>1, ReplaceTyped
<1>3. Images(s, v, value) = <<image>>
  BY <1>1 DEF Images
<1> HIDE DEF s, image
<1>4. FlattenSeq(<<image>>) = image
  BY <1>1, FlattenOne
<1> QED
  BY <1>2, <1>3, <1>4 DEF s, image

(* f is parts with v replaced in each.                                     *)
Replaced(f, parts, v, value) ==
    /\ Len(f) = Len(parts)
    /\ \A i \in 1 .. Len(parts) : f[i] = ReplaceEvery(parts[i], v, value)

(* Replacing in what was put together is replacing in each part.           *)
LEMMA ReplaceInParts ==
    ASSUME NEW T, NEW parts \in Seq(Seq(T)), NEW v, NEW value \in Seq(T),
           NEW f \in Seq(Seq(T)), Replaced(f, parts, v, value)
    PROVE  ReplaceEvery(FlattenSeq(parts), v, value) = FlattenSeq(f)
<1> DEFINE n == Len(parts)
<1>1. n \in Nat /\ \A i \in 1 .. n : parts[i] \in Seq(T)
  BY LenProperties
<1>2. PICK g \in [0 .. n -> Seq(T)] : Joins(g, parts, n) /\ FlattenSeq(parts) = g[n]
  <2>1. PICK g \in [0 .. Len(parts) -> Seq(T)] : Joins(g, parts, Len(parts))
    BY JoinsExist
  <2>2. FlattenSeq(parts) = g[Len(parts)]
    BY <2>1, FlattenIs
  <2> QED
    BY <2>1, <2>2
<1> DEFINE h == [k \in 0 .. n |-> ReplaceEvery(g[k], v, value)]
<1>a. Len(f) = n /\ \A i \in 1 .. n : f[i] = ReplaceEvery(parts[i], v, value)
  BY DEF Replaced
<1>3. h \in [0 .. n -> Seq(T)]
  <2>1. \A k \in 0 .. n : ReplaceEvery(g[k], v, value) \in Seq(T)
    BY <1>2, ReplaceTyped
  <2> QED
    BY <2>1
<1>4. h[0] = << >>
  <2>1. << >> \in Seq(T) /\ \A i \in DOMAIN << >> : FALSE
    BY EmptySeq
  <2>2. ReplaceEvery(<< >>, v, value) = << >>
    BY <2>1, ReplaceNothing
  <2>3. g[0] = << >> /\ 0 \in 0 .. n
    BY <1>1, <1>2 DEF Joins
  <2> QED
    BY <2>2, <2>3
<1>5. ASSUME NEW k \in 1 .. n
      PROVE  h[k] = h[k - 1] \o f[k]
  <2>1. k \in 0 .. n /\ k - 1 \in 0 .. n
    BY <1>1
  <2>2. g[k] = g[k - 1] \o parts[k] /\ g[k - 1] \in Seq(T) /\ parts[k] \in Seq(T)
    BY <1>1, <1>2, <2>1 DEF Joins
  <2>3. ReplaceEvery(g[k - 1] \o parts[k], v, value)
           = ReplaceEvery(g[k - 1], v, value) \o ReplaceEvery(parts[k], v, value)
    <3> DEFINE s == g[k - 1]
               t == parts[k]
    <3>1. s \in Seq(T) /\ t \in Seq(T)
      BY <2>2
    <3> HIDE DEF s, t, n, h
    <3>2. ReplaceEvery(s \o t, v, value) = ReplaceEvery(s, v, value) \o ReplaceEvery(t, v, value)
      BY <3>1, ReplaceConcat
    <3> QED
      BY <3>2 DEF s, t
  <2>4. h[k] = ReplaceEvery(g[k], v, value) /\ h[k - 1] = ReplaceEvery(g[k - 1], v, value)
    BY <2>1
  <2>5. f[k] = ReplaceEvery(parts[k], v, value)
    BY <1>a
  <2> HIDE DEF h
  <2> QED
    BY <2>2, <2>3, <2>4, <2>5, Zenon
<1>6. h[n] = ReplaceEvery(FlattenSeq(parts), v, value)
  BY <1>1, <1>2
<1> HIDE DEF h
<1>7. Joins(h, f, n)
  BY <1>4, <1>5 DEF Joins
<1>8. FlattenSeq(f) = h[n]
  <2>1. Len(f) = n
    BY <1>a
  <2> HIDE DEF n
  <2> QED
    BY <1>3, <1>7, <2>1, FlattenIs
<1> QED
  BY <1>6, <1>8

(***************************************************************************)
(* Templates                                                               *)
(***************************************************************************)

(* What each token of the content is once the variables in V are replaced. *)
Pieces(content, values, V) ==
    [i \in DOMAIN content |-> IF content[i] \in V THEN values[content[i]] ELSE <<content[i]>>]

LEMMA PiecesTyped ==
    ASSUME NEW T, NEW content \in Seq(T), NEW V, NEW values, \A v \in V : values[v] \in Seq(T)
    PROVE  /\ Pieces(content, values, V) \in Seq(Seq(T))
           /\ Len(Pieces(content, values, V)) = Len(content)
           /\ \A i \in 1 .. Len(content) : Pieces(content, values, V)[i] =
                 IF content[i] \in V THEN values[content[i]] ELSE <<content[i]>>
<1> DEFINE n == Len(content)
           f == Pieces(content, values, V)
<1>1. n \in Nat /\ DOMAIN content = 1 .. n /\ \A i \in 1 .. n : content[i] \in T
  BY LenProperties
<1>2. \A i \in 1 .. n : <<content[i]>> \in Seq(T)
  BY <1>1
<1>3. f = [i \in 1 .. n |-> IF content[i] \in V THEN values[content[i]] ELSE <<content[i]>>]
  BY <1>1 DEF Pieces
<1> HIDE DEF n
<1>4. f \in [1 .. n -> Seq(T)] /\ DOMAIN f = 1 .. n
      /\ \A i \in 1 .. n : f[i] = IF content[i] \in V THEN values[content[i]] ELSE <<content[i]>>
  BY <1>2, <1>3
<1> HIDE DEF f
<1>5. f \in Seq(Seq(T)) /\ Len(f) = n
  <2>1. f \in Seq(Seq(T))
    BY <1>1, <1>4, SeqDef
  <2>2. Len(f) \in Nat /\ DOMAIN f = 1 .. Len(f)
    BY <2>1, LenProperties
  <2> QED
    BY <1>1, <1>4, <2>1, <2>2
<1> QED
  BY <1>4, <1>5 DEF f, n

(* The values of the variables in D, none of which has a placeholder of D. *)
Plain(values, D, T) ==
    /\ \A v \in D : values[v] \in Seq(T)
    /\ \A v \in D : \A i \in DOMAIN values[v] : values[v][i] \notin D

(* One more ReplaceAll: what it finds are the placeholders of content, as  *)
(* no value that was put in has one.                                       *)
LEMMA OneMoreVariable ==
    ASSUME NEW T, NEW content \in Seq(T), NEW values, NEW D,
           Plain(values, D, T),
           NEW V \in SUBSET D, NEW v \in D
    PROVE  ReplaceEvery(FlattenSeq(Pieces(content, values, V)), v, values[v])
              = FlattenSeq(Pieces(content, values, V \cup {v}))
<1> DEFINE W == V \cup {v}
           parts == Pieces(content, values, V)
           f     == Pieces(content, values, W)
           value == values[v]
           n     == Len(content)
<1>a. \A u \in D : values[u] \in Seq(T) /\ \A i \in DOMAIN values[u] : values[u][i] \notin D
  BY DEF Plain
<1>1. value \in Seq(T) /\ n \in Nat /\ \A i \in 1 .. n : content[i] \in T
  BY <1>a, LenProperties
<1>2. /\ parts \in Seq(Seq(T)) /\ Len(parts) = n
      /\ \A i \in 1 .. n : parts[i] = IF content[i] \in V THEN values[content[i]] ELSE <<content[i]>>
  <2>1. \A u \in V : values[u] \in Seq(T)
    BY <1>a
  <2> QED
    BY <2>1, PiecesTyped
<1>3. /\ f \in Seq(Seq(T)) /\ Len(f) = n
      /\ \A i \in 1 .. n : f[i] = IF content[i] \in W THEN values[content[i]] ELSE <<content[i]>>
  <2>1. \A u \in W : values[u] \in Seq(T)
    BY <1>a
  <2> HIDE DEF W
  <2> QED
    BY <2>1, PiecesTyped
<1> HIDE DEF parts, f, value, n
<1>4. ASSUME NEW i \in 1 .. n
      PROVE  f[i] = ReplaceEvery(parts[i], v, value)
  <2>1. CASE content[i] \in V
    <3> DEFINE s == values[content[i]]
    <3>1. s \in Seq(T) /\ \A j \in DOMAIN s : s[j] # v
      BY <1>a, <2>1
    <3>2. parts[i] = s /\ f[i] = s
      BY <1>2, <1>3, <2>1
    <3> HIDE DEF s
    <3>3. ReplaceEvery(s, v, value) = s
      BY <1>1, <3>1, ReplaceNothing
    <3> QED
      BY <3>2, <3>3
  <2>2. CASE content[i] \notin V
    <3> DEFINE x == content[i]
    <3>1. parts[i] = <<x>> /\ x \in T
      BY <1>1, <1>2, <2>2
    <3>2. f[i] = IF x = v THEN value ELSE <<x>>
      BY <1>3, <2>2 DEF value
    <3> HIDE DEF x
    <3>3. ReplaceEvery(<<x>>, v, value) = IF x = v THEN value ELSE <<x>>
      BY <1>1, <3>1, ReplaceToken
    <3> QED
      BY <3>1, <3>2, <3>3
  <2> QED
    BY <2>1, <2>2
<1>5. ReplaceEvery(FlattenSeq(parts), v, value) = FlattenSeq(f)
  <2>1. Replaced(f, parts, v, value)
    BY <1>2, <1>3, <1>4 DEF Replaced
  <2>2. parts \in Seq(Seq(T)) /\ f \in Seq(Seq(T)) /\ value \in Seq(T)
    BY <1>1, <1>2, <1>3
  <2> QED
    BY <2>1, <2>2, ReplaceInParts
<1> QED
  BY <1>5 DEF parts, f, value

LEMMA NothingToReplace ==
    ASSUME NEW T, NEW content \in Seq(T), NEW values
    PROVE  FlattenSeq(Pieces(content, values, {})) = content
<1> DEFINE none == {}
           f == Pieces(content, values, none)
<1>1. \A v \in none : values[v] \in Seq(T)
  OBVIOUS
<1>2. \A i : i \notin none
  OBVIOUS
<1> HIDE DEF none
<1>3. /\ f \in Seq(Seq(T)) /\ Len(f) = Len(content)
      /\ \A i \in 1 .. Len(content) : f[i] = IF content[i] \in none THEN values[content[i]] ELSE <<content[i]>>
  BY <1>1, PiecesTyped
<1> HIDE DEF f
<1>4. \A i \in 1 .. Len(content) : f[i] = <<content[i]>>
  BY <1>2, <1>3
<1>5. FlattenSeq(f) = content
  BY <1>3, <1>4, FlattenTokens
<1> QED
  BY <1>5 DEF f, none

(* The elements of order are D's.                                          *)
Lists(order, D) == Len(order) \in Nat /\ {order[j] : j \in 1 .. Len(order)} = D

LEMMA TemplateIs ==
    ASSUME NEW T, NEW content \in Seq(T), NEW values, NEW D,
           Plain(values, D, T),
           NEW order, Lists(order, D)
    PROVE  ResolveTemplate(content, values, order) = FlattenSeq(Pieces(content, values, D))
<1>a. ASSUME NEW V \in SUBSET D, NEW v \in D
      PROVE  ReplaceEvery(FlattenSeq(Pieces(content, values, V)), v, values[v])
                 = FlattenSeq(Pieces(content, values, V \cup {v}))
  BY OneMoreVariable
<1> DEFINE n == Len(order)
           V(k) == {order[j] : j \in 1 .. k}
           h == [k \in 0 .. n |-> FlattenSeq(Pieces(content, values, V(k)))]
           Solves(f) == f = [k \in 0 .. n |->
                IF k = 0 THEN content ELSE ReplaceEvery(f[k - 1], order[k], values[order[k]])]
           text == CHOOSE f : Solves(f)
<1>b. n \in Nat /\ V(n) = D /\ \A j \in 1 .. n : order[j] \in D
  BY DEF Lists
<1>1. ResolveTemplate(content, values, order) = text[n]
  BY DEF ResolveTemplate
<1>2. h[0] = content
  <2>1. V(0) = {} /\ 0 \in 0 .. n
    BY <1>b
  <2>2. h[0] = FlattenSeq(Pieces(content, values, {}))
    BY <2>1
  <2> HIDE DEF h, V
  <2> QED
    BY <2>2, NothingToReplace
<1>3. ASSUME NEW k \in 1 .. n
      PROVE  h[k] = ReplaceEvery(h[k - 1], order[k], values[order[k]])
  <2>1. k \in 0 .. n /\ k - 1 \in 0 .. n /\ order[k] \in D
    BY <1>b
  <2>2. V(k) = V(k - 1) \cup {order[k]} /\ V(k - 1) \in SUBSET D
    <3>1. 1 .. k = (1 .. k - 1) \cup {k}
      BY <1>b
    <3>2. \A j \in 1 .. k - 1 : order[j] \in D
      BY <1>b
    <3> QED
      BY <3>1, <3>2
  <2>3. h[k] = FlattenSeq(Pieces(content, values, V(k)))
        /\ h[k - 1] = FlattenSeq(Pieces(content, values, V(k - 1)))
    BY <2>1
  <2> DEFINE before == V(k - 1)
             v == order[k]
  <2>4. before \in SUBSET D /\ v \in D
    BY <2>1, <2>2
  <2> HIDE DEF before, v, h
  <2>5. ReplaceEvery(FlattenSeq(Pieces(content, values, before)), v, values[v])
           = FlattenSeq(Pieces(content, values, before \cup {v}))
    BY <1>a, <2>4
  <2> QED
    BY <2>2, <2>3, <2>5, Zenon DEF before, v
<1>4. Solves(h)
  <2>1. h = [k \in 0 .. n |-> h[k]]
    OBVIOUS
  <2>2. \A k \in 0 .. n : k # 0 => k \in 1 .. n
    BY <1>b
  <2>3. \A k \in 0 .. n : h[k] = IF k = 0 THEN content
                                  ELSE ReplaceEvery(h[k - 1], order[k], values[order[k]])
    BY <1>2, <1>3, <2>2, Zenon
  <2> HIDE DEF h
  <2> QED
    BY <2>1, <2>3, Zenon
<1>5. Solves(text)
  <2> HIDE DEF Solves, h
  <2> QED
    BY <1>4
<1>6. \A k \in 0 .. n : text[k] = IF k = 0 THEN content
                                   ELSE ReplaceEvery(text[k - 1], order[k], values[order[k]])
  <2> HIDE DEF text
  <2> QED
    BY <1>5
<1> HIDE DEF text, h, Solves, V
<1> DEFINE P == {k \in 0 .. n : text[k] = h[k]}
<1>7. 0 \in P
  BY <1>2, <1>6
<1>8. ASSUME NEW k \in 1 .. n, k - 1 \in P
      PROVE  k \in P
  <2>1. k \in 0 .. n /\ k # 0 /\ text[k - 1] = h[k - 1]
    BY <1>8
  <2>2. text[k] = h[k]
    BY <1>3, <1>6, <2>1, Zenon
  <2> QED
    BY <2>1, <2>2
<1>9. \A k \in 0 .. n : k \in P
  <2> HIDE DEF P
  <2> QED
    BY <1>7, <1>8, <1>b, Induction
<1>10. n \in 0 .. n
  BY <1>b
<1>11. text[n] = h[n]
  BY <1>9, <1>10
<1> QED
  <2>1. h[n] = FlattenSeq(Pieces(content, values, V(n)))
    BY <1>10 DEF h
  <2> HIDE DEF n
  <2> QED
    BY <1>1, <1>11, <1>b, <2>1, Zenon

(* The map's order: every variable once.                                   *)
LEMMA OrderHas ==
    ASSUME NEW D, IsFiniteSet(D), NEW order \in SetToSeqs(D)
    PROVE  Lists(order, D)
<1> DEFINE n == Cardinality(D)
<1>1. n \in Nat
  BY FS_CardinalityType
<1>2. order \in [1 .. n -> D] /\ \A i, j \in 1 .. n : i # j => order[i] # order[j]
  BY DEF SetToSeqs
<1> HIDE DEF n
<1>3. Len(order) = n
  <2>1. order = [i \in 1 .. n |-> order[i]]
    BY <1>2
  <2> QED
    BY <1>1, <2>1, LengthOfDomain
<1>4. order \in Surjection(1 .. n, D)
  <2>1. IsFiniteSet(1 .. n) /\ Cardinality(1 .. n) = n
    BY <1>1, FS_Interval
  <2>2. order \in Injection(1 .. n, D)
    BY <1>2 DEF Injection, IsInjective
  <2> QED
    BY <2>1, <2>2, FS_Injection DEF n
<1> QED
  BY <1>1, <1>2, <1>3, <1>4 DEF Surjection, Lists

(* What a single request has stored is its template, resolved in some order*)
(* of its variables.                                                       *)
Resolved ==
    Accepted /\ ~post.batch =>
        \E order \in SetToSeqs(DOMAIN post.items[1].vars) :
            stored[1].content = ResolveTemplate(post.items[1].content, post.items[1].vars, order)

LEMMA ResolvedStep ==
    ASSUME Answered, Resolved, [Next]_vars
    PROVE  Resolved'
<1>1. CASE UNCHANGED createVars
  <2>1. post' = post /\ answer' = answer /\ stored' = stored
    BY <1>1 DEF createVars
  <2> QED
    BY <2>1, Zenon DEF Resolved, Accepted
<1>2. CASE Post
  <2>1. answer' = 0
    BY <1>2 DEF Post, Answered
  <2> QED
    BY <2>1 DEF Resolved, Accepted
<1>3. CASE CreateNotification
  <2> SUFFICES ASSUME answer' = 202
               PROVE  \E order \in SetToSeqs(DOMAIN post.items[1].vars) :
                         stored'[1].content
                            = ResolveTemplate(post.items[1].content, post.items[1].vars, order)
    BY <1>3 DEF CreateNotification, Resolved, Accepted
  <2>1. \A error : ErrorStatus(error) # 202
    BY DEF ErrorStatus
  <2>2. PICK order \in SetToSeqs(DOMAIN post.items[1].vars) :
           Insert(<<Row(post.items[1],
                        ResolveTemplate(post.items[1].content, post.items[1].vars, order))>>)
    BY <1>3, <2>1 DEF CreateNotification, Refuse
  <2> DEFINE content == ResolveTemplate(post.items[1].content, post.items[1].vars, order)
             row == Row(post.items[1], content)
  <2>3. stored' = <<row>>
    BY <2>1, <2>2 DEF Insert, Refuse
  <2>4. row.content = content
    BY DEF Row
  <2> HIDE DEF row, content
  <2>5. stored'[1].content = content
    BY <2>3, <2>4
  <2> QED
    BY <2>5 DEF content
<1>4. CASE CreateBatch
  BY <1>4 DEF CreateBatch, Resolved
<1> QED
  BY <1>1, <1>2, <1>3, <1>4 DEF Next, vars, CreateNext

(* Resolved by one replacement after the other, in the map's order, a      *)
(* template is what it means: every placeholder of a variable is its value,*)
(* whenever no value contains a placeholder (service/notification.go,      *)
(* resolveTemplate).                                                       *)
THEOREM TemplatesAreSubstituted == Spec => []TemplateMeaning
<1>1. Answered /\ Resolved => TemplateMeaning
  <2> DEFINE item == post.items[1]
  <2> SUFFICES ASSUME Answered, Resolved, Accepted, ~post.batch, PlainValues(item)
               PROVE  stored[1].content = Substitute(item.content, item.vars)
    BY DEF TemplateMeaning
  <2>1. post \in Posts /\ 1 \in DOMAIN post.items
    <3>1. post \in Posts
      BY DEF Answered, Accepted
    <3>2. IsSequence(post.items) /\ Len(post.items) = 1
      BY <3>1, PostsAssumption
    <3>3. DOMAIN post.items = 1 .. Len(post.items)
      BY <3>2, SequenceHas
    <3> QED
      BY <3>1, <3>2, <3>3
  <2>2. /\ IsSequence(item.content) /\ IsFiniteSet(DOMAIN item.vars)
        /\ DOMAIN item.vars \subseteq Variables
        /\ \A v \in DOMAIN item.vars : IsSequence(item.vars[v])
    BY <2>1, PostsAssumption
  <2>3. PICK order \in SetToSeqs(DOMAIN item.vars) :
           stored[1].content = ResolveTemplate(item.content, item.vars, order)
    BY DEF Resolved
  <2> DEFINE content == item.content
             values  == item.vars
             D       == DOMAIN values
  <2>4. \A v \in D : \A i \in DOMAIN values[v] : values[v][i] \notin D
    BY <2>2 DEF PlainValues
  <2> HIDE DEF item, content, values, D
  <2>5. /\ IsSequence(content) /\ IsFiniteSet(D) /\ D = DOMAIN values
        /\ \A v \in D : IsSequence(values[v])
        /\ order \in SetToSeqs(D)
    BY <2>2, <2>3 DEF content, values, D
  <2> DEFINE T == {content[i] : i \in DOMAIN content}
                     \cup UNION {{values[v][i] : i \in DOMAIN values[v]} : v \in D}
  <2>6. content \in Seq(T) /\ \A v \in D : values[v] \in Seq(T)
    <3>1. ASSUME NEW s, IsSequence(s), \A i \in DOMAIN s : s[i] \in T
          PROVE  s \in Seq(T)
      <4> HIDE DEF T
      <4> QED
        BY <3>1, SequenceIn
    <3>2. \A i \in DOMAIN content : content[i] \in T
      OBVIOUS
    <3>3. \A v \in D : \A i \in DOMAIN values[v] : values[v][i] \in T
      OBVIOUS
    <3> HIDE DEF T
    <3> QED
      BY <2>5, <3>1, <3>2, <3>3
  <2> HIDE DEF T
  <2>7. Lists(order, D)
    BY <2>5, OrderHas
  <2>a. Plain(values, D, T)
    BY <2>4, <2>6 DEF Plain
  <2>8. ResolveTemplate(content, values, order) = FlattenSeq(Pieces(content, values, D))
    BY <2>6, <2>7, <2>a, TemplateIs
  <2>9. Substitute(content, values) = FlattenSeq(Pieces(content, values, D))
    BY <2>5 DEF Substitute, Pieces
  <2>10. stored[1].content = ResolveTemplate(content, values, order)
    BY <2>3 DEF content, values
  <2>11. stored[1].content = Substitute(content, values)
    BY <2>8, <2>9, <2>10, Zenon
  <2> QED
    BY <2>11 DEF content, values
<1>2. Init => Resolved
  BY DEF Init, CreateInit, Resolved, Accepted
<1>3. Answered /\ Resolved /\ [Next]_vars => Resolved'
  BY ResolvedStep
<1> QED
  BY <1>1, <1>2, <1>3, AnsweredHolds, PTL DEF Spec

(***************************************************************************)
(* Offsets                                                                 *)
(***************************************************************************)
LEMMA Remainder ==
    ASSUME NEW n \in Nat, NEW width \in Nat, width > 0
    PROVE  /\ n % width \in Nat /\ n % width <= n
           /\ n < width => n % width = n
OBVIOUS

LEMMA OffsetIs ==
    ASSUME NEW page \in Nat \ {0}, NEW size \in Nat \ {0}
    PROVE  /\ Offset(page, size) \in Int
           /\ Offset(page, size) <= (page - 1) * size
           /\ (page - 1) * size <= MaxInt => Offset(page, size) = (page - 1) * size
<1> DEFINE product == (page - 1) * size
           width   == 2 * (MaxInt + 1)
           n       == product % width
<1>1. product \in Nat
  OBVIOUS
<1>2. MaxInt \in Nat /\ width \in Nat /\ width > MaxInt
  BY IntAssumption
<1>3. Offset(page, size) = IF n > MaxInt THEN n - width ELSE n
  BY DEF Offset
<1> HIDE DEF product
<1>4. n \in Nat /\ n <= product /\ (product < width => n = product)
  <2> HIDE DEF width
  <2> QED
    BY <1>1, <1>2, Remainder
<1> HIDE DEF n
<1> QED
  BY <1>1, <1>2, <1>3, <1>4 DEF product

(***************************************************************************)
(* Rows and types                                                          *)
(***************************************************************************)
Made == [createdAt : Nat, channel : {"none", "sms", "email"},
         status : {"none", "pending", "queued"}]

RowsOK ==
    /\ clock \in Nat \ {0}
    /\ made \in [Ids -> Made]
    /\ \A id \in Ids : made[id] # NotMade => made[id].status # "none" /\ made[id].createdAt # 0
    /\ committed \subseteq Ids
    /\ \A id \in committed : made[id] # NotMade

Walk == [at : {"idle", "walking", "done"}, filter : {"all", "channel", "status"},
         stop : {"total", "short"}, page : Nat \ {0}, size : Nat \ {0},
         first : Nat \ {0}, expected : SUBSET Ids, seen : SUBSET Ids, left : BOOLEAN]

WalkTypeOK ==
    /\ request \in [at : {"idle", "count", "select"}, total : Nat]
    /\ listed \in [code : {0, 200, 500}, total : Nat, items : Seq(Ids), matching : Nat]
    /\ walk \in Walk

(* There is a request only while the client walks, and what it was told    *)
(* concerns the page it asked for.                                         *)
WalkOK ==
    /\ walk.at = "idle" => request.at = "idle" /\ listed = NoAnswer
    /\ walk.at = "done" => request.at = "idle"
    /\ WrongOnlyFarAway

ListInv == RowsOK /\ WalkTypeOK /\ WalkOK

LEMMA FiniteMatching ==
    ASSUME RowsOK, NEW f
    PROVE  /\ IsFiniteSet(Matching(f)) /\ Cardinality(Matching(f)) \in Nat
           /\ Matching(f) \subseteq Ids
<1>1. Matching(f) \in SUBSET Ids
  BY DEF Matching, RowsOK
<1> QED
  BY <1>1, TableAssumption, FS_Subset, FS_CardinalityType

LEMMA OrderedIs ==
    ASSUME RowsOK, NEW f, NEW s \in Ordered(Matching(f))
    PROVE  /\ s \in [1 .. Cardinality(Matching(f)) -> Matching(f)]
           /\ Len(s) = Cardinality(Matching(f))
           /\ \A id \in Matching(f) : \E p \in 1 .. Len(s) : s[p] = id
           /\ \A i, j \in 1 .. Len(s) : s[i] = s[j] => i = j
           /\ \A i, j \in 1 .. Len(s) : i < j => made[s[i]].createdAt >= made[s[j]].createdAt
<1> DEFINE M == Matching(f)
           n == Cardinality(M)
<1>1. IsFiniteSet(M) /\ n \in Nat
  BY FiniteMatching
<1>2. /\ s \in [1 .. n -> M] /\ IsInjective(s)
      /\ \A i, j \in DOMAIN s : i < j => made[s[i]].createdAt >= made[s[j]].createdAt
  BY DEF Ordered
<1>3. Len(s) = n
  <2> HIDE DEF n, M
  <2>1. s = [i \in 1 .. n |-> s[i]]
    BY <1>2
  <2> QED
    BY <1>1, <2>1, LengthOfDomain
<1>4. s \in Surjection(1 .. n, M)
  <2>1. Cardinality(1 .. n) = n
    <3> HIDE DEF n
    <3> QED
      BY <1>1, FS_Interval
  <2>2. s \in Injection(1 .. n, M)
    BY <1>2 DEF Injection
  <2> HIDE DEF M
  <2> QED
    BY <1>1, <2>1, <2>2, FS_Injection
<1> QED
  BY <1>2, <1>3, <1>4 DEF Surjection, IsInjective

(***************************************************************************)
(* A page is what the SELECT's order has between two places.               *)
(***************************************************************************)
LEMMA PageIs ==
    ASSUME NEW S, NEW n \in Nat, NEW s \in [1 .. n -> S], Len(s) = n,
           NEW offset \in Nat, NEW size \in Nat \ {0}
    PROVE  /\ Page(s, offset, size) \in Seq(S)
           /\ Len(Page(s, offset, size)) < size => n < offset + size
           /\ Len(Page(s, offset, size)) <= size
           /\ Page(s, offset, size) # << >> => offset + Len(Page(s, offset, size)) <= n
           /\ Len(Page(s, offset, size)) = size \/ offset + Len(Page(s, offset, size)) >= n
           /\ \A p \in 1 .. n : offset < p /\ p <= offset + size =>
                 s[p] \in Range(Page(s, offset, size))
<1> DEFINE last == IF offset + size < n THEN offset + size ELSE n
           next == offset + 1
           page == SubSeq(s, next, last)
<1>1. last \in Nat /\ last <= n /\ last <= offset + size
      /\ (last < offset + size => last = n)
  OBVIOUS
<1>2. Page(s, offset, size) = page
  BY DEF Page
<1>3. next \in Int /\ next = offset + 1
  OBVIOUS
<1> HIDE DEF last, next
<1>4. /\ page \in Seq(S)
      /\ Len(page) = IF next <= last THEN last - next + 1 ELSE 0
      /\ \A i \in 1 .. last - next + 1 : page[i] = s[next + i - 1]
  <2>1. \A i \in next .. last : s[i] \in S
    BY <1>1, <1>3
  <2> QED
    BY <1>1, <1>3, <2>1, SubSeqProperties
<1> HIDE DEF page
<1>5. /\ Len(page) <= size /\ (Len(page) < size => n < offset + size)
      /\ Len(page) # 0 => offset + Len(page) <= n
      /\ Len(page) = size \/ offset + Len(page) >= n
  BY <1>1, <1>3, <1>4
<1>7. page # << >> => Len(page) # 0
  BY <1>4, EmptySeq
<1>6. ASSUME NEW p \in 1 .. n, offset < p, p <= offset + size
      PROVE  s[p] \in Range(page)
  <2>1. p <= last
    BY <1>1, <1>6 DEF last
  <2>2. p - offset \in 1 .. Len(page) /\ page[p - offset] = s[p]
    BY <1>1, <1>3, <1>4, <1>6, <2>1
  <2>3. DOMAIN page = 1 .. Len(page)
    BY <1>4, LenProperties
  <2> QED
    BY <2>2, <2>3 DEF Range
<1> QED
  BY <1>2, <1>4, <1>5, <1>6, <1>7

(***************************************************************************)
(* Requests and workers change rows, the client's walk does not.           *)
(***************************************************************************)
RowStep ==
    \/ \E id \in Ids : NewNotification(id) \/ UpdateStatus(id)
    \/ \E S \in SUBSET Ids : InsertRows(S)

WalkStep == Start \/ Count \/ Select \/ Receive

LEMMA RowStepRows ==
    ASSUME ListInv, RowStep
    PROVE  /\ RowsOK'
           /\ committed \subseteq committed'
           /\ \A id \in committed : /\ made'[id].createdAt = made[id].createdAt
                                    /\ made'[id].channel = made[id].channel
                                    /\ Alone(id)' => Alone(id)
<1> USE DEF ListInv
<1>1. CASE \E S \in SUBSET Ids : InsertRows(S)
  BY <1>1 DEF InsertRows, RowsOK, Alone
<1>2. ASSUME NEW id \in Ids, NewNotification(id)
      PROVE  /\ RowsOK' /\ committed' = committed
             /\ \A o \in committed : made'[o] = made[o] /\ (Alone(o)' => Alone(o))
  <2>1. PICK ch \in {"sms", "email"} :
           made' = [made EXCEPT ![id] = [createdAt |-> clock, channel |-> ch, status |-> "pending"]]
    BY <1>2 DEF NewNotification
  <2>2. made[id] = NotMade /\ committed' = committed /\ id \notin committed
    BY <1>2 DEF NewNotification, RowsOK
  <2>3. clock \in Nat \ {0} /\ clock' \in Nat \ {0}
    BY <1>2 DEF NewNotification, RowsOK
  <2>4. \A o \in Ids : made'[o] = IF o = id THEN [createdAt |-> clock, channel |-> ch,
                                                 status |-> "pending"] ELSE made[o]
    BY <2>1 DEF RowsOK
  <2>5. made' \in [Ids -> Made]
    BY <2>1, <2>3 DEF RowsOK, Made
  <2>6. ASSUME NEW o \in committed, Alone(o)'
        PROVE  Alone(o)
    <3>1. o \in Ids /\ o # id /\ made[o].createdAt # 0 /\ made[id].createdAt = 0
      BY <2>2 DEF RowsOK, NotMade
    <3>2. \A q \in Ids \ {id} : made'[q].createdAt = made[q].createdAt
      BY <2>4
    <3> QED
      BY <2>6, <3>1, <3>2 DEF Alone
  <2>7. \A o \in Ids : made'[o] # NotMade =>
           made'[o].status # "none" /\ made'[o].createdAt # 0
    BY <2>3, <2>4 DEF RowsOK
  <2> QED
    BY <2>2, <2>3, <2>4, <2>5, <2>6, <2>7 DEF RowsOK
<1>3. ASSUME NEW id \in Ids, UpdateStatus(id)
      PROVE  /\ RowsOK' /\ committed' = committed
             /\ \A o \in Ids : /\ made'[o].createdAt = made[o].createdAt
                               /\ made'[o].channel = made[o].channel
                               /\ Alone(o)' => Alone(o)
  <2>1. PICK s \in {"pending", "queued"} : made' = [made EXCEPT ![id].status = s]
    BY <1>3 DEF UpdateStatus
  <2>2. id \in committed /\ committed' = committed /\ clock' = clock
    BY <1>3 DEF UpdateStatus
  <2>3. \A o \in Ids : /\ made'[o].createdAt = made[o].createdAt
                       /\ made'[o].channel = made[o].channel
                       /\ o # id => made'[o] = made[o]
                       /\ o = id => made'[o].status = s
    BY <2>1 DEF RowsOK, Made
  <2>4. made' \in [Ids -> Made]
    BY <2>1 DEF RowsOK, Made
  <2>5. made[id] # NotMade /\ made'[id] # NotMade
    BY <2>2, <2>3 DEF RowsOK, NotMade
  <2>6. \A o \in Ids : Alone(o)' => Alone(o)
    BY <2>3 DEF Alone
  <2> QED
    BY <2>2, <2>3, <2>4, <2>5, <2>6 DEF RowsOK
<1> QED
  BY <1>1, <1>2, <1>3 DEF RowStep, RowsOK

(* What becomes of a walk when one of its fields changes.                  *)
LEMMA WalkLeft ==
    ASSUME NEW w \in Walk, NEW left \in BOOLEAN
    PROVE  /\ [w EXCEPT !.left = left] \in Walk
           /\ [w EXCEPT !.left = left].left = left
           /\ \A f \in DOMAIN w : f # "left" => [w EXCEPT !.left = left][f] = w[f]
BY DEF Walk

LEMMA WalkSeen ==
    ASSUME NEW w \in Walk, NEW seen \in SUBSET Ids
    PROVE  [w EXCEPT !.seen = seen] \in Walk
BY DEF Walk

LEMMA WalkAt ==
    ASSUME NEW w \in Walk, NEW at \in {"walking", "done"}
    PROVE  [w EXCEPT !.at = at] \in Walk
BY DEF Walk

LEMMA WalkPage ==
    ASSUME NEW w \in Walk, NEW page \in Nat \ {0}
    PROVE  [w EXCEPT !.page = page] \in Walk
BY DEF Walk

LEMMA WalkEnds ==
    ASSUME walk \in Walk, NEW seen \in SUBSET Ids,
           walk' = [walk EXCEPT !.at = "done", !.seen = seen]
    PROVE  /\ walk' \in Walk /\ walk'.at = "done" /\ walk'.page = walk.page /\ walk'.seen = seen
           /\ walk'.filter = walk.filter /\ walk'.stop = walk.stop /\ walk'.size = walk.size
           /\ walk'.first = walk.first /\ walk'.expected = walk.expected /\ walk'.left = walk.left
<1>1. walk' = [[walk EXCEPT !.at = "done"] EXCEPT !.seen = seen]
  OBVIOUS
<1>2. walk' \in Walk
  <2> DEFINE u == [walk EXCEPT !.at = "done"]
  <2>1. u \in Walk
    BY WalkAt
  <2>2. walk' = [u EXCEPT !.seen = seen]
    BY <1>1
  <2> HIDE DEF u
  <2> QED
    BY <2>1, <2>2, WalkSeen
<1>3. \A f \in DOMAIN walk : f # "at" /\ f # "seen" => walk'[f] = walk[f]
  OBVIOUS
<1> QED
  BY <1>2, <1>3 DEF Walk

LEMMA WalkTurns ==
    ASSUME walk \in Walk, NEW seen \in SUBSET Ids,
           walk' = [walk EXCEPT !.page = @ + 1, !.seen = seen]
    PROVE  /\ walk' \in Walk /\ walk'.page = walk.page + 1 /\ walk'.seen = seen
           /\ walk'.at = walk.at /\ walk'.filter = walk.filter /\ walk'.stop = walk.stop /\ walk'.size = walk.size
           /\ walk'.first = walk.first /\ walk'.expected = walk.expected /\ walk'.left = walk.left
<1>1. walk' = [[walk EXCEPT !.page = walk.page + 1] EXCEPT !.seen = seen]
  OBVIOUS
<1>2. walk' \in Walk
  <2>1. walk.page + 1 \in Nat \ {0}
    BY DEF Walk
  <2> QED
    <3> DEFINE u == [walk EXCEPT !.page = walk.page + 1]
    <3>1. u \in Walk
      BY <2>1, WalkPage
    <3>2. walk' = [u EXCEPT !.seen = seen]
      BY <1>1
    <3> HIDE DEF u
    <3> QED
      BY <3>1, <3>2, WalkSeen
<1>3. \A f \in DOMAIN walk : f # "page" /\ f # "seen" => walk'[f] = walk[f]
  OBVIOUS
<1> QED
  BY <1>2, <1>3 DEF Walk

LEMMA RowStepWalk ==
    ASSUME ListInv, RowStep
    PROVE  /\ request' = request /\ listed' = listed
           /\ walk' \in Walk
           /\ walk'.at = walk.at /\ walk'.filter = walk.filter /\ walk'.stop = walk.stop
           /\ walk'.page = walk.page /\ walk'.size = walk.size /\ walk'.first = walk.first
           /\ walk'.expected = walk.expected /\ walk'.seen = walk.seen
           /\ ~walk'.left => /\ ~walk.left
                             /\ Matching(walk.filter) \subseteq {id \in committed' :
                                    CASE walk.filter = "all"     -> TRUE
                                      [] walk.filter = "channel" -> made'[id].channel = "sms"
                                      [] walk.filter = "status"  -> made'[id].status = "pending"}
<1> USE DEF ListInv, WalkTypeOK
<1> DEFINE Found(rows, all) == {id \in all : CASE walk.filter = "all"     -> TRUE
                                               [] walk.filter = "channel" -> rows[id].channel = "sms"
                                               [] walk.filter = "status"  -> rows[id].status = "pending"}
<1>1. Matching(walk.filter) = Found(made, committed)
  BY DEF Matching, Matches
<1>2. walk.filter \in {"all", "channel", "status"} /\ committed \subseteq Ids
  BY DEF Walk, RowsOK
<1>3. ASSUME NEW id \in Ids, UpdateStatus(id)
      PROVE  /\ request' = request /\ listed' = listed
             /\ walk' = [walk EXCEPT !.left = @ \/ (walk.filter = "status" /\ made[id].status = "pending")]
             /\ committed' = committed
             /\ \A o \in Ids : /\ made'[o].channel = made[o].channel
                               /\ o # id => made'[o].status = made[o].status
  BY <1>3 DEF UpdateStatus, RowsOK, Made
<1>4. ASSUME NEW id \in Ids, UpdateStatus(id)
      PROVE  /\ walk' \in Walk
             /\ walk'.left = (walk.left \/ (walk.filter = "status" /\ made[id].status = "pending"))
             /\ walk'.at = walk.at /\ walk'.filter = walk.filter /\ walk'.stop = walk.stop
             /\ walk'.page = walk.page /\ walk'.size = walk.size /\ walk'.first = walk.first
             /\ walk'.expected = walk.expected /\ walk'.seen = walk.seen
  <2> DEFINE left == walk.left \/ (walk.filter = "status" /\ made[id].status = "pending")
  <2>1. left \in BOOLEAN /\ walk' = [walk EXCEPT !.left = left]
    BY <1>3, <1>4 DEF Walk
  <2> HIDE DEF left
  <2>2. /\ walk' \in Walk /\ walk'.left = left
        /\ \A f \in DOMAIN walk : f # "left" => walk'[f] = walk[f]
    BY <2>1, WalkLeft
  <2> QED
    BY <2>2 DEF Walk, left
<1>5. ASSUME NEW id \in Ids, UpdateStatus(id), ~walk'.left
      PROVE  ~walk.left /\ Found(made, committed) \subseteq Found(made', committed')
  <2>1. ~walk.left /\ ~(walk.filter = "status" /\ made[id].status = "pending")
    BY <1>4, <1>5
  <2>2. /\ committed' = committed
        /\ \A o \in Ids : /\ made'[o].channel = made[o].channel
                          /\ o # id => made'[o].status = made[o].status
    BY <1>3, <1>5
  <2> HIDE DEF ListInv, WalkTypeOK
  <2>3. ASSUME NEW o \in Found(made, committed)
        PROVE  o \in Found(made', committed')
    <3>1. o \in Ids /\ o \in committed'
      BY <1>2, <2>2
    <3>2. CASE walk.filter = "all"
      BY <3>1, <3>2
    <3>3. CASE walk.filter = "channel"
      BY <2>2, <2>3, <3>1, <3>3
    <3>4. CASE walk.filter = "status"
      <4>1. made[o].status = "pending"
        BY <2>3, <3>4
      <4>2. made'[o].status = "pending"
        BY <2>1, <2>2, <3>1, <3>4, <4>1
      <4> QED
        BY <3>1, <3>4, <4>2
    <3> QED
      BY <1>2, <3>2, <3>3, <3>4
  <2> QED
    BY <2>1, <2>3, Zenon
<1>6. ASSUME NEW id \in Ids, NewNotification(id)
      PROVE  /\ request' = request /\ listed' = listed /\ walk' = walk
             /\ Found(made, committed) \subseteq Found(made', committed')
  <2>1. \A o \in committed : made'[o] = made[o]
    BY <1>6 DEF NewNotification, RowsOK
  <2> QED
    BY <1>6, <2>1 DEF NewNotification
<1>7. ASSUME NEW S \in SUBSET Ids, InsertRows(S)
      PROVE  /\ request' = request /\ listed' = listed /\ walk' = walk
             /\ Found(made, committed) \subseteq Found(made', committed')
  BY <1>7 DEF InsertRows
<1> HIDE DEF Found
<1>8. ~walk'.left => ~walk.left /\ Found(made, committed) \subseteq Found(made', committed')
  BY <1>5, <1>6, <1>7 DEF RowStep
<1>9. /\ request' = request /\ listed' = listed
      /\ walk' \in Walk
      /\ walk'.at = walk.at /\ walk'.filter = walk.filter /\ walk'.stop = walk.stop
      /\ walk'.page = walk.page /\ walk'.size = walk.size /\ walk'.first = walk.first
      /\ walk'.expected = walk.expected /\ walk'.seen = walk.seen
  BY <1>3, <1>4, <1>6, <1>7 DEF RowStep
<1> QED
  BY <1>1, <1>8, <1>9 DEF Found

LEMMA RowStepInv ==
    ASSUME ListInv, RowStep
    PROVE  ListInv'
<1>1. RowsOK'
  BY RowStepRows
<1>2. WalkTypeOK' /\ WalkOK'
  <2>1. /\ request' = request /\ listed' = listed /\ walk' \in Walk
        /\ walk'.at = walk.at /\ walk'.page = walk.page /\ walk'.size = walk.size
    BY RowStepWalk
  <2>2. WalkTypeOK /\ WalkOK
    BY DEF ListInv
  <2>3. WalkTypeOK'
    BY <2>1, <2>2 DEF WalkTypeOK
  <2>4. WrongOnlyFarAway'
    <3>1. WrongOnlyFarAway
      BY <2>2 DEF WalkOK
    <3> QED
      BY <2>1, <3>1, Zenon DEF WrongOnlyFarAway
  <2> QED
    BY <2>1, <2>2, <2>3, <2>4 DEF WalkOK
<1> QED
  BY <1>1, <1>2 DEF ListInv

LEMMA SameRows ==
    ASSUME UNCHANGED rowVars
    PROVE  /\ RowsOK' <=> RowsOK
           /\ \A id : Alone(id)' <=> Alone(id)
           /\ \A f : Matching(f)' = Matching(f)
BY DEF rowVars, RowsOK, Alone, Matching, Matches

LEMMA StartInv ==
    ASSUME ListInv, Start
    PROVE  ListInv'
<1>1. PICK filter \in Filters, stop \in Stops, p \in Pages, size \in Sizes :
         walk' = [at |-> "walking", filter |-> filter, stop |-> stop,
                  page |-> QueryInt(p, 1), size |-> QueryInt(size, 20),
                  first |-> QueryInt(p, 1),
                  expected |-> Matching(filter), seen |-> {}, left |-> FALSE]
  BY DEF Start
<1>2. QueryInt(p, 1) \in Nat \ {0} /\ QueryInt(size, 20) \in Nat \ {0}
  BY DEF QueryInt
<1>3. Matching(filter) \in SUBSET Ids
  BY DEF ListInv, RowsOK, Matching
<1>4. filter \in {"all", "channel", "status"} /\ stop \in {"total", "short"}
  BY FiltersAssumption, StopsAssumption
<1>5. request' = [at |-> "count", total |-> 0] /\ listed' = NoAnswer
  BY DEF Start, ListInv, WalkOK
<1>6. WalkTypeOK'
  BY <1>1, <1>2, <1>3, <1>4, <1>5, EmptySeq DEF Walk, WalkTypeOK, NoAnswer
<1>7. WalkOK'
  BY <1>1, <1>5 DEF WalkOK, NoAnswer, WrongOnlyFarAway
<1> QED
  BY <1>6, <1>7, SameRows DEF ListInv, Start

LEMMA CountInv ==
    ASSUME ListInv, Count
    PROVE  ListInv'
<1>1. request' = [at |-> "select", total |-> Cardinality(Matching(walk.filter))]
      /\ UNCHANGED <<rowVars, listed, walk>> /\ request.at = "count"
  BY DEF Count
<1>2. Cardinality(Matching(walk.filter)) \in Nat
  BY FiniteMatching DEF ListInv
<1>3. WalkTypeOK'
  BY <1>1, <1>2 DEF ListInv, WalkTypeOK
<1>4. WalkOK'
  BY <1>1 DEF ListInv, WalkOK, WrongOnlyFarAway
<1> QED
  BY <1>1, <1>3, <1>4, SameRows DEF ListInv

LEMMA Selected ==
    ASSUME ListInv, Select
    PROVE  /\ request.at = "select" /\ walk.at = "walking"
           /\ request' = NoRequest /\ UNCHANGED <<rowVars, walk>>
           /\ \/ /\ Offset(walk.page, walk.size) \in Nat
                 /\ \E s \in Ordered(Matching(walk.filter)) :
                       listed' = [code |-> 200, total |-> request.total,
                                  items |-> Page(s, Offset(walk.page, walk.size), walk.size),
                                  matching |-> Len(s)]
              \/ /\ (walk.page - 1) * walk.size > MaxInt
                 /\ listed' = [code |-> 500, total |-> 0, items |-> << >>, matching |-> 0]
<1>1. walk.page \in Nat \ {0} /\ walk.size \in Nat \ {0} /\ MaxInt \in Nat
  BY IntAssumption DEF ListInv, WalkTypeOK, Walk
<1> DEFINE offset  == Offset(walk.page, walk.size)
           product == (walk.page - 1) * walk.size
<1>2. offset \in Int /\ product \in Nat /\ (product <= MaxInt => offset = product)
  <2>1. \A page, size \in Nat \ {0} : (page - 1) * size \in Nat
    OBVIOUS
  <2>2. \A page, size \in Nat \ {0} :
           /\ Offset(page, size) \in Int
           /\ (page - 1) * size <= MaxInt => Offset(page, size) = (page - 1) * size
    BY OffsetIs
  <2> QED
    BY <1>1, <2>1, <2>2
<1>3. request.at = "select" /\ walk.at = "walking"
  BY DEF Select, ListInv, WalkOK, WalkTypeOK, Walk
<1>4. \/ /\ offset >= 0
         /\ \E s \in Ordered(Matching(walk.filter)) :
               listed' = [code |-> 200, total |-> request.total,
                          items |-> Page(s, offset, walk.size),
                          matching |-> Len(s)]
      \/ offset < 0 /\ listed' = [code |-> 500, total |-> 0, items |-> << >>, matching |-> 0]
  BY DEF Select
<1>5. request' = NoRequest /\ UNCHANGED <<rowVars, walk>>
  BY DEF Select
<1> HIDE DEF offset, product
<1>6. (offset >= 0 => offset \in Nat) /\ (offset < 0 => product > MaxInt)
  BY <1>1, <1>2
<1> QED
  BY <1>3, <1>4, <1>5, <1>6 DEF offset, product

LEMMA PageOf ==
    ASSUME RowsOK, NEW f, NEW s \in Ordered(Matching(f)), NEW offset \in Nat, NEW size \in Nat \ {0}
    PROVE  /\ Page(s, offset, size) \in Seq(Ids)
           /\ Len(Page(s, offset, size)) < size => Cardinality(Matching(f)) < offset + size
           /\ Len(Page(s, offset, size)) <= size
           /\ Page(s, offset, size) # << >> => offset + Len(Page(s, offset, size)) <= Len(s)
           /\ Len(Page(s, offset, size)) = size \/ offset + Len(Page(s, offset, size)) >= Len(s)
           /\ Len(s) \in Nat
           /\ \A p \in 1 .. Len(s) : offset < p /\ p <= offset + size =>
                 s[p] \in Range(Page(s, offset, size))
<1> DEFINE M == Matching(f)
           n == Cardinality(M)
<1>1. s \in [1 .. n -> M] /\ Len(s) = n /\ n \in Nat /\ M \subseteq Ids
  BY OrderedIs, FiniteMatching
<1> HIDE DEF n, M
<1>2. /\ Page(s, offset, size) \in Seq(M)
      /\ Len(Page(s, offset, size)) < size => n < offset + size
      /\ Len(Page(s, offset, size)) <= size
      /\ Page(s, offset, size) # << >> => offset + Len(Page(s, offset, size)) <= n
      /\ Len(Page(s, offset, size)) = size \/ offset + Len(Page(s, offset, size)) >= n
      /\ \A p \in 1 .. n : offset < p /\ p <= offset + size =>
            s[p] \in Range(Page(s, offset, size))
  BY <1>1, PageIs
<1>3. Page(s, offset, size) \in Seq(Ids)
  BY <1>1, <1>2, SeqMonotonic
<1> QED
  BY <1>1, <1>2, <1>3 DEF n, M

LEMMA SelectInv ==
    ASSUME ListInv, Select
    PROVE  ListInv'
<1>1. walk.page \in Nat \ {0} /\ walk.size \in Nat \ {0} /\ request.total \in Nat /\ RowsOK
  BY DEF ListInv, WalkTypeOK, Walk
<1>2. UNCHANGED <<rowVars, walk>> /\ request' = NoRequest /\ walk.at = "walking"
  BY Selected
<1>3. listed' \in [code : {0, 200, 500}, total : Nat, items : Seq(Ids), matching : Nat]
      /\ WrongOnlyFarAway'
  <2> DEFINE before == (walk.page - 1) * walk.size
             offset == Offset(walk.page, walk.size)
  <2>1. before <= MaxInt => offset = before
    BY <1>1, OffsetIs
  <2>2. ASSUME offset \in Nat, NEW s \in Ordered(Matching(walk.filter)),
               listed' = [code |-> 200, total |-> request.total,
                          items |-> Page(s, offset, walk.size), matching |-> Len(s)]
        PROVE  listed' \in [code : {0, 200, 500}, total : Nat, items : Seq(Ids), matching : Nat]
               /\ WrongOnlyFarAway'
    <3> DEFINE items == Page(s, offset, walk.size)
    <3>1. /\ items \in Seq(Ids) /\ Len(s) \in Nat
          /\ Len(items) <= walk.size
          /\ items # << >> => offset + Len(items) <= Len(s)
          /\ Len(items) = walk.size \/ offset + Len(items) >= Len(s)
      BY <1>1, <2>2, PageOf
    <3>2. /\ listed'.code = 200 /\ listed'.items = items /\ listed'.matching = Len(s)
          /\ listed' \in [code : {0, 200, 500}, total : Nat, items : Seq(Ids), matching : Nat]
      BY <1>1, <2>2, <3>1
    <3> HIDE DEF items, offset
    <3> QED
      BY <1>2, <2>1, <3>1, <3>2 DEF WrongOnlyFarAway
  <2>3. CASE /\ before > MaxInt
             /\ listed' = [code |-> 500, total |-> 0, items |-> << >>, matching |-> 0]
    <3>1. listed' \in [code : {0, 200, 500}, total : Nat, items : Seq(Ids), matching : Nat]
      BY <2>3, EmptySeq
    <3>2. ~(before <= MaxInt)
      <4>1. \A page, size \in Nat \ {0} : (page - 1) * size \in Nat
        OBVIOUS
      <4>2. before \in Nat /\ MaxInt \in Nat
        BY <1>1, <4>1, IntAssumption
      <4> HIDE DEF before
      <4> QED
        BY <2>3, <4>2
    <3> QED
      BY <1>2, <3>1, <3>2 DEF WrongOnlyFarAway
  <2> HIDE DEF before, offset
  <2> QED
    BY <2>2, <2>3, Selected DEF before, offset
<1>4. WalkTypeOK'
  BY <1>2, <1>3 DEF ListInv, WalkTypeOK, NoRequest
<1>5. WalkOK'
  BY <1>2, <1>3 DEF ListInv, WalkOK, NoRequest
<1> QED
  BY <1>2, <1>4, <1>5, SameRows DEF ListInv

LEMMA ReceiveInv ==
    ASSUME ListInv, Receive
    PROVE  ListInv'
<1> DEFINE seen == walk.seen \cup Range(listed.items)
<1>1. seen \in SUBSET Ids
  <2>1. listed.items \in Seq(Ids) /\ walk.seen \in SUBSET Ids
    BY DEF ListInv, WalkTypeOK, Walk
  <2> QED
    BY <2>1, LenProperties DEF Range
<1> HIDE DEF seen
<1>2. \/ walk' = [walk EXCEPT !.at = "done", !.seen = seen] /\ request' = request
      \/ /\ listed.code = 200
         /\ walk' = [walk EXCEPT !.page = @ + 1, !.seen = seen]
         /\ request' = [at |-> "count", total |-> 0]
  BY DEF Receive, seen
<1>3. UNCHANGED <<rowVars, listed>> /\ walk.at = "walking" /\ request.at = "idle"
  BY DEF Receive
<1>4. /\ walk' \in Walk
      /\ walk'.filter = walk.filter /\ walk'.stop = walk.stop /\ walk'.size = walk.size
      /\ \/ walk'.at = "done" /\ walk'.page = walk.page /\ request' = request
         \/ /\ walk'.at = "walking" /\ listed.code = 200
            /\ request' = [at |-> "count", total |-> 0]
  <2>1. walk \in Walk
    BY DEF ListInv, WalkTypeOK
  <2>2. CASE walk' = [walk EXCEPT !.at = "done", !.seen = seen] /\ request' = request
    BY <1>1, <2>1, <2>2, WalkEnds
  <2>3. CASE /\ listed.code = 200
             /\ walk' = [walk EXCEPT !.page = @ + 1, !.seen = seen]
             /\ request' = [at |-> "count", total |-> 0]
    BY <1>1, <1>3, <2>1, <2>3, WalkTurns
  <2> QED
    BY <1>2, <2>2, <2>3
<1>5. WalkTypeOK'
  BY <1>3, <1>4 DEF ListInv, WalkTypeOK
<1>6. WalkOK'
  BY <1>3, <1>4 DEF ListInv, WalkOK, WrongOnlyFarAway
<1> QED
  BY <1>3, <1>5, <1>6, SameRows DEF ListInv

LEMMA ListStep ==
    ASSUME [Next]_vars
    PROVE  RowStep \/ WalkStep \/ UNCHANGED listVars
BY DEF Next, vars, ListNext, RowStep, WalkStep

LEMMA ListInvStep ==
    ASSUME ListInv, [Next]_vars
    PROVE  ListInv'
<1>1. CASE UNCHANGED listVars
  BY <1>1, SameRows DEF listVars, ListInv, WalkTypeOK, WalkOK, WrongOnlyFarAway
<1> QED
  BY <1>1, ListStep, RowStepInv, StartInv, CountInv, SelectInv, ReceiveInv DEF WalkStep

LEMMA ListInvInit == Init => ListInv
<1> SUFFICES ASSUME Init
             PROVE  ListInv
  OBVIOUS
<1>1. /\ clock = 1 /\ made = [id \in Ids |-> NotMade] /\ committed = {}
      /\ request = NoRequest /\ listed = NoAnswer
      /\ walk = [at |-> "idle", filter |-> "all", stop |-> "short", page |-> 1, size |-> 1,
                 first |-> 1, expected |-> {}, seen |-> {}, left |-> FALSE]
  BY DEF Init, ListInit
<1>2. RowsOK
  BY <1>1 DEF RowsOK, Made, NotMade
<1>3. WalkTypeOK
  BY <1>1, EmptySeq DEF WalkTypeOK, Walk, NoRequest, NoAnswer
<1>4. WalkOK
  BY <1>1 DEF WalkOK, WrongOnlyFarAway, NoRequest, NoAnswer
<1> QED
  BY <1>2, <1>3, <1>4 DEF ListInv

LEMMA ListInvHolds == Spec => []ListInv
BY ListInvInit, ListInvStep, PTL DEF Spec

(* Whatever page numbers and sizes a client sends, it is given the rows    *)
(* from the page's first to its last, or to the last of all, unless the    *)
(* offset does not fit into an int (repository.go, List; handler.go,       *)
(* queryInt).                                                              *)
THEOREM ListingWrongFarAway == Spec => []WrongOnlyFarAway
<1>1. ListInv => WrongOnlyFarAway
  BY DEF ListInv, WalkOK
<1> QED
  BY <1>1, ListInvHolds, PTL

(***************************************************************************)
(* Pages that are not full                                                 *)
(***************************************************************************)
FullInv ==
    /\ request.at = "select" /\ ~walk.left =>
          request.total <= Cardinality(Matching(walk.filter))
    /\ FullPages

(* Newer rows of the listing stand before a row.                           *)
Newer(f, id) == {m \in Matching(f) : made[m].createdAt > made[id].createdAt}

(* Unless a row leaves the status that the client filters by.              *)
LEMMA MatchingGrows ==
    ASSUME ListInv, RowStep, ~walk'.left, NEW f, f = walk.filter
    PROVE  /\ Matching(f) \subseteq Matching(f)'
           /\ Cardinality(Matching(f)) \in Nat /\ Cardinality(Matching(f)') \in Nat
           /\ Cardinality(Matching(f)) <= Cardinality(Matching(f)')
           /\ \A id \in committed : /\ Newer(f, id) \subseteq Newer(f, id)'
                                    /\ Cardinality(Newer(f, id)) <= Cardinality(Newer(f, id)')
<1>1. /\ RowsOK /\ RowsOK' /\ committed \subseteq committed'
      /\ \A id \in committed : made'[id].createdAt = made[id].createdAt
  BY RowStepRows DEF ListInv
<1>2. Matching(f) \subseteq Matching(f)'
  BY RowStepWalk DEF Matching, Matches
<1>3. IsFiniteSet(Matching(f)') /\ Cardinality(Matching(f)') \in Nat
  <2>1. Matching(f)' \in SUBSET Ids
    BY <1>1 DEF Matching, RowsOK
  <2> QED
    BY <2>1, TableAssumption, FS_Subset, FS_CardinalityType
<1>4. ASSUME NEW id \in committed
      PROVE  /\ Newer(f, id) \subseteq Newer(f, id)'
             /\ Cardinality(Newer(f, id)) <= Cardinality(Newer(f, id)')
  <2>1. Matching(f) \subseteq committed
    BY DEF Matching
  <2>2. Newer(f, id) \subseteq Newer(f, id)' /\ Newer(f, id)' \subseteq Matching(f)'
    BY <1>1, <1>2, <2>1 DEF Newer
  <2>3. IsFiniteSet(Newer(f, id)')
    BY <1>3, <2>2, FS_Subset
  <2> QED
    BY <2>2, <2>3, FS_Subset
<1>5. Cardinality(Matching(f)) \in Nat
  BY <1>1, FiniteMatching
<1> QED
  BY <1>2, <1>3, <1>4, <1>5, FS_Subset

LEMMA FullRowStep ==
    ASSUME ListInv, FullInv, RowStep
    PROVE  FullInv'
<1>1. /\ request' = request /\ listed' = listed /\ walk'.at = walk.at
      /\ walk'.filter = walk.filter /\ walk'.page = walk.page /\ walk'.size = walk.size
      /\ ~walk'.left => ~walk.left
  BY RowStepWalk
<1>2. FullPages'
  BY <1>1 DEF FullInv, FullPages
<1>3. ASSUME request.at = "select", ~walk'.left
      PROVE  (request.total <= Cardinality(Matching(walk.filter)))'
  <2>1. PICK f : f = walk.filter
    OBVIOUS
  <2>2. /\ Cardinality(Matching(f)) \in Nat /\ Cardinality(Matching(f)') \in Nat
        /\ Cardinality(Matching(f)) <= Cardinality(Matching(f)')
    BY <1>3, <2>1, MatchingGrows
  <2>3. request.total \in Nat /\ request.total <= Cardinality(Matching(f))
    BY <1>1, <1>3, <2>1 DEF FullInv, ListInv, WalkTypeOK
  <2>4. Matching(walk.filter)' = Matching(f)'
    BY <1>1, <2>1 DEF Matching, Matches
  <2> QED
    BY <1>1, <2>2, <2>3, <2>4
<1> QED
  BY <1>1, <1>2, <1>3 DEF FullInv

LEMMA LastOfPages ==
    ASSUME NEW page \in Nat \ {0}, NEW size \in Nat \ {0}
    PROVE  (page - 1) * size + size = page * size /\ (page - 1) * size \in Nat /\ page * size \in Nat
OBVIOUS

LEMMA FullSelect ==
    ASSUME ListInv, FullInv, Select
    PROVE  FullInv'
<1>1. /\ walk.page \in Nat \ {0} /\ walk.size \in Nat \ {0} /\ request.total \in Nat /\ RowsOK
      /\ ~walk.left => request.total <= Cardinality(Matching(walk.filter))
      /\ Cardinality(Matching(walk.filter)) \in Nat
  BY Selected, FiniteMatching DEF ListInv, WalkTypeOK, Walk, FullInv
<1>2. UNCHANGED <<rowVars, walk>> /\ request' = NoRequest
  BY Selected
<1>3. ASSUME listed'.code = 200, Len(listed'.items) < walk.size, ~walk.left
      PROVE  walk.page * walk.size >= listed'.total
  <2>1. PICK s \in Ordered(Matching(walk.filter)), offset \in Nat :
           /\ offset = Offset(walk.page, walk.size)
           /\ listed' = [code |-> 200, total |-> request.total, items |-> Page(s, offset, walk.size),
                         matching |-> Len(s)]
    BY <1>3, Selected
  <2>6. listed'.items = Page(s, offset, walk.size)
    BY <2>1
  <2>7. Len(Page(s, offset, walk.size)) < walk.size
    BY <1>3, <2>6
  <2>2. Cardinality(Matching(walk.filter)) < offset + walk.size
    BY <1>1, <2>1, <2>7, PageOf
  <2>3. offset <= (walk.page - 1) * walk.size
    BY <1>1, <2>1, OffsetIs
  <2>4. /\ (walk.page - 1) * walk.size + walk.size = walk.page * walk.size
        /\ (walk.page - 1) * walk.size \in Nat /\ walk.page * walk.size \in Nat
    BY <1>1, LastOfPages
  <2>5. listed'.total = request.total
    BY <2>1
  <2> QED
    BY <1>1, <1>3, <2>2, <2>3, <2>4, <2>5
<1> QED
  BY <1>2, <1>3 DEF FullInv, FullPages, NoRequest

LEMMA FullStep ==
    ASSUME ListInv, FullInv, [Next]_vars
    PROVE  FullInv'
<1>1. CASE UNCHANGED listVars
  <2>1. /\ request' = request /\ listed' = listed /\ walk' = walk
        /\ \A f : Matching(f)' = Matching(f)
    BY <1>1, SameRows DEF listVars
  <2>2. Matching(walk.filter)' = Matching(walk.filter)
    BY <1>1 DEF listVars, rowVars, Matching, Matches
  <2> QED
    BY <2>1, <2>2 DEF FullInv, FullPages
<1>2. CASE Start
  <2>1. request'.at = "count"
    BY <1>2 DEF Start
  <2> QED
    BY <2>1 DEF FullInv, FullPages
<1>3. CASE Count
  <2>1. /\ request' = [at |-> "select", total |-> Cardinality(Matching(walk.filter))]
        /\ Matching(walk.filter)' = Matching(walk.filter)
    BY <1>3 DEF Count, rowVars, Matching, Matches
  <2>2. Cardinality(Matching(walk.filter)) \in Nat
    BY FiniteMatching DEF ListInv
  <2> QED
    BY <2>1, <2>2 DEF FullInv, FullPages
<1>4. CASE Receive
  <2>1. CASE listed.code # 200 \/ IsLastPage
    <3>1. walk' = [walk EXCEPT !.at = "done", !.seen = walk.seen \cup Range(listed.items)]
      BY <1>4, <2>1, Zenon DEF Receive
    <3>2. walk'.at = "done" /\ request' = request /\ request.at = "idle"
      BY <1>4, <2>1, <3>1 DEF Receive, ListInv, WalkTypeOK, Walk
    <3> QED
      BY <3>2 DEF FullInv, FullPages
  <2>2. CASE ~(listed.code # 200 \/ IsLastPage)
    <3>1. request'.at = "count"
      BY <1>4, <2>2 DEF Receive
    <3> QED
      BY <3>1 DEF FullInv, FullPages
  <2> QED
    BY <2>1, <2>2
<1> QED
  BY <1>1, <1>2, <1>3, <1>4, FullRowStep, FullSelect, ListStep DEF WalkStep

(* Between the COUNT and the SELECT of a page the listing only grows: a    *)
(* client that is given a page that is not full has reached the total,     *)
(* unless a row left the status it filters by (repository.go, List).       *)
THEOREM ShortPagesAreLast == Spec => []FullPages
<1>1. Init => FullInv
  BY DEF Init, ListInit, FullInv, FullPages, NoRequest
<1>2. ListInv /\ FullInv /\ [Next]_vars => FullInv'
  BY FullStep
<1>3. FullInv => FullPages
  BY DEF FullInv
<1> QED
  BY <1>1, <1>2, <1>3, ListInvHolds, PTL DEF Spec

(***************************************************************************)
(* Rows that are not skipped                                               *)
(***************************************************************************)

(* The place in the SELECT's order of a row that shares its created_at     *)
(* with no other is the number of newer rows.                              *)
LEMMA RankIs ==
    ASSUME RowsOK, NEW f, NEW s \in Ordered(Matching(f)), NEW p \in 1 .. Len(s), Alone(s[p])
    PROVE  Cardinality(Newer(f, s[p])) = p - 1
<1> DEFINE M == Matching(f)
           t == [i \in 1 .. (p - 1) |-> s[i]]
<1>1. /\ s \in [1 .. Len(s) -> M] /\ Len(s) \in Nat
      /\ \A id \in M : \E i \in 1 .. Len(s) : s[i] = id
      /\ \A i, j \in 1 .. Len(s) : s[i] = s[j] => i = j
      /\ \A i, j \in 1 .. Len(s) : i < j => made[s[i]].createdAt >= made[s[j]].createdAt
  BY OrderedIs, FiniteMatching
<1>2. \A id \in M : id \in Ids /\ made[id] # NotMade /\ made[id].createdAt \in Nat
  BY DEF Matching, RowsOK, Made
<1>3. Newer(f, s[p]) = {m \in M : made[m].createdAt > made[s[p]].createdAt}
  BY DEF Newer
<1> HIDE DEF M
<1>4. \A i \in 1 .. Len(s) : made[s[i]].createdAt > made[s[p]].createdAt <=> i < p
  <2> SUFFICES ASSUME NEW i \in 1 .. Len(s)
               PROVE  made[s[i]].createdAt > made[s[p]].createdAt <=> i < p
    OBVIOUS
  <2>1. s[i] \in M /\ s[p] \in M
    BY <1>1
  <2>2. made[s[i]].createdAt \in Nat /\ made[s[p]].createdAt \in Nat
    BY <1>2, <2>1
  <2>3. i # p => made[s[i]].createdAt # made[s[p]].createdAt
    BY <1>1, <1>2, <2>1 DEF Alone
  <2> QED
    BY <1>1, <2>2, <2>3
<1>5. t \in Bijection(1 .. (p - 1), Newer(f, s[p]))
  <2>1. \A i \in 1 .. (p - 1) : i \in 1 .. Len(s) /\ i < p /\ t[i] = s[i]
    BY <1>1
  <2>2. \A i \in 1 .. (p - 1) : t[i] \in Newer(f, s[p])
    BY <1>1, <1>3, <1>4, <2>1
  <2>3. \A i, j \in 1 .. (p - 1) : t[i] = t[j] => i = j
    BY <1>1, <2>1
  <2>4. \A id \in Newer(f, s[p]) : \E i \in 1 .. (p - 1) : t[i] = id
    <3> SUFFICES ASSUME NEW id \in Newer(f, s[p])
                 PROVE  \E i \in 1 .. (p - 1) : t[i] = id
      OBVIOUS
    <3>1. PICK i \in 1 .. Len(s) : s[i] = id
      BY <1>1, <1>3
    <3>2. i < p
      BY <1>3, <1>4, <3>1
    <3>3. i \in 1 .. (p - 1)
      BY <1>1, <3>2
    <3> QED
      BY <2>1, <3>1, <3>3
  <2>5. t \in [1 .. (p - 1) -> Newer(f, s[p])]
    BY <2>2
  <2> HIDE DEF t
  <2> QED
    BY <2>3, <2>4, <2>5 DEF Bijection, Injection, Surjection, IsInjective
<1>6. p - 1 \in Nat
  BY <1>1
<1> HIDE DEF t
<1> QED
  BY <1>5, <1>6, FS_CountingElements DEF ExistsBijection

(* What the client expects, and will not find among rows of its instant.   *)
Unseen == {id \in walk.expected : Alone(id) /\ id \notin walk.seen}

(* At least n newer rows stand before this one in the client's listing.    *)
Behind(id, n) == Cardinality(Newer(walk.filter, id)) >= n

(* What the client has still to see is on later pages; then the page it    *)
(* holds is full, and is not the last.                                     *)
Missed(id) ==
    /\ Behind(id, walk.page * walk.size)
    /\ Len(listed.items) >= walk.size
    /\ listed.matching > walk.page * walk.size

SkipInv ==
    /\ walk.at # "idle" /\ ~walk.left => walk.expected \subseteq Matching(walk.filter)
    /\ walk.at = "walking" /\ walk.first = 1 /\ ~walk.left /\ request.at # "idle" =>
          \A id \in Unseen : Behind(id, (walk.page - 1) * walk.size)
    /\ walk.at = "walking" /\ walk.first = 1 /\ ~walk.left /\ request.at = "idle"
       /\ listed.code = 200 =>
          \A id \in Unseen : id \in Range(listed.items) \/ Missed(id)
    /\ NoneSkipped

LEMMA FiniteNewer ==
    ASSUME RowsOK, NEW f, NEW id
    PROVE  Cardinality(Newer(f, id)) \in Nat
<1>1. Newer(f, id) \subseteq Matching(f)
  BY DEF Newer
<1> QED
  BY <1>1, FiniteMatching, FS_Subset, FS_CardinalityType

(* A row that the page leaves out although it is beyond the pages before.  *)
LEMMA LeftOut ==
    ASSUME RowsOK, NEW f, NEW s \in Ordered(Matching(f)),
           NEW page \in Nat \ {0}, NEW size \in Nat \ {0}, Offset(page, size) \in Nat,
           NEW id \in Matching(f), Alone(id), Cardinality(Newer(f, id)) >= (page - 1) * size,
           id \notin Range(Page(s, Offset(page, size), size))
    PROVE  /\ Cardinality(Newer(f, id)) >= page * size
           /\ Len(Page(s, Offset(page, size), size)) >= size
           /\ Len(s) > page * size
<1> DEFINE offset == Offset(page, size)
           before == (page - 1) * size
           rank   == Cardinality(Newer(f, id))
           n      == Cardinality(Matching(f))
           items  == Page(s, offset, size)
<1>1. before + size = page * size /\ before \in Nat /\ page * size \in Nat
  BY LastOfPages
<1>2. PICK p \in 1 .. Len(s) : s[p] = id
  BY OrderedIs
<1>3. rank = p - 1
  BY <1>2, RankIs
<1>4. Len(s) = n /\ n \in Nat /\ n <= MaxInt /\ MaxInt \in Nat
  <2>1. Len(s) = n /\ n \in Nat /\ Matching(f) \subseteq Ids
    BY OrderedIs, FiniteMatching
  <2>2. n <= Cardinality(Ids) /\ Cardinality(Ids) \in Nat
    BY <2>1, TableAssumption, FS_Subset, FS_CardinalityType
  <2> HIDE DEF n
  <2> QED
    BY <2>1, <2>2, TableAssumption, IntAssumption
<1>5. before <= MaxInt => offset = before
  BY OffsetIs
<1>6. /\ Len(items) < size => n < offset + size
      /\ \A i \in 1 .. Len(s) : offset < i /\ i <= offset + size => s[i] \in Range(items)
  BY PageOf
<1>7. Len(items) \in Nat /\ rank >= before /\ id \notin Range(items)
  <2>1. items \in Seq(Ids)
    BY PageOf
  <2> QED
    BY <2>1, LenProperties
<1> HIDE DEF offset, before, rank, n, items
<1>8. offset = before
  BY <1>1, <1>2, <1>3, <1>4, <1>5, <1>7
<1>9. p > offset + size
  BY <1>1, <1>2, <1>3, <1>4, <1>6, <1>7, <1>8
<1>10. rank >= page * size /\ Len(items) >= size /\ Len(s) > page * size
  <2> DEFINE product == page * size
  <2>1. product = before + size /\ product \in Nat
    BY <1>1
  <2> HIDE DEF product
  <2>2. rank >= product /\ Len(items) >= size /\ Len(s) > product
    BY <1>1, <1>2, <1>3, <1>4, <1>6, <1>7, <1>8, <1>9, <2>1
  <2> QED
    BY <2>2 DEF product
<1> QED
  BY <1>10 DEF rank, items, offset

LEMMA SkipRowStep ==
    ASSUME ListInv, SkipInv, RowStep
    PROVE  SkipInv'
<1>1. /\ request' = request /\ listed' = listed
      /\ walk'.at = walk.at /\ walk'.filter = walk.filter /\ walk'.stop = walk.stop
      /\ walk'.page = walk.page /\ walk'.size = walk.size /\ walk'.first = walk.first
      /\ walk'.expected = walk.expected /\ walk'.seen = walk.seen
      /\ ~walk'.left => ~walk.left
  BY RowStepWalk
<1>2. CASE walk'.left \/ walk.at = "idle"
  BY <1>1, <1>2 DEF SkipInv, NoneSkipped
<1>3. CASE ~walk'.left /\ walk.at # "idle"
  <2>1. PICK f : f = walk.filter
    OBVIOUS
  <2>2. walk.expected \subseteq Matching(f) /\ ~walk.left
    BY <1>1, <1>3, <2>1 DEF SkipInv
  <2>3. Matching(walk.filter)' = Matching(f)' /\ \A id : Newer(walk.filter, id)' = Newer(f, id)'
    BY <1>1, <2>1 DEF Newer, Matching, Matches
  <2>4. walk.expected \subseteq Matching(walk.filter)' /\ walk.expected \subseteq committed
    BY <1>3, <2>1, <2>2, <2>3, MatchingGrows DEF Matching
  <2>5. Unseen' \subseteq Unseen
    BY <1>1, <2>4, RowStepRows DEF Unseen
  <2>6. ASSUME NEW id \in walk.expected, NEW n \in Nat, Behind(id, n)
        PROVE  Cardinality(Newer(walk.filter, id)') >= n
    <3>1. RowsOK /\ RowsOK'
      BY RowStepRows DEF ListInv
    <3>2. Cardinality(Newer(f, id)) \in Nat
      BY <3>1, FiniteNewer
    <3>3. Newer(f, id)' \subseteq Matching(f)' /\ Matching(f)' \in SUBSET Ids
      BY <3>1 DEF Newer, Matching, RowsOK
    <3>4. Cardinality(Newer(f, id)') \in Nat
      BY <3>3, TableAssumption, FS_Subset, FS_CardinalityType
    <3>5. Cardinality(Newer(f, id)) <= Cardinality(Newer(f, id)')
      BY <1>3, <2>1, <2>4, MatchingGrows
    <3> QED
      BY <2>1, <2>3, <2>6, <3>2, <3>4, <3>5 DEF Behind
  <2>7. walk.page \in Nat \ {0} /\ walk.size \in Nat \ {0}
    BY DEF ListInv, WalkTypeOK, Walk
  <2>8. (walk.page - 1) * walk.size \in Nat /\ walk.page * walk.size \in Nat
    BY <2>7, LastOfPages
  <2>9. Unseen \subseteq walk.expected
    BY DEF Unseen
  <2>10. ASSUME walk.at = "walking", walk.first = 1, request.at # "idle"
         PROVE  (\A id \in Unseen : Behind(id, (walk.page - 1) * walk.size))'
    <3>1. \A id \in Unseen : Behind(id, (walk.page - 1) * walk.size)
      BY <2>2, <2>10 DEF SkipInv
    <3>2. \A id \in Unseen : Cardinality(Newer(walk.filter, id)') >= (walk.page - 1) * walk.size
      BY <2>6, <2>8, <2>9, <3>1
    <3> QED
      BY <1>1, <2>5, <3>2 DEF Behind
  <2>11. ASSUME walk.at = "walking", walk.first = 1, request.at = "idle", listed.code = 200
         PROVE  (\A id \in Unseen : id \in Range(listed.items) \/ Missed(id))'
    <3>1. \A id \in Unseen : id \in Range(listed.items) \/ Missed(id)
      BY <2>2, <2>11 DEF SkipInv
    <3>2. \A id \in Unseen : Missed(id) => Cardinality(Newer(walk.filter, id)') >= walk.page * walk.size
      BY <2>6, <2>8, <2>9 DEF Missed
    <3> QED
      BY <1>1, <2>5, <3>1, <3>2 DEF Missed, Behind
  <2>12. NoneSkipped'
    <3>1. \A id \in walk.expected : Alone(id)' => Alone(id)
      BY <2>4, RowStepRows
    <3> QED
      BY <1>1, <2>2, <3>1 DEF SkipInv, NoneSkipped
  <2> QED
    BY <1>1, <2>4, <2>10, <2>11, <2>12 DEF SkipInv
<1> QED
  BY <1>2, <1>3

LEMMA SkipStart ==
    ASSUME ListInv, Start
    PROVE  SkipInv'
<1>1. PICK filter \in Filters, stop \in Stops, p \in Pages, size \in Sizes :
         walk' = [at |-> "walking", filter |-> filter, stop |-> stop,
                  page |-> QueryInt(p, 1), size |-> QueryInt(size, 20),
                  first |-> QueryInt(p, 1),
                  expected |-> Matching(filter), seen |-> {}, left |-> FALSE]
  BY DEF Start
<1>2. request' = [at |-> "count", total |-> 0] /\ UNCHANGED rowVars /\ ListInv'
  BY StartInv DEF Start
<1>3. Matching(walk.filter)' = Matching(filter)
  BY <1>1, <1>2 DEF rowVars, Matching, Matches
<1>4. ASSUME walk'.first = 1, NEW id
      PROVE  Behind(id, (walk.page - 1) * walk.size)'
  <2>1. walk'.page = 1 /\ walk'.size \in Nat
    BY <1>1, <1>2, <1>4 DEF ListInv, WalkTypeOK, Walk
  <2>2. (walk'.page - 1) * walk'.size = 0
    BY <2>1
  <2>3. Cardinality(Newer(walk.filter, id))' \in Nat
    <3>1. Newer(walk.filter, id)' \subseteq Matching(filter)
      BY <1>3 DEF Newer
    <3>2. RowsOK
      BY DEF ListInv
    <3> QED
      BY <3>1, <3>2, FiniteMatching, FS_Subset, FS_CardinalityType
  <2> QED
    BY <2>2, <2>3 DEF Behind
<1> QED
  BY <1>1, <1>2, <1>3, <1>4 DEF SkipInv, NoneSkipped

LEMMA SameListing ==
    ASSUME UNCHANGED rowVars, walk'.filter = walk.filter
    PROVE  /\ Matching(walk.filter)' = Matching(walk.filter)
           /\ \A id : Newer(walk.filter, id)' = Newer(walk.filter, id)
           /\ \A id : Alone(id)' <=> Alone(id)
           /\ \A id, n : Behind(id, n)' <=> Behind(id, n)
<1>1. Matching(walk.filter)' = Matching(walk.filter)
  BY DEF rowVars, Matching, Matches
<1>2. \A id : Newer(walk.filter, id)' = Newer(walk.filter, id)
  BY <1>1 DEF rowVars, Newer
<1> QED
  BY <1>1, <1>2 DEF rowVars, Alone, Behind

LEMMA SkipUnchanged ==
    ASSUME SkipInv, UNCHANGED <<rowVars, listed, walk>>,
           request' = request \/ (request.at # "idle" /\ request'.at # "idle")
    PROVE  SkipInv'
<1>1. /\ Matching(walk.filter)' = Matching(walk.filter)
      /\ \A id : Alone(id)' <=> Alone(id)
      /\ \A id : Newer(walk.filter, id)' = Newer(walk.filter, id)
  BY SameListing
<1>2. Unseen' = Unseen
  BY <1>1 DEF Unseen
<1> QED
  BY <1>1, <1>2 DEF SkipInv, Behind, Missed, NoneSkipped

LEMMA SkipSelect ==
    ASSUME ListInv, SkipInv, Select
    PROVE  SkipInv'
<1>1. /\ walk.page \in Nat \ {0} /\ walk.size \in Nat \ {0} /\ RowsOK
      /\ walk.at = "walking" /\ request.at = "select"
      /\ UNCHANGED <<rowVars, walk>> /\ request'.at = "idle"
  BY Selected DEF ListInv, WalkTypeOK, Walk, NoRequest
<1>2. /\ Matching(walk.filter)' = Matching(walk.filter)
      /\ \A id : Alone(id)' <=> Alone(id)
      /\ \A id : Newer(walk.filter, id)' = Newer(walk.filter, id)
  BY <1>1, SameListing
<1>3. Unseen' = Unseen
  BY <1>1, <1>2 DEF Unseen
<1>4. ASSUME walk.first = 1, ~walk.left, listed'.code = 200,
             NEW id \in Unseen, id \notin Range(listed'.items)
      PROVE  Missed(id)'
  <2>1. Cardinality(Newer(walk.filter, id)) >= (walk.page - 1) * walk.size
    BY <1>1, <1>4 DEF SkipInv, Behind
  <2>2. Offset(walk.page, walk.size) \in Nat
    BY <1>4, Selected
  <2>3. PICK s \in Ordered(Matching(walk.filter)) :
           listed' = [code |-> 200, total |-> request.total,
                      items |-> Page(s, Offset(walk.page, walk.size), walk.size),
                      matching |-> Len(s)]
    BY <1>4, Selected
  <2>4. /\ listed'.items = Page(s, Offset(walk.page, walk.size), walk.size)
        /\ listed'.matching = Len(s)
    BY <2>3
  <2>5. id \in Matching(walk.filter) /\ Alone(id)
    BY <1>1, <1>4 DEF SkipInv, Unseen
  <2>7. id \notin Range(Page(s, Offset(walk.page, walk.size), walk.size))
    BY <1>4, <2>4
  <2>8. /\ Cardinality(Newer(walk.filter, id)) >= walk.page * walk.size
        /\ Len(Page(s, Offset(walk.page, walk.size), walk.size)) >= walk.size
        /\ Len(s) > walk.page * walk.size
    BY <1>1, <2>1, <2>2, <2>5, <2>7, LeftOut
  <2>6. /\ Cardinality(Newer(walk.filter, id)) >= walk.page * walk.size
        /\ Len(listed'.items) >= walk.size
        /\ listed'.matching > walk.page * walk.size
    BY <2>4, <2>8, Zenon
  <2> QED
    BY <1>1, <1>2, <2>6 DEF Missed, Behind
<1> QED
  BY <1>1, <1>2, <1>3, <1>4 DEF SkipInv, NoneSkipped

LEMMA SkipReceive ==
    ASSUME ListInv, SkipInv, Receive
    PROVE  SkipInv'
<1> DEFINE seen == walk.seen \cup Range(listed.items)
<1>1. /\ UNCHANGED <<rowVars, listed>> /\ walk.at = "walking" /\ request.at = "idle"
      /\ walk \in Walk /\ walk.stop \in {"total", "short"}
  BY DEF Receive, ListInv, WalkTypeOK, Walk
<1>2. seen \in SUBSET Ids
  <2>1. listed.items \in Seq(Ids) /\ walk.seen \in SUBSET Ids
    BY DEF ListInv, WalkTypeOK, Walk
  <2> QED
    BY <2>1, LenProperties DEF Range
<1>3. /\ walk.size \in Nat \ {0} /\ Len(listed.items) \in Nat /\ walk.page * walk.size \in Nat
      /\ listed.matching \in Nat /\ listed.total \in Nat
  <2>1. listed.items \in Seq(Ids) /\ listed.matching \in Nat /\ listed.total \in Nat
    BY DEF ListInv, WalkTypeOK
  <2>2. walk.page \in Nat \ {0} /\ walk.size \in Nat \ {0}
    BY <1>1 DEF Walk
  <2> QED
    BY <2>1, <2>2, LenProperties, LastOfPages
<1> DEFINE left == {id \in walk.expected : Alone(id) /\ id \notin seen}
<1>4. walk.first = 1 /\ ~walk.left /\ listed.code = 200 => \A id \in left : Missed(id)
  BY <1>1 DEF SkipInv, Unseen
<1> HIDE DEF seen
<1>5. CASE listed.code # 200 \/ IsLastPage
  <2>1. walk' = [walk EXCEPT !.at = "done", !.seen = seen]
    BY <1>5, Zenon DEF Receive, seen
  <2>2. /\ walk'.at = "done" /\ walk'.seen = seen /\ walk'.filter = walk.filter
        /\ walk'.first = walk.first /\ walk'.expected = walk.expected /\ walk'.left = walk.left
        /\ walk'.stop = walk.stop
    BY <1>1, <1>2, <2>1, WalkEnds
  <2>3. ASSUME walk.first = 1, listed.code = 200, ~walk.left,
               walk.stop = "total" => listed.matching <= listed.total
        PROVE  left = {}
    <3>1. IsLastPage
      BY <1>5, <2>3
    <3>2. \A id \in left : /\ Len(listed.items) >= walk.size
                            /\ listed.matching > walk.page * walk.size
      BY <1>4, <2>3 DEF Missed
    <3>3. CASE walk.stop = "total"
      <4>1. walk.page * walk.size >= listed.total
        BY <3>1, <3>3, Zenon DEF IsLastPage
      <4> QED
        BY <1>3, <2>3, <3>2, <3>3, <4>1
    <3>4. CASE walk.stop = "short"
      <4>1. Len(listed.items) < walk.size
        BY <3>1, <3>4, Zenon DEF IsLastPage
      <4> QED
        BY <1>3, <3>2, <4>1
    <3> QED
      BY <1>1, <3>3, <3>4
  <2>4. /\ Matching(walk.filter)' = Matching(walk.filter)
        /\ \A id : Alone(id)' <=> Alone(id)
    BY <1>1, <2>2, SameListing
  <2>5. NoneSkipped'
    BY <1>1, <2>2, <2>3, <2>4 DEF NoneSkipped
  <2> QED
    BY <1>1, <2>2, <2>4, <2>5 DEF SkipInv
<1>6. CASE ~(listed.code # 200 \/ IsLastPage)
  <2>1. walk' = [walk EXCEPT !.page = @ + 1, !.seen = seen]
        /\ request' = [at |-> "count", total |-> 0]
    BY <1>6 DEF Receive, seen
  <2>2. /\ walk'.at = walk.at /\ walk'.seen = seen /\ walk'.filter = walk.filter
        /\ walk'.first = walk.first /\ walk'.expected = walk.expected
        /\ walk'.page = walk.page + 1 /\ walk'.size = walk.size /\ walk'.left = walk.left
    BY <1>1, <1>2, <2>1, WalkTurns
  <2>3. (walk'.page - 1) * walk'.size = walk.page * walk.size
    BY <1>1, <2>2 DEF Walk
  <2>4. /\ Matching(walk.filter)' = Matching(walk.filter)
        /\ \A id : Alone(id)' <=> Alone(id)
        /\ \A id : Newer(walk.filter, id)' = Newer(walk.filter, id)
    BY <1>1, <2>2, SameListing
  <2>5. Unseen' = left
    BY <2>2, <2>4 DEF Unseen
  <2>6. walk.first = 1 /\ ~walk.left =>
           \A id \in left : Cardinality(Newer(walk.filter, id)) >= walk.page * walk.size
    BY <1>4, <1>6 DEF Missed, Behind
  <2>7. walk'.first = 1 /\ ~walk'.left =>
           (\A id \in Unseen : Behind(id, (walk.page - 1) * walk.size))'
    <3> HIDE DEF left
    <3> QED
      BY <2>2, <2>3, <2>4, <2>5, <2>6 DEF Behind
  <2> QED
    BY <1>1, <2>1, <2>2, <2>4, <2>7 DEF SkipInv, NoneSkipped
<1> QED
  BY <1>5, <1>6

LEMMA SkipStep ==
    ASSUME ListInv, SkipInv, [Next]_vars
    PROVE  SkipInv'
<1>1. CASE UNCHANGED listVars
  BY <1>1, SkipUnchanged DEF listVars
<1>2. CASE Count
  BY <1>2, SkipUnchanged DEF Count
<1> QED
  BY <1>1, <1>2, ListStep, SkipRowStep, SkipStart, SkipSelect, SkipReceive DEF WalkStep

(* A client that walks from page 1 to the last has seen every row that     *)
(* matched from its first request on, however many rows are stored         *)
(* meanwhile, but for those that share their created_at with another: if   *)
(* no row leaves the status it filters by, and, where it stops by total,   *)
(* total was that of the last page (repository.go, List).                  *)
THEOREM NoRowIsSkipped == Spec => []NoneSkipped
<1>1. Init => SkipInv
  BY DEF Init, ListInit, SkipInv, NoneSkipped, NoRequest
<1>2. ListInv /\ SkipInv /\ [Next]_vars => SkipInv'
  BY SkipStep
<1>3. SkipInv => NoneSkipped
  BY DEF SkipInv
<1> QED
  BY <1>1, <1>2, <1>3, ListInvHolds, PTL DEF Spec
=============================================================================
