---------------------------- MODULE CreateRequest ----------------------------
(***************************************************************************)
(* From the body of a POST to the rows it inserts: how the handlers and    *)
(* the service check a request, fill in its template and store it, and     *)
(* which answer an error becomes.  What follows the INSERT is here only    *)
(* the answer that it may turn into a 500; NotificationService has it all. *)
(*                                                                         *)
(* Content and the values of template variables are sequences of tokens: a *)
(* variable stands for its placeholder {{variable}}, anything else for one *)
(* character.  Braces that form a placeholder only once two pieces are put *)
(* together are left out.                                                  *)
(***************************************************************************)
EXTENDS Naturals, Sequences, SequencesExt, FiniteSets

CONSTANTS Posts,            \* the requests: [batch : BOOLEAN, items : Seq(item)]
          Variables,        \* the names of template variables
          MaxContentLength, \* the limits of the channels; its domain: the channels
          MaxBatchSize,
          PlaceholderLength \* the length of {{variable}}

ASSUME LengthsAssumption ==
    /\ MaxBatchSize \in Nat /\ PlaceholderLength \in Nat
    /\ \A channel \in DOMAIN MaxContentLength : MaxContentLength[channel] \in Nat

(* POST /notifications has one item, the items of a batch are a list;      *)
(* content, and the value of each of its variables, is a sequence of       *)
(* tokens.                                                                 *)
IsSequence(s) == s \in Seq(Range(s))

ASSUME PostsAssumption ==
    \A p \in Posts :
        /\ p.batch \in BOOLEAN
        /\ IsSequence(p.items) /\ (~p.batch => Len(p.items) = 1)
        /\ \A i \in DOMAIN p.items :
              LET item == p.items[i] IN
              /\ IsSequence(item.content)
              /\ IsFiniteSet(DOMAIN item.vars) /\ DOMAIN item.vars \subseteq Variables
              /\ \A v \in DOMAIN item.vars : IsSequence(item.vars[v])

VARIABLES post,             \* the request, or NoPost
          keyTaken,         \* another notification has the idempotency key "k"
          answer,           \* the status code, or 0
          stored            \* the rows that were inserted

createVars == <<post, keyTaken, answer, stored>>

NoPost == [batch |-> FALSE, items |-> << >>]

CreateInit ==
    /\ post = NoPost
    /\ keyTaken = FALSE
    /\ answer = 0
    /\ stored = << >>

(* A client's request, while others may have stored what they like.        *)
Post ==
    /\ post = NoPost
    /\ post' \in Posts
    /\ keyTaken' \in BOOLEAN
    /\ UNCHANGED <<answer, stored>>

Length(content) ==
    LET placeholders == {i \in DOMAIN content : content[i] \in Variables}
    IN  Len(content) + Cardinality(placeholders) * (PlaceholderLength - 1)

(***************************************************************************)
(* The template: one ReplaceAll for each variable, in the map's order.     *)
(***************************************************************************)
(* A slip to detect: only the first placeholder is replaced.               *)
ReplaceFirst(content, v, value) ==
    IF Contains(content, v)
    THEN LET i == CHOOSE j \in DOMAIN content :
                      content[j] = v /\ \A k \in 1 .. j - 1 : content[k] # v
         IN  SubSeq(content, 1, i - 1) \o value \o SubSeq(content, i + 1, Len(content))
    ELSE content

ReplaceEvery(content, v, value) ==
    FlattenSeq([i \in DOMAIN content |-> IF content[i] = v THEN value ELSE <<content[i]>>])

ResolveTemplate(content, values, order) ==
    LET text[n \in 0 .. Len(order)] ==
            IF n = 0 THEN content ELSE ReplaceEvery(text[n - 1], order[n], values[order[n]])
    IN  text[Len(order)]

(***************************************************************************)
(* Checks, in the order in which the code makes them                       *)
(***************************************************************************)
ParseChannel(s) == s \in DOMAIN MaxContentLength

ParsePriority(s) == s \in {"high", "normal", "low"}

(* Handler: the channel and the priority, which may be missing.            *)
ParseError(i) ==
    LET item == post.items[i] IN
    CASE ~ParseChannel(item.channel) -> "invalid channel"
      [] /\ ParseChannel(item.channel)
         /\ item.priority # "" /\ ~ParsePriority(item.priority) -> "invalid priority"
      [] OTHER -> "none"

(* NewNotification.                                                        *)
ValidationError(i) ==
    LET item == post.items[i] IN
    CASE item.recipient = "" -> "empty recipient"
      [] item.recipient # "" /\ item.content = << >> -> "empty content"
      [] item.recipient # "" /\ Length(item.content) > MaxContentLength[item.channel]
            -> "content too long"
      [] OTHER -> "none"

(* PostgreSQL: VARCHAR(255), and the unique index.                         *)
TooLong(i) == post.items[i].recipient = "more than 255 characters"

KeyTaken(i) ==
    /\ post.items[i].key # ""
    /\ keyTaken \/ \E j \in 1 .. i - 1 : post.items[j].key = post.items[i].key

RowError(i) ==
    CASE TooLong(i) -> "value too long"
      [] ~TooLong(i) /\ KeyTaken(i) -> "duplicate key"
      [] OTHER -> "none"

(* A slip to detect: only the last item's error is looked at.              *)
LastError(errors) == IF errors = << >> THEN "none" ELSE Last(errors)

(* The items are gone through in order and the first error is returned.    *)
FirstError(errors) ==
    LET wrong == SelectInSeq(errors, LAMBDA e : e # "none")
    IN  IF wrong = 0 THEN "none" ELSE errors[wrong]

InsertError == FirstError([i \in DOMAIN post.items |-> RowError(i)])

RequestError ==
    LET parse == FirstError([i \in DOMAIN post.items |-> ParseError(i)]) IN
    CASE parse # "none" -> parse
      [] parse = "none" /\ post.batch /\ Len(post.items) > MaxBatchSize -> "batch too large"
      [] OTHER -> FirstError([i \in DOMAIN post.items |-> ValidationError(i)])

(* A slip to detect: ErrContentTooLong is left out of the list.            *)
ErrorStatusIncomplete(error) ==
    CASE error = "duplicate key" -> 409
      [] error \in {"invalid channel", "invalid priority", "batch too large",
                    "empty recipient", "empty content"} -> 400
      [] OTHER -> 500

(* The handlers' own answers and handleServiceError's.                     *)
ErrorStatus(error) ==
    CASE error = "duplicate key" -> 409
      [] error \in {"invalid channel", "invalid priority", "batch too large",
                    "empty recipient", "empty content", "content too long"} -> 400
      [] OTHER -> 500

(***************************************************************************)
(* The handlers                                                            *)
(***************************************************************************)
Refuse(error) == answer' = ErrorStatus(error) /\ UNCHANGED stored

(* A slip to detect: the items of a batch are inserted up to the wrong one.*)
InsertUpToError(rows) ==
    IF InsertError = "none"
    THEN stored' = rows /\ answer' = 202
    ELSE stored' = Front(rows) /\ answer' = ErrorStatus(InsertError)

(* Rows that are stored may be answered 500 all the same: the answer to    *)
(* the INSERT may be lost, and the UPDATE to queued or the publish of a    *)
(* single notification may fail after it.                                  *)
Insert(rows) ==
    \/ /\ InsertError = "none"
       /\ stored' = rows
       /\ answer' \in {202, ErrorStatus("database")}
    \/ InsertError # "none" /\ Refuse(InsertError)
    \/ Refuse("database")

Row(item, content) == [content |-> content, channel |-> item.channel]

(* POST /notifications: the template is resolved after the validation.     *)
CreateNotification ==
    /\ post # NoPost /\ answer = 0 /\ ~post.batch
    /\ LET item == post.items[1] IN
          \/ RequestError # "none" /\ Refuse(RequestError)
          \/ /\ RequestError = "none"
             /\ \E order \in SetToSeqs(DOMAIN item.vars) :
                   Insert(<<Row(item, ResolveTemplate(item.content, item.vars, order))>>)
    /\ UNCHANGED <<post, keyTaken>>

(* POST /notifications/batch: templates are not resolved.                  *)
CreateBatch ==
    /\ post # NoPost /\ answer = 0 /\ post.batch
    /\ \/ RequestError # "none" /\ Refuse(RequestError)
       \/ /\ RequestError = "none"
          /\ Insert([i \in DOMAIN post.items |-> Row(post.items[i], post.items[i].content)])
    /\ UNCHANGED <<post, keyTaken>>

CreateNext == Post \/ CreateNotification \/ CreateBatch

(***************************************************************************)
(* Properties                                                              *)
(***************************************************************************)
Accepted == answer = 202

(* No value of the item's variables contains a placeholder.                *)
PlainValues(item) ==
    \A v \in DOMAIN item.vars : \A i \in DOMAIN item.vars[v] : item.vars[v][i] \notin Variables

(* What a template means: every placeholder of a given variable is its     *)
(* value, all at once.                                                     *)
Substitute(content, values) ==
    FlattenSeq([i \in DOMAIN content |->
        IF content[i] \in DOMAIN values THEN values[content[i]] ELSE <<content[i]>>])

(* A single request's template means that, in whatever order the map gives *)
(* its variables, unless a value contains a placeholder itself.            *)
TemplateMeaning ==
    Accepted /\ ~post.batch /\ PlainValues(post.items[1]) =>
        stored[1].content = Substitute(post.items[1].content, post.items[1].vars)

(* A request is stored as a whole or not at all, a batch with one wrong    *)
(* item or one duplicate key included: as a whole if it is answered 202,   *)
(* not at all if 400 or 409.  A 500 leaves it open.                        *)
AllOrNothing ==
    /\ stored = << >> \/ Len(stored) = Len(post.items)
    /\ Accepted => Len(stored) = Len(post.items)
    /\ answer \in {400, 409} => stored = << >>

(* 500 is kept for what no check looks for: the database, or a value longer*)
(* than its column.                                                        *)
ClientErrorsAre4xx == answer = 500 => RequestError = "none"

(* errors.go: "content exceeds maximum length for channel".  Content that  *)
(* no template changed is within the limit.                                *)
ContentWithinLimit ==
    \A i \in DOMAIN stored : stored[i].content = post.items[i].content =>
        Length(stored[i].content) <= MaxContentLength[stored[i].channel]
=============================================================================
