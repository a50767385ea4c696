-------------------------- MODULE ProxyRequests_proof --------------------------
(***************************************************************************)
(* Theorems about the request handlers, for any number of requests and any *)
(* size of the connection pool.                                            *)
(***************************************************************************)
EXTENDS ProxyRequests, TLAPS

-----------------------------------------------------------------------------
(* Type correctness.                                                       *)

LEMMA LocalCounts ==
    /\ LocalCount \in {Json, AnthropicError(501)}
    /\ LocalCount = Json => settings.mode # "exact"
<1>1. FallbackReply(TRUE) = AnthropicError(501)
  BY DEF FallbackReply
<1>2. FallbackReply(FALSE) \in {Json, AnthropicError(501)}
  BY DEF FallbackReply
<1>3. Json # AnthropicError(501)
  BY DEF Json, AnthropicError
<1>4. CASE settings.mode = "exact"
  <2>1. (settings.mode = "exact") = TRUE
    BY <1>4
  <2>2. LocalCount = FallbackReply(settings.mode = "exact")
    BY <1>4 DEF LocalCount
  <2>3. LocalCount = FallbackReply(TRUE)
    BY <2>1, <2>2
  <2>. QED
    BY <1>1, <1>3, <2>3
<1>5. CASE settings.mode # "exact"
  <2>1. (settings.mode = "exact") = FALSE
    BY <1>5
  <2>2. LocalCount \in {Json, AnthropicError(501), FallbackReply(settings.mode = "exact")}
    BY DEF LocalCount
  <2>3. LocalCount \in {Json, AnthropicError(501), FallbackReply(FALSE)}
    BY <2>1, <2>2
  <2>. QED
    BY <1>2, <1>5, <2>3, ZenonT(60)
<1>. QED
  BY <1>4, <1>5

\* The replies of every handler are of the type of a reply.
LEMMA ReplyTypes ==
    /\ \A status \in {400, 401, 404, 413, 501, 502, 504, Passed} : AnthropicError(status) \in Reply
    /\ ServerError \in Reply /\ Json \in Reply
    /\ [status |-> 200, shape |-> "events"] \in Reply
    /\ [status |-> Passed, shape |-> "relayed"] \in Reply
    /\ FallbackReply(FALSE) \in Reply
    /\ LocalCount \in Reply
<1>1. \A status \in {400, 401, 404, 413, 501, 502, 504, Passed} : AnthropicError(status) \in Reply
  BY DEF AnthropicError, Reply, Passed
<1>2. ServerError \in Reply /\ Json \in Reply
  BY DEF ServerError, Json, Reply
<1>3. FallbackReply(FALSE) \in {Json, AnthropicError(501)}
  BY DEF FallbackReply
<1>4. LocalCount \in {Json, AnthropicError(501)}
  BY LocalCounts
<1>5. /\ [status |-> 200, shape |-> "events"] \in Reply
      /\ [status |-> Passed, shape |-> "relayed"] \in Reply
  BY DEF Reply
<1>6. FallbackReply(FALSE) \in Reply /\ LocalCount \in Reply
  <2>1. AnthropicError(501) \in Reply /\ Json \in Reply
    BY <1>1, <1>2
  <2>. QED
    BY <1>3, <1>4, <2>1, ZenonT(60)
<1>. QED
  BY <1>1, <1>2, <1>5, <1>6, ZenonT(60)

LEMMA StatusOf ==
    /\ \A status : AnthropicError(status).status = status
    /\ ServerError.status = 500 /\ Json.status = 200
BY DEF AnthropicError, ServerError, Json

\* What a conversion or a rejection may be answered.
LEMMA ConvertedReplies ==
    ASSUME NEW how, NEW result, NEW what, what \in Converted(how, result)
    PROVE  \/ what = ServerError \/ what = Json
           \/ what = [status |-> 200, shape |-> "events"]
           \/ \E status \in {400, 404, 502} : what = AnthropicError(status)
<1>1. CASE result = "valid" /\ how = "stream"
  BY <1>1 DEF Converted
<1>2. CASE result = "valid" /\ how = "models"
  BY <1>2 DEF Converted
<1>3. CASE result = "not utf-8" /\ how # "models"
  BY <1>3, ZenonT(60) DEF Converted
<1>4. CASE result = "valid" /\ how \in {"messages", "count"}
  BY <1>4 DEF Converted
<1>5. CASE /\ ~(result = "valid" /\ how = "stream") /\ ~(result = "valid" /\ how = "models")
           /\ ~(result = "not utf-8" /\ how # "models")
           /\ ~(result = "valid" /\ how \in {"messages", "count"})
  BY <1>5, ZenonT(60) DEF Converted
<1>. QED
  BY <1>1, <1>2, <1>3, <1>4, <1>5

LEMMA RejectedReplies ==
    ASSUME NEW how, NEW what \in Rejections(how)
    PROVE  \/ what = ServerError
           \/ \E status \in {400, 401, 404, 413} : what = AnthropicError(status)
BY DEF Rejections

LEMMA AnswerType ==
    ASSUME TypeOK, NEW r \in Requests, NEW what \in Reply, Answer(r, what),
           conn' \in [Requests -> {"none", "open", "closed"}]
    PROVE  TypeOK'
BY DEF TypeOK, Answer, Goto

LEMMA HandleType ==
    ASSUME TypeOK, NEW r \in Requests, Handle(r)
    PROVE  TypeOK'
<1>c. Close(r) => conn' \in [Requests -> {"none", "open", "closed"}]
  BY DEF TypeOK, Close
<1>u. UNCHANGED conn => conn' \in [Requests -> {"none", "open", "closed"}]
  BY DEF TypeOK
<1>1. CASE Reject(r)
  <2>1. \A what \in Rejections(route[r]) : what \in Reply
    BY RejectedReplies, ReplyTypes
  <2>. QED
    BY <1>1, <1>u, <2>1, AnswerType DEF Reject
<1>2. CASE CountLocally(r)
  BY <1>2, <1>u, ReplyTypes, AnswerType DEF CountLocally
<1>3. CASE Send(r)
  BY <1>3 DEF Send, Goto, TypeOK
<1>4. CASE SendFails(r)
  BY <1>4, <1>u, ReplyTypes, AnswerType DEF SendFails
<1>5. CASE Connect(r)
  <2>1. PICK headers \in Headers :
          \/ Close(r) /\ Answer(r, FallbackReply(FALSE))
          \/ /\ conn' = [conn EXCEPT ![r] = "open"]
             /\ Goto(r, StageAfter(route[r], headers))
             /\ UNCHANGED reply
    BY <1>5 DEF Connect
  <2>2. StageAfter(route[r], headers) \in {"prepared", "body", "error body"}
    BY DEF StageAfter, Headers
  <2>3. CASE Close(r) /\ Answer(r, FallbackReply(FALSE))
    <3>1. FallbackReply(FALSE) \in Reply
      BY ReplyTypes, ZenonT(60)
    <3>. QED
      BY <1>c, <2>3, <3>1, AnswerType
  <2>4. CASE /\ conn' = [conn EXCEPT ![r] = "open"]
             /\ Goto(r, StageAfter(route[r], headers))
             /\ UNCHANGED reply
    BY <2>2, <2>4 DEF TypeOK, Goto
  <2>. QED
    BY <2>1, <2>3, <2>4
<1>6. CASE ReadFails(r)
  <2>1. PICK what \in {AnthropicError(502), ServerError} : Close(r) /\ Answer(r, what)
    BY <1>6, ZenonT(60) DEF ReadFails
  <2>. QED
    BY <1>c, <2>1, ReplyTypes, AnswerType
<1>7. CASE ReadTooLarge(r)
  <2>1. PICK status \in {502, Passed} : Close(r) /\ Answer(r, AnthropicError(status))
    BY <1>7, ZenonT(60) DEF ReadTooLarge
  <2>. QED
    BY <1>c, <2>1, ReplyTypes, AnswerType
<1>8. CASE RelayError(r)
  <2>1. Close(r) /\ Answer(r, AnthropicError(Passed))
    BY <1>8 DEF RelayError
  <2>2. AnthropicError(Passed) \in Reply
    BY ReplyTypes
  <2>. QED
    BY <1>c, <2>1, <2>2, AnswerType
<1>9. CASE Convert(r)
  <2>1. PICK result, what : what \in Converted(route[r], result) /\ Close(r) /\ Answer(r, what)
    BY <1>9 DEF Convert
  <2>2. what \in Converted(route[r], result)
    BY <2>1
  <2>3. \/ what = ServerError \/ what = Json
        \/ what = [status |-> 200, shape |-> "events"]
        \/ \E status \in {400, 404, 502} : what = AnthropicError(status)
    BY <2>2, ConvertedReplies
  <2>4. what \in Reply
    BY <2>3, ReplyTypes
  <2>. QED
    BY <1>c, <2>1, <2>4, AnswerType
<1>10. CASE Relay(r)
  BY <1>10, <1>c, ReplyTypes, AnswerType DEF Relay
<1>11. CASE Pull(r)
  <2>. DEFINE what == IF route[r] = "relay" THEN [status |-> Passed, shape |-> "relayed"]
                      ELSE [status |-> 200, shape |-> "events"]
  <2>1. what \in Reply
    BY ReplyTypes
  <2>2. /\ reply' = [reply EXCEPT ![r] = what]
        /\ stage' = [stage EXCEPT ![r] = "streaming"]
        /\ UNCHANGED <<settings, route, conn>>
    BY <1>11 DEF Pull, Goto
  <2>. HIDE DEF what
  <2>3. reply' \in [Requests -> Reply \cup {NoReply}]
    BY <2>1, <2>2 DEF TypeOK
  <2>. QED
    BY <2>2, <2>3 DEF TypeOK
<1>12. CASE StreamEnds(r)
  BY <1>12, <1>c DEF StreamEnds, Goto, TypeOK
<1>13. CASE DropUnstarted(r)
  BY <1>13 DEF DropUnstarted, Goto, TypeOK
<1>. QED
  BY <1>1, <1>2, <1>3, <1>4, <1>5, <1>6, <1>7, <1>8, <1>9, <1>10, <1>11, <1>12, <1>13
     DEF Handle

-----------------------------------------------------------------------------
(* Who holds a connection, and who was answered what.                      *)

\* Nothing was sent, so nothing is held, for a count that needs no upstream.
Local(r) == route[r] = "count" /\ settings.mode # "exact"

\* The strengthening: at each stage of a handler, whether its request holds a
\* connection and whether it was answered.
Holds(r) ==
    CASE stage[r] \in {"accepted", "sending"} -> conn[r] = "none" /\ reply[r] = NoReply
      [] stage[r] \in {"error body", "body", "prepared", "dropped"} ->
            conn[r] = "open" /\ reply[r] = NoReply
      [] stage[r] = "streaming" -> conn[r] = "open"
      [] stage[r] = "done" ->
            /\ conn[r] # "open"
            /\ reply[r].status \in {200, Passed} => conn[r] = "closed" \/ Local(r)

IInv == TypeOK /\ \A r \in Requests : Holds(r)

LEMMA OthersHold ==
    ASSUME NEW r, NEW q, Holds(q), UNCHANGED <<settings, route>>,
           stage'[q] = stage[q], conn'[q] = conn[q], reply'[q] = reply[q]
    PROVE  Holds(q)'
BY DEF Holds, Local

\* A request is over: it holds no connection any more.
LEMMA AnswerHolds ==
    ASSUME TypeOK, NEW r \in Requests, NEW what, Answer(r, what),
           \/ Close(r)
           \/ /\ UNCHANGED conn /\ conn[r] = "none"
              /\ what.status \in {200, Passed} => Local(r)
    PROVE  Holds(r)'
<1>1. stage'[r] = "done" /\ reply'[r] = what /\ UNCHANGED <<settings, route>>
  BY DEF TypeOK, Answer, Goto
<1>2. \/ conn'[r] = "closed"
      \/ conn'[r] = "none" /\ (what.status \in {200, Passed} => Local(r))
  BY DEF TypeOK, Close
<1>. QED
  BY <1>1, <1>2 DEF Holds, Local

LEMMA HandleHolds ==
    ASSUME IInv, NEW r \in Requests, Handle(r)
    PROVE  Holds(r)'
<1>0. TypeOK /\ Holds(r)
  BY DEF IInv
<1>n. stage[r] \in {"accepted", "sending"} => conn[r] = "none" /\ reply[r] = NoReply
  BY <1>0 DEF Holds
<1>o. stage[r] \in {"error body", "body", "prepared"} => conn[r] = "open" /\ reply[r] = NoReply
  BY <1>0 DEF Holds
<1>1. CASE Reject(r)
  <2>1. \A what \in Rejections(route[r]) : what.status \notin {200, Passed}
    BY RejectedReplies, StatusOf DEF Passed
  <2>. QED
    BY <1>0, <1>1, <1>n, <2>1, AnswerHolds DEF Reject
<1>2. CASE CountLocally(r)
  <2>1. LocalCount.status \in {200, Passed} => settings.mode # "exact"
    BY LocalCounts, StatusOf DEF Passed
  <2>. QED
    BY <1>0, <1>2, <1>n, <2>1, AnswerHolds DEF CountLocally, Local
<1>3. CASE Send(r)
  BY <1>0, <1>3, <1>n DEF Send, Goto, Holds, TypeOK
<1>4. CASE SendFails(r)
  <2>1. \A status \in {502, 504} : AnthropicError(status).status \notin {200, Passed}
    BY DEF AnthropicError, Passed
  <2>. QED
    BY <1>0, <1>4, <1>n, <2>1, AnswerHolds DEF SendFails
<1>5. CASE Connect(r)
  <2>1. PICK headers \in Headers :
          \/ Close(r) /\ Answer(r, FallbackReply(FALSE))
          \/ /\ conn' = [conn EXCEPT ![r] = "open"]
             /\ Goto(r, StageAfter(route[r], headers))
             /\ UNCHANGED reply
    BY <1>5 DEF Connect
  <2>2. StageAfter(route[r], headers) \in {"prepared", "body", "error body"}
    BY DEF StageAfter, Headers
  <2>3. reply[r] = NoReply
    BY <1>5, <1>n DEF Connect
  <2>. QED
    BY <1>0, <2>1, <2>2, <2>3, AnswerHolds DEF Goto, Holds, TypeOK
<1>6. CASE ReadFails(r)
  BY <1>0, <1>6, AnswerHolds DEF ReadFails
<1>7. CASE ReadTooLarge(r)
  BY <1>0, <1>7, AnswerHolds DEF ReadTooLarge
<1>8. CASE RelayError(r)
  BY <1>0, <1>8, AnswerHolds DEF RelayError
<1>9. CASE Convert(r)
  BY <1>0, <1>9, AnswerHolds DEF Convert
<1>10. CASE Relay(r)
  BY <1>0, <1>10, AnswerHolds DEF Relay
<1>11. CASE Pull(r)
  <2>1. stage'[r] = "streaming" /\ conn'[r] = "open"
    BY <1>0, <1>11, <1>o DEF Pull, Goto, TypeOK
  <2>. QED
    BY <2>1 DEF Holds
<1>12. CASE StreamEnds(r)
  <2>1. stage'[r] = "done" /\ conn'[r] = "closed"
    BY <1>0, <1>12 DEF StreamEnds, Goto, Close, TypeOK
  <2>. QED
    BY <2>1 DEF Holds
<1>13. CASE DropUnstarted(r)
  <2>1. stage'[r] = "dropped" /\ conn'[r] = "open" /\ reply'[r] = NoReply
    BY <1>0, <1>13, <1>o DEF DropUnstarted, Goto, TypeOK
  <2>. QED
    BY <2>1 DEF Holds
<1>. QED
  BY <1>1, <1>2, <1>3, <1>4, <1>5, <1>6, <1>7, <1>8, <1>9, <1>10, <1>11, <1>12, <1>13
     DEF Handle

\* A step of one handler touches no other request.
LEMMA HandleFrame ==
    ASSUME TypeOK, NEW r \in Requests, Handle(r), NEW q \in Requests, q # r
    PROVE  /\ UNCHANGED <<settings, route>>
           /\ stage'[q] = stage[q] /\ conn'[q] = conn[q] /\ reply'[q] = reply[q]
<1>1. ASSUME NEW what, Answer(r, what), Close(r) \/ UNCHANGED conn
      PROVE  /\ UNCHANGED <<settings, route>>
             /\ stage'[q] = stage[q] /\ conn'[q] = conn[q] /\ reply'[q] = reply[q]
  BY <1>1 DEF TypeOK, Answer, Goto, Close
<1>2. ASSUME NEW next, Goto(r, next),
             \/ conn' = [conn EXCEPT ![r] = "open"] \/ Close(r) \/ UNCHANGED conn,
             UNCHANGED reply
      PROVE  /\ UNCHANGED <<settings, route>>
             /\ stage'[q] = stage[q] /\ conn'[q] = conn[q] /\ reply'[q] = reply[q]
  BY <1>2 DEF TypeOK, Goto, Close
<1>3. CASE Reject(r) \/ CountLocally(r) \/ SendFails(r)
  BY <1>1, <1>3 DEF Reject, CountLocally, SendFails
<1>4. CASE Connect(r)
  BY <1>1, <1>2, <1>4 DEF Connect
<1>5. CASE ReadFails(r) \/ ReadTooLarge(r) \/ RelayError(r) \/ Convert(r) \/ Relay(r)
  BY <1>1, <1>5, ZenonT(60) DEF ReadFails, ReadTooLarge, RelayError, Convert, Relay
<1>6. CASE Send(r) \/ StreamEnds(r) \/ DropUnstarted(r)
  BY <1>2, <1>6 DEF Send, StreamEnds, DropUnstarted
<1>7. CASE Pull(r)
  BY <1>7 DEF TypeOK, Pull, Goto
<1>. QED
  BY <1>3, <1>4, <1>5, <1>6, <1>7 DEF Handle

LEMMA SpecInv == Spec => []IInv
<1>1. Init => IInv
  BY DEF Init, IInv, TypeOK, Holds
<1>2. IInv /\ [Next]_vars => IInv'
  <2>. SUFFICES ASSUME IInv, [Next]_vars PROVE IInv'
    OBVIOUS
  <2>1. ASSUME NEW r \in Requests, Handle(r) PROVE IInv'
    <3>1. TypeOK'
      BY <2>1, HandleType DEF IInv
    <3>2. ASSUME NEW q \in Requests PROVE Holds(q)'
      <4>1. CASE q = r
        BY <2>1, <4>1, HandleHolds
      <4>2. CASE q # r
        BY <2>1, <4>2, HandleFrame, OthersHold DEF IInv
      <4>. QED
        BY <4>1, <4>2
    <3>. QED
      BY <3>1, <3>2 DEF IInv
  <2>2. CASE UNCHANGED vars
    BY <2>2, OthersHold DEF vars, IInv, TypeOK
  <2>. QED
    BY <2>1, <2>2 DEF Next
<1>. QED
  BY <1>1, <1>2, PTL DEF Spec

\* The variables of the handlers keep their types.
THEOREM TypeCorrect == Spec => []TypeOK
<1>1. IInv => TypeOK
  BY DEF IInv
<1>. QED
  BY <1>1, SpecInv, PTL

\* A finished request holds no upstream connection, whichever of its paths it
\* took: answered at once, an upstream error, a body that is too large or breaks
\* off, a stream that ended (the finally clauses of app.py and streaming.py).
THEOREM ConnectionsReturned == Spec => []ConnectionReturned
<1>1. IInv => ConnectionReturned
  BY DEF IInv, Holds, ConnectionReturned
<1>. QED
  BY <1>1, SpecInv, PTL

\* A success is only answered on the strength of an upstream response, or by a
\* token count that may be made without one.
THEOREM SuccessesBacked == Spec => []SuccessBacked
<1>1. IInv => SuccessBacked
  <2>. SUFFICES ASSUME IInv, NEW r \in Requests, reply[r].status \in {200, Passed}
                PROVE  \/ conn[r] = "closed"
                       \/ conn[r] = "open" /\ stage[r] = "streaming"
                       \/ conn[r] = "none" /\ route[r] = "count" /\ settings.mode # "exact"
    BY DEF SuccessBacked
  <2>1. reply[r] # NoReply
    BY DEF NoReply, Passed
  <2>. QED
    BY <2>1 DEF IInv, TypeOK, Holds, Local
<1>. QED
  BY <1>1, SpecInv, PTL
================================================================================
