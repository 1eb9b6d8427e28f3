---------------------------- MODULE BatchProofs ----------------------------
(***************************************************************************)
(* Proofs about Batch, for any number of statements: what the handles and  *)
(* Send's error say, and that a batch does as RoundTrip promises.          *)
(***************************************************************************)
EXTENDS Batch, TLAPS

\* Nothing has happened to a batch that was not sent.
Unsent ==
  ~sent => /\ pc = "build" /\ answer = "none" /\ server = "idle" /\ applied = {}
           /\ failure = "none" /\ executed = {} /\ refused = 0
           /\ \A i \in Places : kind[i] # "late"
           /\ \A i \in Places : handle[i] # "open" => kind[i] = "unrendered"

\* Send is on its way or has answered, and a batch with a rendering error sends nothing.
Answering ==
  /\ sent => (pc = "build" <=> answer # "none")
  /\ pc # "build" \/ server # "idle" => ~BatchErr
  /\ \A i \in Riders \cup Followers : handle[i] # "open" => ~BatchErr

\* The server works through the round trip, which is applied exactly when it is committed.
Serving ==
  /\ executed \subseteq Riders
  /\ applied \subseteq Riders \cup Followers
  /\ refused # 0 => refused \in Riders /\ refused \notin executed /\ server = "aborted"
  /\ server = "idle" => executed = {}
  /\ server = "committed" => Riders \subseteq executed
  /\ \A i \in Riders : i \in applied <=> server = "committed"

\* The handles of the round trip are told in its order, up to the first error.
Reading ==
  /\ \A i \in Riders : handle[i] = "ok" => i \in executed
  /\ \A i, j \in Riders : i < j /\ handle[j] # "open" => handle[i] = "ok"
  /\ \A i \in Riders : handle[i] = "error" => failure # "none"
  /\ pc = "prepare" => server = "idle" /\ \A i \in Riders : handle[i] = "open"
  /\ pc \in {"prepare", "read", "after"} => failure = "none"
  /\ pc \in {"read", "close"} => server # "idle"
  /\ pc = "close" /\ failure = "none" => Open(Riders) = {}

\* What follows the round trip is run when it is through, and until the first error.
Following ==
  /\ pc = "after" \/ answer = "ok" => Riders \subseteq applied /\ server # "running"
  /\ \A i \in Followers :
       handle[i] # "open" \/ i \in applied =>
         /\ failure = "none" /\ Riders \subseteq applied /\ server # "running"
         /\ pc = "after" \/ answer # "none"
  /\ \A i \in Followers : handle[i] = "ok" => i \in applied
  /\ \A i \in Followers : handle[i] = "error" => answer = "error"
  /\ pc = "after" => \A i \in Followers : handle[i] = "open" => i \notin applied
  /\ \A i, j \in Followers : handle[i] = "error" /\ handle[j] = "error" => i = j
  /\ answer = "ok" => Followers \subseteq applied
  /\ applied # {} => server = "committed" \/ Riders = {}

\* After an error of the server's the round trip is not going on.
Failing ==
  /\ failure = "server" => server \in {"idle", "aborted"} /\ pc # "prepare"
  /\ failure # "none" => sent

IInv == TypeOK /\ Unsent /\ Answering /\ Serving /\ Reading /\ Following /\ Failing

\* Nothing is queued at first.
LEMMA IInvInit == Init => IInv
BY BatchAssumption
   DEF Init, IInv, TypeOK, Unsent, Answering, Serving, Reading, Following, Failing, Riders,
       Followers, BatchErr, Open, Of, Places, Kinds

\* Only Queue changes what the statements are.
LEMMA SameStatements ==
  UNCHANGED kind => Riders' = Riders /\ Followers' = Followers /\ BatchErr' = BatchErr /\ Queued' = Queued
BY DEF Riders, Followers, BatchErr, Queued, Of, Kinds, Places

\* Send keeps the invariant.
LEMMA SendKeeps == ASSUME IInv, Send PROVE IInv'
<1> USE BatchAssumption DEF IInv, Send, Returns, AfterRoundTrip, clientVars, serverVars
<1>1. UNCHANGED kind
  OBVIOUS
<1>2. Riders' = Riders /\ Followers' = Followers /\ BatchErr' = BatchErr
  BY <1>1, SameStatements
<1>3. Riders \subseteq Places /\ Followers \subseteq Places /\ Riders \cap Followers = {}
  BY DEF Riders, Followers, Of
<1>4. TypeOK'
  BY <1>1, <1>2, <1>3 DEF TypeOK, Unsent, Answering, Serving, Reading, Following, Failing, Open
<1>5. Unsent'
  BY <1>1, <1>2, <1>3 DEF Unsent, TypeOK, Answering, Serving, Reading, Following, Failing, Open
<1>6. Answering'
  BY <1>1, <1>2, <1>3 DEF Answering, TypeOK, Unsent, Serving, Reading, Following, Failing, Open
<1>7. Serving'
  BY <1>1, <1>2, <1>3 DEF Serving, TypeOK, Unsent, Answering, Reading, Following, Failing, Open
<1>8. Reading'
  BY <1>1, <1>2, <1>3 DEF Reading, TypeOK, Unsent, Answering, Serving, Following, Failing, Open
<1>9. Following'
  BY <1>1, <1>2, <1>3 DEF Following, TypeOK, Unsent, Answering, Serving, Reading, Failing, Open
<1>10. Failing'
  BY <1>1, <1>2, <1>3 DEF Failing, TypeOK, Unsent, Answering, Serving, Reading, Following, Open
<1> QED
  BY <1>4, <1>5, <1>6, <1>7, <1>8, <1>9, <1>10

\* Prepare keeps the invariant.
LEMMA PrepareKeeps == ASSUME IInv, Prepare PROVE IInv'
<1> USE BatchAssumption DEF IInv, Prepare, Returns, clientVars, serverVars
<1>1. UNCHANGED kind
  OBVIOUS
<1>2. Riders' = Riders /\ Followers' = Followers /\ BatchErr' = BatchErr
  BY <1>1, SameStatements
<1>3. Riders \subseteq Places /\ Followers \subseteq Places /\ Riders \cap Followers = {}
  BY DEF Riders, Followers, Of
<1>4. TypeOK'
  BY <1>1, <1>2, <1>3 DEF TypeOK, Unsent, Answering, Serving, Reading, Following, Failing, Open
<1>5. Unsent'
  BY <1>1, <1>2, <1>3 DEF Unsent, TypeOK, Answering, Serving, Reading, Following, Failing, Open
<1>6. Answering'
  BY <1>1, <1>2, <1>3 DEF Answering, TypeOK, Unsent, Serving, Reading, Following, Failing, Open
<1>7. Serving'
  BY <1>1, <1>2, <1>3 DEF Serving, TypeOK, Unsent, Answering, Reading, Following, Failing, Open
<1>8. Reading'
  BY <1>1, <1>2, <1>3 DEF Reading, TypeOK, Unsent, Answering, Serving, Following, Failing, Open
<1>9. Following'
  BY <1>1, <1>2, <1>3 DEF Following, TypeOK, Unsent, Answering, Serving, Reading, Failing, Open
<1>10. Failing'
  BY <1>1, <1>2, <1>3 DEF Failing, TypeOK, Unsent, Answering, Serving, Reading, Following, Open
<1> QED
  BY <1>4, <1>5, <1>6, <1>7, <1>8, <1>9, <1>10

\* ReadResult keeps the invariant.
LEMMA ReadResultKeeps == ASSUME IInv, NEW i \in Places, ReadResult(i) PROVE IInv'
<1> USE BatchAssumption DEF IInv, Places, ReadResult, NextOf, Least, Stops, Told, clientVars, serverVars
<1>1. UNCHANGED kind
  OBVIOUS
<1>2. Riders' = Riders /\ Followers' = Followers /\ BatchErr' = BatchErr
  BY <1>1, SameStatements
<1>3. Riders \subseteq Places /\ Followers \subseteq Places /\ Riders \cap Followers = {}
  BY DEF Riders, Followers, Of
<1>4. TypeOK'
  BY <1>1, <1>2, <1>3 DEF TypeOK, Unsent, Answering, Serving, Reading, Following, Failing, Open
<1>5. Unsent'
  BY <1>1, <1>2, <1>3 DEF Unsent, TypeOK, Answering, Serving, Reading, Following, Failing, Open
<1>6. Answering'
  BY <1>1, <1>2, <1>3 DEF Answering, TypeOK, Unsent, Serving, Reading, Following, Failing, Open
<1>7. Serving'
  BY <1>1, <1>2, <1>3 DEF Serving, TypeOK, Unsent, Answering, Reading, Following, Failing, Open
<1>8. Reading'
  BY <1>1, <1>2, <1>3 DEF Reading, TypeOK, Unsent, Answering, Serving, Following, Failing, Open
<1>9. Following'
  BY <1>1, <1>2, <1>3 DEF Following, TypeOK, Unsent, Answering, Serving, Reading, Failing, Open
<1>10. Failing'
  BY <1>1, <1>2, <1>3 DEF Failing, TypeOK, Unsent, Answering, Serving, Reading, Following, Open
<1> QED
  BY <1>4, <1>5, <1>6, <1>7, <1>8, <1>9, <1>10

\* AllRead keeps the invariant.
LEMMA AllReadKeeps == ASSUME IInv, AllRead PROVE IInv'
<1> USE BatchAssumption DEF IInv, AllRead, clientVars, serverVars
<1>1. UNCHANGED kind
  OBVIOUS
<1>2. Riders' = Riders /\ Followers' = Followers /\ BatchErr' = BatchErr
  BY <1>1, SameStatements
<1>3. Riders \subseteq Places /\ Followers \subseteq Places /\ Riders \cap Followers = {}
  BY DEF Riders, Followers, Of
<1>4. TypeOK'
  BY <1>1, <1>2, <1>3 DEF TypeOK, Unsent, Answering, Serving, Reading, Following, Failing, Open
<1>5. Unsent'
  BY <1>1, <1>2, <1>3 DEF Unsent, TypeOK, Answering, Serving, Reading, Following, Failing, Open
<1>6. Answering'
  BY <1>1, <1>2, <1>3 DEF Answering, TypeOK, Unsent, Serving, Reading, Following, Failing, Open
<1>7. Serving'
  BY <1>1, <1>2, <1>3 DEF Serving, TypeOK, Unsent, Answering, Reading, Following, Failing, Open
<1>8. Reading'
  BY <1>1, <1>2, <1>3 DEF Reading, TypeOK, Unsent, Answering, Serving, Following, Failing, Open
<1>9. Following'
  BY <1>1, <1>2, <1>3 DEF Following, TypeOK, Unsent, Answering, Serving, Reading, Failing, Open
<1>10. Failing'
  BY <1>1, <1>2, <1>3 DEF Failing, TypeOK, Unsent, Answering, Serving, Reading, Following, Open
<1> QED
  BY <1>4, <1>5, <1>6, <1>7, <1>8, <1>9, <1>10

\* Close keeps the invariant.
LEMMA CloseKeeps == ASSUME IInv, Close PROVE IInv'
<1> USE BatchAssumption DEF IInv, Close, Returns, AfterRoundTrip, clientVars, serverVars
<1>1. UNCHANGED kind
  OBVIOUS
<1>2. Riders' = Riders /\ Followers' = Followers /\ BatchErr' = BatchErr
  BY <1>1, SameStatements
<1>3. Riders \subseteq Places /\ Followers \subseteq Places /\ Riders \cap Followers = {}
  BY DEF Riders, Followers, Of
<1>4. TypeOK'
  BY <1>1, <1>2, <1>3 DEF TypeOK, Unsent, Answering, Serving, Reading, Following, Failing, Open
<1>5. Unsent'
  BY <1>1, <1>2, <1>3 DEF Unsent, TypeOK, Answering, Serving, Reading, Following, Failing, Open
<1>6. Answering'
  BY <1>1, <1>2, <1>3 DEF Answering, TypeOK, Unsent, Serving, Reading, Following, Failing, Open
<1>7. Serving'
  BY <1>1, <1>2, <1>3 DEF Serving, TypeOK, Unsent, Answering, Reading, Following, Failing, Open
<1>8. Reading'
  BY <1>1, <1>2, <1>3 DEF Reading, TypeOK, Unsent, Answering, Serving, Following, Failing, Open
<1>9. Following'
  BY <1>1, <1>2, <1>3 DEF Following, TypeOK, Unsent, Answering, Serving, Reading, Failing, Open
<1>10. Failing'
  BY <1>1, <1>2, <1>3 DEF Failing, TypeOK, Unsent, Answering, Serving, Reading, Following, Open
<1> QED
  BY <1>4, <1>5, <1>6, <1>7, <1>8, <1>9, <1>10

\* RunAfter keeps the invariant.
LEMMA RunAfterKeeps == ASSUME IInv, NEW i \in Places, RunAfter(i) PROVE IInv'
<1> USE BatchAssumption DEF IInv, RunAfter, NextOf, Least, Returns, clientVars, serverVars
<1>1. UNCHANGED kind
  OBVIOUS
<1>2. Riders' = Riders /\ Followers' = Followers /\ BatchErr' = BatchErr
  BY <1>1, SameStatements
<1>3. Riders \subseteq Places /\ Followers \subseteq Places /\ Riders \cap Followers = {}
  BY DEF Riders, Followers, Of
<1>4. TypeOK'
  BY <1>1, <1>2, <1>3 DEF TypeOK, Unsent, Answering, Serving, Reading, Following, Failing, Open
<1>5. Unsent'
  BY <1>1, <1>2, <1>3 DEF Unsent, TypeOK, Answering, Serving, Reading, Following, Failing, Open
<1>6. Answering'
  BY <1>1, <1>2, <1>3 DEF Answering, TypeOK, Unsent, Serving, Reading, Following, Failing, Open
<1>7. Serving'
  BY <1>1, <1>2, <1>3 DEF Serving, TypeOK, Unsent, Answering, Reading, Following, Failing, Open
<1>8. Reading'
  BY <1>1, <1>2, <1>3 DEF Reading, TypeOK, Unsent, Answering, Serving, Following, Failing, Open
<1>9. Following'
  BY <1>1, <1>2, <1>3 DEF Following, TypeOK, Unsent, Answering, Serving, Reading, Failing, Open
<1>10. Failing'
  BY <1>1, <1>2, <1>3 DEF Failing, TypeOK, Unsent, Answering, Serving, Reading, Following, Open
<1> QED
  BY <1>4, <1>5, <1>6, <1>7, <1>8, <1>9, <1>10

\* AllSent keeps the invariant.
LEMMA AllSentKeeps == ASSUME IInv, AllSent PROVE IInv'
<1> USE BatchAssumption DEF IInv, AllSent, Returns, clientVars, serverVars
<1>1. UNCHANGED kind
  OBVIOUS
<1>2. Riders' = Riders /\ Followers' = Followers /\ BatchErr' = BatchErr
  BY <1>1, SameStatements
<1>3. Riders \subseteq Places /\ Followers \subseteq Places /\ Riders \cap Followers = {}
  BY DEF Riders, Followers, Of
<1>4. TypeOK'
  BY <1>1, <1>2, <1>3 DEF TypeOK, Unsent, Answering, Serving, Reading, Following, Failing, Open
<1>5. Unsent'
  BY <1>1, <1>2, <1>3 DEF Unsent, TypeOK, Answering, Serving, Reading, Following, Failing, Open
<1>6. Answering'
  BY <1>1, <1>2, <1>3 DEF Answering, TypeOK, Unsent, Serving, Reading, Following, Failing, Open
<1>7. Serving'
  BY <1>1, <1>2, <1>3 DEF Serving, TypeOK, Unsent, Answering, Reading, Following, Failing, Open
<1>8. Reading'
  BY <1>1, <1>2, <1>3 DEF Reading, TypeOK, Unsent, Answering, Serving, Following, Failing, Open
<1>9. Following'
  BY <1>1, <1>2, <1>3 DEF Following, TypeOK, Unsent, Answering, Serving, Reading, Failing, Open
<1>10. Failing'
  BY <1>1, <1>2, <1>3 DEF Failing, TypeOK, Unsent, Answering, Serving, Reading, Following, Open
<1> QED
  BY <1>4, <1>5, <1>6, <1>7, <1>8, <1>9, <1>10

\* Execute keeps the invariant.
LEMMA ExecuteKeeps == ASSUME IInv, NEW i \in Places, Execute(i) PROVE IInv'
<1> USE BatchAssumption DEF IInv, Execute, Least, clientVars, serverVars
<1>1. UNCHANGED kind
  OBVIOUS
<1>2. Riders' = Riders /\ Followers' = Followers /\ BatchErr' = BatchErr
  BY <1>1, SameStatements
<1>3. Riders \subseteq Places /\ Followers \subseteq Places /\ Riders \cap Followers = {}
  BY DEF Riders, Followers, Of
<1>4. TypeOK'
  BY <1>1, <1>2, <1>3 DEF TypeOK, Unsent, Answering, Serving, Reading, Following, Failing, Open
<1>5. Unsent'
  BY <1>1, <1>2, <1>3 DEF Unsent, TypeOK, Answering, Serving, Reading, Following, Failing, Open
<1>6. Answering'
  BY <1>1, <1>2, <1>3 DEF Answering, TypeOK, Unsent, Serving, Reading, Following, Failing, Open
<1>7. Serving'
  BY <1>1, <1>2, <1>3 DEF Serving, TypeOK, Unsent, Answering, Reading, Following, Failing, Open
<1>8. Reading'
  BY <1>1, <1>2, <1>3 DEF Reading, TypeOK, Unsent, Answering, Serving, Following, Failing, Open
<1>9. Following'
  BY <1>1, <1>2, <1>3 DEF Following, TypeOK, Unsent, Answering, Serving, Reading, Failing, Open
<1>10. Failing'
  BY <1>1, <1>2, <1>3 DEF Failing, TypeOK, Unsent, Answering, Serving, Reading, Following, Open
<1> QED
  BY <1>4, <1>5, <1>6, <1>7, <1>8, <1>9, <1>10

\* Commit keeps the invariant.
LEMMA CommitKeeps == ASSUME IInv, Commit PROVE IInv'
<1> USE BatchAssumption DEF IInv, Commit, clientVars, serverVars
<1>1. UNCHANGED kind
  OBVIOUS
<1>2. Riders' = Riders /\ Followers' = Followers /\ BatchErr' = BatchErr
  BY <1>1, SameStatements
<1>3. Riders \subseteq Places /\ Followers \subseteq Places /\ Riders \cap Followers = {}
  BY DEF Riders, Followers, Of
<1>4. TypeOK'
  BY <1>1, <1>2, <1>3 DEF TypeOK, Unsent, Answering, Serving, Reading, Following, Failing, Open
<1>5. Unsent'
  BY <1>1, <1>2, <1>3 DEF Unsent, TypeOK, Answering, Serving, Reading, Following, Failing, Open
<1>6. Answering'
  BY <1>1, <1>2, <1>3 DEF Answering, TypeOK, Unsent, Serving, Reading, Following, Failing, Open
<1>7. Serving'
  BY <1>1, <1>2, <1>3 DEF Serving, TypeOK, Unsent, Answering, Reading, Following, Failing, Open
<1>8. Reading'
  BY <1>1, <1>2, <1>3 DEF Reading, TypeOK, Unsent, Answering, Serving, Following, Failing, Open
<1>9. Following'
  BY <1>1, <1>2, <1>3 DEF Following, TypeOK, Unsent, Answering, Serving, Reading, Failing, Open
<1>10. Failing'
  BY <1>1, <1>2, <1>3 DEF Failing, TypeOK, Unsent, Answering, Serving, Reading, Following, Open
<1> QED
  BY <1>4, <1>5, <1>6, <1>7, <1>8, <1>9, <1>10

\* Abandon keeps the invariant.
LEMMA AbandonKeeps == ASSUME IInv, Abandon PROVE IInv'
<1> USE BatchAssumption DEF IInv, Abandon, clientVars, serverVars
<1>1. UNCHANGED kind
  OBVIOUS
<1>2. Riders' = Riders /\ Followers' = Followers /\ BatchErr' = BatchErr
  BY <1>1, SameStatements
<1>3. Riders \subseteq Places /\ Followers \subseteq Places /\ Riders \cap Followers = {}
  BY DEF Riders, Followers, Of
<1>4. TypeOK'
  BY <1>1, <1>2, <1>3 DEF TypeOK, Unsent, Answering, Serving, Reading, Following, Failing, Open
<1>5. Unsent'
  BY <1>1, <1>2, <1>3 DEF Unsent, TypeOK, Answering, Serving, Reading, Following, Failing, Open
<1>6. Answering'
  BY <1>1, <1>2, <1>3 DEF Answering, TypeOK, Unsent, Serving, Reading, Following, Failing, Open
<1>7. Serving'
  BY <1>1, <1>2, <1>3 DEF Serving, TypeOK, Unsent, Answering, Reading, Following, Failing, Open
<1>8. Reading'
  BY <1>1, <1>2, <1>3 DEF Reading, TypeOK, Unsent, Answering, Serving, Following, Failing, Open
<1>9. Following'
  BY <1>1, <1>2, <1>3 DEF Following, TypeOK, Unsent, Answering, Serving, Reading, Failing, Open
<1>10. Failing'
  BY <1>1, <1>2, <1>3 DEF Failing, TypeOK, Unsent, Answering, Serving, Reading, Following, Open
<1> QED
  BY <1>4, <1>5, <1>6, <1>7, <1>8, <1>9, <1>10

\* LoseLink keeps the invariant.
LEMMA LoseLinkKeeps == ASSUME IInv, LoseLink PROVE IInv'
<1> USE BatchAssumption DEF IInv, LoseLink, clientVars, serverVars
<1>1. UNCHANGED kind
  OBVIOUS
<1>2. Riders' = Riders /\ Followers' = Followers /\ BatchErr' = BatchErr
  BY <1>1, SameStatements
<1>3. Riders \subseteq Places /\ Followers \subseteq Places /\ Riders \cap Followers = {}
  BY DEF Riders, Followers, Of
<1>4. TypeOK'
  BY <1>1, <1>2, <1>3 DEF TypeOK, Unsent, Answering, Serving, Reading, Following, Failing, Open
<1>5. Unsent'
  BY <1>1, <1>2, <1>3 DEF Unsent, TypeOK, Answering, Serving, Reading, Following, Failing, Open
<1>6. Answering'
  BY <1>1, <1>2, <1>3 DEF Answering, TypeOK, Unsent, Serving, Reading, Following, Failing, Open
<1>7. Serving'
  BY <1>1, <1>2, <1>3 DEF Serving, TypeOK, Unsent, Answering, Reading, Following, Failing, Open
<1>8. Reading'
  BY <1>1, <1>2, <1>3 DEF Reading, TypeOK, Unsent, Answering, Serving, Following, Failing, Open
<1>9. Following'
  BY <1>1, <1>2, <1>3 DEF Following, TypeOK, Unsent, Answering, Serving, Reading, Failing, Open
<1>10. Failing'
  BY <1>1, <1>2, <1>3 DEF Failing, TypeOK, Unsent, Answering, Serving, Reading, Following, Open
<1> QED
  BY <1>4, <1>5, <1>6, <1>7, <1>8, <1>9, <1>10

\* Queue keeps the invariant: before Send any statement, after it only refused ones.
LEMMA QueueKeeps == ASSUME IInv, NEW k \in Kinds \cup {"late"}, Queue(k) PROVE IInv'
<1> USE BatchAssumption DEF IInv, clientVars, serverVars
<1>1. PICK i \in Places : /\ kind[i] = "none" /\ kind' = [kind EXCEPT ![i] = k]
                          /\ Answered(i, k)
  BY DEF Queue, Least, Of
<1>2. TypeOK'
  BY <1>1 DEF Queue, TypeOK, Answered, Kinds
<1>3. CASE sent
  <2>1. k = "late"
    BY <1>3 DEF Queue
  <2>2. Riders' = Riders /\ Followers' = Followers /\ BatchErr' = BatchErr
    BY <1>1, <2>1 DEF TypeOK, Riders, Followers, BatchErr, Of
  <2>3. /\ \A j \in Riders \cup Followers : handle'[j] = handle[j]
        /\ UNCHANGED <<sent, pc, answer, failure, server, executed, refused, applied>>
    BY <1>1, <2>1 DEF Queue, Answered, TypeOK, Riders, Followers, Of
  <2>4. Unsent'
    BY <1>3, <2>3 DEF Unsent
  <2>5. Answering' /\ Serving' /\ Following' /\ Failing'
    BY <2>2, <2>3 DEF Answering, Serving, Following, Failing
  <2>6. Reading'
    BY <2>2, <2>3 DEF Reading, Open
  <2> QED
    BY <1>2, <2>4, <2>5, <2>6
<1>4. CASE ~sent
  <2>1. k \in Kinds /\ k # "late"
    BY <1>4 DEF Queue, Kinds
  <2>2. /\ pc' = "build" /\ answer' = "none" /\ server' = "idle" /\ applied' = {}
        /\ failure' = "none" /\ executed' = {} /\ refused' = 0 /\ sent' = FALSE
    BY <1>4 DEF Queue, Unsent
  <2>3. Unsent'
    BY <1>1, <1>4, <2>1, <2>2 DEF Unsent, Answered, TypeOK
  <2>4. \A j \in Riders' \cup Followers' : j \in Places /\ handle'[j] = "open"
    BY <1>2, <2>2, <2>3 DEF Unsent, Riders, Followers, Of, TypeOK
  <2>5. Answering' /\ Serving' /\ Following' /\ Failing'
    BY <2>2, <2>4 DEF Answering, Serving, Following, Failing
  <2>6. Reading'
    BY <2>2, <2>4 DEF Reading, Open
  <2> QED
    BY <1>2, <2>3, <2>5, <2>6
<1> QED
  BY <1>2, <1>3, <1>4 DEF TypeOK

\* Every step keeps the invariant.
LEMMA IInvNext == IInv /\ [Next]_vars => IInv'
<1> SUFFICES ASSUME IInv, [Next]_vars PROVE IInv'
  OBVIOUS
<1>1. CASE \E k \in Kinds \cup {"late"} : Queue(k)
  BY <1>1, QueueKeeps
<1>2. CASE Send \/ LoseLink
  BY <1>2, SendKeeps, LoseLinkKeeps
<1>3. CASE Client
  BY <1>3, PrepareKeeps, ReadResultKeeps, RunAfterKeeps, AllReadKeeps, CloseKeeps, AllSentKeeps
     DEF Client
<1>4. CASE Server
  BY <1>4, ExecuteKeeps, CommitKeeps, AbandonKeeps DEF Server
<1>5. CASE UNCHANGED vars
  <2>1. UNCHANGED <<Riders, Followers, BatchErr, kind, handle>>
    BY <1>5 DEF vars, clientVars, Riders, Followers, BatchErr, Of
  <2> QED
    BY <1>5, <2>1 DEF vars, clientVars, serverVars, IInv, TypeOK, Unsent, Answering, Serving,
       Reading, Following, Failing, Open
<1> QED
  BY <1>1, <1>2, <1>3, <1>4, <1>5 DEF Next

\* The invariant holds throughout.
LEMMA Invariant == Spec => []IInv
BY IInvInit, IInvNext, PTL DEF Spec

\* The variables of a batch keep their types, for any number of statements.
THEOREM TypeCorrect == Spec => []TypeOK
<1>1. IInv => TypeOK
  BY DEF IInv
<1> QED
  BY <1>1, Invariant, PTL

\* A handle tells what happened to its statement: ok only for what was executed, one error at
\* most, and nothing after it is read.
THEOREM HandlesTellTruth == Spec => []HandlesTell
<1>1. IInv => HandlesTell
  <2> SUFFICES ASSUME IInv PROVE HandlesTell
    OBVIOUS
  <2> USE DEF IInv, Reading, Following
  <2>1. ASSUME NEW i \in Queued, NEW j \in Queued, handle[i] = "error", handle[j] = "error",
               ~BatchErr
        PROVE  i = j
    <3>1. Queued = Riders \cup Followers
      BY <2>1 DEF Queued, Riders, Followers, BatchErr, Of, Kinds
    <3>2. i \in Nat /\ j \in Nat
      BY DEF Queued, Of, Places
    <3>3. CASE i \in Riders /\ j \in Riders
      BY <2>1, <3>2, <3>3
    <3> QED
      BY <2>1, <3>1, <3>3
  <2> QED
    BY <2>1 DEF HandlesTell
<1> QED
  BY <1>1, Invariant, PTL

\* After an error of the server's nothing of the batch has taken effect.
THEOREM ServerErrorsUndo == Spec => []ServerErrorUndoes
<1>1. IInv => ServerErrorUndoes
  BY DEF IInv, Serving, Following, Failing, ServerErrorUndoes, Open
<1> QED
  BY <1>1, Invariant, PTL

-----------------------------------------------------------------------------
(* the refinement *)

\* Queueing a statement of the batch, or one that stays out of it.
LEMMA QueueImplements ==
  ASSUME IInv, NEW k \in Kinds \cup {"late"}, Queue(k) PROVE [Promise!Next]_Promise!vars
<1>1. PICK i \in Places : kind[i] = "none" /\ kind' = [kind EXCEPT ![i] = k]
  BY DEF Queue, Least, Of
<1>2. UNCHANGED <<applied, answer>>
  BY DEF Queue, serverVars
<1>3. kind \in [Places -> Kinds \cup {"none", "late"}]
  BY DEF IInv, TypeOK
<1>4. i \notin Riders \cup Followers
  BY <1>1 DEF Riders, Followers, Of
<1>5. CASE k \in {"late", "unrendered"}
  <2>1. Riders' = Riders /\ Followers' = Followers
    BY <1>1, <1>3, <1>5 DEF Riders, Followers, Of
  <2> QED
    BY <1>2, <2>1 DEF Promise!vars
<1>6. CASE k \notin {"late", "unrendered"}
  <2>1. answer = "none" /\ applied = {}
    BY <1>6 DEF Queue, IInv, Unsent
  <2>2. \/ Riders' = Riders \cup {i} /\ Followers' = Followers
        \/ Followers' = Followers \cup {i} /\ Riders' = Riders
    BY <1>1, <1>3, <1>6 DEF Riders, Followers, Of, Kinds
  <2>3. Promise!Queue(i)
    BY <1>2, <1>4, <2>1, <2>2 DEF Promise!Queue
  <2> QED
    BY <1>1, <2>3 DEF Promise!Next
<1> QED
  BY <1>5, <1>6

\* Running what follows the round trip, in order.
LEMMA RunAfterImplements ==
  ASSUME IInv, NEW i \in Places, RunAfter(i) PROVE [Promise!Next]_Promise!vars
<1>1. Riders' = Riders /\ Followers' = Followers
  BY SameStatements DEF RunAfter
<1>2. answer = "none" /\ pc = "after" /\ Riders \subseteq applied
  BY DEF RunAfter, IInv, Following, Answering, Unsent
<1>3. \A j \in Followers : handle[j] = "open" <=> j \notin applied
  BY <1>2 DEF IInv, TypeOK, Following, Followers, Of
<1>4. i \in Followers \ applied /\ \A j \in Followers \ applied : i <= j
  BY <1>3 DEF RunAfter, NextOf, Least, Open
<1>5. CASE applied' = applied \cup {i} /\ answer' \in {"none", "error"}
  BY <1>1, <1>2, <1>4, <1>5 DEF Promise!Follow, Promise!Next
<1>6. CASE applied' = applied /\ answer' = "error"
  BY <1>1, <1>2, <1>6 DEF Promise!Answer, Promise!Next
<1> QED
  BY <1>2, <1>5, <1>6 DEF RunAfter, Returns

\* Send's error, or nil when all is done.
LEMMA AnswerImplements ==
  ASSUME IInv, Send \/ Prepare \/ Close \/ AllSent PROVE [Promise!Next]_Promise!vars
<1>1. UNCHANGED <<kind, applied>>
  BY DEF Send, Prepare, Close, AllSent, serverVars
<1>2. Riders' = Riders /\ Followers' = Followers
  BY <1>1, SameStatements
<1>3. CASE UNCHANGED answer
  BY <1>1, <1>2, <1>3 DEF Promise!vars
<1>4. CASE answer' = "error" /\ answer = "none"
  BY <1>1, <1>2, <1>4 DEF Promise!Answer, Promise!Next
<1>5. CASE AllSent
  <2>1. pc = "after" /\ answer' = "ok" /\ answer = "none"
    BY <1>5 DEF AllSent, Returns, IInv, Answering, Unsent
  <2>2. Riders \subseteq applied /\ applied \subseteq Riders \cup Followers
    BY <2>1 DEF IInv, Following, Serving
  <2>3. Followers \subseteq applied
    BY <1>5, <2>1 DEF AllSent, Open, IInv, Following, TypeOK, Followers, Of
  <2> QED
    BY <1>1, <1>2, <2>1, <2>2, <2>3 DEF Promise!Answer, Promise!Next
<1>6. CASE Send
  BY <1>3, <1>4, <1>6 DEF Send, Returns, AfterRoundTrip, IInv, Unsent
<1>7. CASE Prepare \/ Close
  <2>1. answer = "none"
    BY <1>7 DEF Prepare, Close, IInv, Answering, Unsent
  <2> QED
    BY <1>3, <1>4, <1>7, <2>1 DEF Prepare, Close, Returns, AfterRoundTrip
<1> QED
  BY <1>5, <1>6, <1>7

\* The commit is where the round trip takes effect.
LEMMA CommitImplements == ASSUME IInv, Commit PROVE [Promise!Next]_Promise!vars
<1>1. Riders' = Riders /\ Followers' = Followers /\ UNCHANGED answer
  BY SameStatements DEF Commit, clientVars
<1>2. CASE applied' = applied
  BY <1>1, <1>2 DEF Promise!vars
<1>3. CASE applied' = Riders /\ applied' # applied
  <2>1. answer # "ok"
    BY DEF Commit, IInv, Following
  <2>2. applied = {}
    BY DEF Commit, IInv, Following, Serving
  <2> QED
    BY <1>1, <1>3, <2>1, <2>2 DEF Promise!All, Promise!Next
<1> QED
  BY <1>2, <1>3 DEF Commit

\* A batch implements its promise: together or not at all, then one by one, nil only for all.
THEOREM Keeps == Spec => KeepsPromise
<1>1. Init => Promise!Init
  BY DEF Init, Promise!Init, Riders, Followers, Of
<1>2. IInv /\ [Next]_vars => [Promise!Next]_Promise!vars
  <2> SUFFICES ASSUME IInv, [Next]_vars PROVE [Promise!Next]_Promise!vars
    OBVIOUS
  <2>1. CASE \E k \in Kinds \cup {"late"} : Queue(k)
    BY <2>1, QueueImplements
  <2>2. CASE Send \/ Prepare \/ Close \/ AllSent
    BY <2>2, AnswerImplements
  <2>3. CASE \E i \in Places : RunAfter(i)
    BY <2>3, RunAfterImplements
  <2>4. CASE Commit
    BY <2>4, CommitImplements
  <2>5. CASE \/ UNCHANGED vars \/ LoseLink \/ AllRead \/ Abandon
             \/ \E i \in Places : ReadResult(i) \/ Execute(i)
    <3>1. UNCHANGED <<kind, applied, answer>>
      BY <2>5 DEF vars, clientVars, serverVars, LoseLink, AllRead, Abandon, ReadResult, Execute
    <3> QED
      BY <3>1, SameStatements DEF Promise!vars
  <2> QED
    BY <2>1, <2>2, <2>3, <2>4, <2>5 DEF Next, Client, Server
<1> QED
  BY <1>1, <1>2, Invariant, PTL DEF Spec, Promise!Spec, KeepsPromise
=============================================================================
