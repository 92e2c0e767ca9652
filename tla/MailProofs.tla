----------------------------- MODULE MailProofs -----------------------------
(***************************************************************************)
(* Proofs about Mail, for any number of mails, connections and attempts.   *)
(***************************************************************************)
EXTENDS Mail, FiniteSetTheorems, SequenceTheorems, TLAPS

-----------------------------------------------------------------------------
(* What a message is. *)

LEMMA AppendOne ==
  ASSUME NEW S, NEW g \in Seq(S), NEW h \in Seq(S), NEW e \in S,
         Len(h) = Len(g) + 1, h[Len(g) + 1] = e, \A k \in 1 .. Len(g) : h[k] = g[k]
  PROVE  Append(g, e) = h
  <1>1. /\ Append(g, e) \in Seq(S) /\ Len(Append(g, e)) = Len(g) + 1
        /\ \A k \in 1 .. Len(g) : Append(g, e)[k] = g[k]
        /\ Append(g, e)[Len(g) + 1] = e
    BY AppendProperties
  <1>2. Len(g) \in Nat
    BY LenProperties
  <1>3. ASSUME NEW k \in 1 .. Len(Append(g, e)) PROVE Append(g, e)[k] = h[k]
    <2>1. CASE k \in 1 .. Len(g)
      BY <1>1, <2>1
    <2>2. CASE k = Len(g) + 1
      BY <1>1, <2>2
    <2> QED
      BY <1>1, <1>2, <2>1, <2>2
  <1> QED
    BY <1>1, <1>3, SeqEqual

LEMMA FramesGrow ==
  ASSUME NEW m \in Mails, NEW n \in Nat
  PROVE  /\ Frames(m, 0) = <<>>
         /\ Frames(m, n) \in Seq(Mails \X Nat)
         /\ Append(Frames(m, n), <<m, n + 1>>) = Frames(m, n + 1)
  <1>1. Frames(m, 0) = <<>>
    BY DEF Frames
  <1>2. \A j \in Nat : Frames(m, j) \in Seq(Mails \X Nat) /\ Len(Frames(m, j)) = j
    BY DEF Frames
  <1>3. Append(Frames(m, n), <<m, n + 1>>) = Frames(m, n + 1)
    <2>1. <<m, n + 1>> \in Mails \X Nat /\ n + 1 \in Nat
      OBVIOUS
    <2>2. \A k \in 1 .. n : Frames(m, n + 1)[k] = Frames(m, n)[k]
      BY DEF Frames
    <2>3. Frames(m, n + 1)[n + 1] = <<m, n + 1>>
      BY DEF Frames
    <2> DEFINE g == Frames(m, n)  h == Frames(m, n + 1)  e == <<m, n + 1>>
    <2> HIDE DEF g, h, e
    <2>4. g \in Seq(Mails \X Nat) /\ h \in Seq(Mails \X Nat) /\ e \in Mails \X Nat
      BY <1>2, <2>1 DEF g, h, e
    <2>5. Len(g) = n /\ Len(h) = n + 1
      BY <1>2, <2>1 DEF g, h
    <2>6. h[Len(g) + 1] = e /\ \A k \in 1 .. Len(g) : h[k] = g[k]
      BY <2>2, <2>3, <2>5 DEF g, h, e
    <2>7. Append(g, e) = h
      BY <2>4, <2>5, <2>6, AppendOne
    <2> QED
      BY <2>7 DEF g, h, e
  <1> QED
    BY <1>1, <1>2, <1>3

\* What was gathered frame by frame is the mail.
LEMMA GatheredIsWhole ==
  ASSUME Shapes, NEW c \in Conns, NEW m \in Mails,
         state[c].rcpts = {m}, state[c].headers = <<m>>, ~state[c].tooLarge,
         state[c].body = Frames(m, Chunks[m])
  PROVE  state[c] = Whole(m)
  <1>1. state[c] \in Messages
    BY DEF Shapes
  <1>2. Whole(m) = [rcpts |-> {m}, headers |-> <<m>>, body |-> Frames(m, Chunks[m]),
                    tooLarge |-> FALSE]
    BY DEF Whole, Frames
  <1> QED
    BY <1>1, <1>2 DEF Messages

\* Only an invitation that this server has not made goes further.
LEMMA InvitationsOnly ==
  ASSUME NEW m \in Mails, NEW msg, msg.headers = <<m>>, IsForwarded(msg)
  PROVE  m \in Itip \ Outgoing
  <1>1. m \notin Outgoing
    BY DEF IsForwarded, IsAutoSubmitted, ToSet
  <1>2. m \in Itip
    BY DEF IsForwarded, ExtractPayload, CalendarPart
  <1> QED
    BY <1>1, <1>2

LEMMA StoredAreInvitations ==
  ASSUME NEW m \in Mails
  PROVE  /\ Verdict(m) = "store" <=> m \in Itip \ Outgoing
         /\ Verdict(m) \in {"ok", "invalid", "store"}
  <1>1. IsAutoSubmitted(Whole(m)) <=> m \in Outgoing
    BY DEF IsAutoSubmitted, Whole, ToSet
  <1>2. ExtractPayload(Whole(m)) <=> m \in Itip
    BY DEF ExtractPayload, CalendarPart, Whole
  <1> QED
    BY <1>1, <1>2 DEF Verdict

-----------------------------------------------------------------------------
(* Type correctness, and what the milter has gathered. *)

LEMMA InitIInv == Init => IInv
  <1> SUFFICES ASSUME Init PROVE IInv
    OBVIOUS
  <1>1. Shapes
    BY MailAssumption DEF Init, Shapes, Closed, Empty, Talks, Messages
  <1>2. ForwardsWholeMails /\ \A c \in Conns : Gathered(c)
    BY DEF Init, ForwardsWholeMails, Gathered, Closed
  <1>3. CopiesAreCounted
    <2>1. \A m \in Mails : Pending(m) = {}
      BY MailAssumption DEF Init, Pending, Closed
    <2> QED
      BY <2>1, FS_EmptySet DEF Init, CopiesAreCounted
  <1>4. ToldTheTruth
    BY MailAssumption DEF Init, ToldTheTruth
  <1> QED
    BY <1>1, <1>2, <1>3, <1>4 DEF IInv

LEMMA MailOnTheWay ==
  ASSUME IInv, NEW c \in Conns
  PROVE  /\ mta[c].at \in {"rcpt", "header", "body", "eob"} => mta[c].mail \in Mails
         /\ mta[c].mail # Nobody => Route[mta[c].mail] = "milter"
         /\ mta[c].sent \in Nat
  BY DEF IInv, Shapes, Gathered, Talks

\* The steps of one conversation.
MilterStep(c) ==
  OptNeg(c) \/ Converse(c) \/ Abort(c) \/ Quit(c)

\* What a conversation becomes.
LEMMA TalkFields ==
  ASSUME NEW t \in Talks, NEW x \in {"ready", "rcpt", "header", "body", "eob"},
         NEW m \in Mails \cup {Nobody}
  PROVE  /\ [t EXCEPT !.at = x] \in Talks
         /\ [t EXCEPT !.at = x, !.mail = m] \in Talks
         /\ [t EXCEPT !.at = x, !.mail = m, !.sent = 0] \in Talks
         /\ [t EXCEPT !.sent = @ + 1] \in Talks
  <1>1. [t EXCEPT !.at = x] \in Talks
    BY DEF Talks
  <1>2. [t EXCEPT !.at = x, !.mail = m] \in Talks
    BY DEF Talks
  <1>3. [t EXCEPT !.at = x, !.mail = m, !.sent = 0] \in Talks
    BY DEF Talks
  <1>4. [t EXCEPT !.sent = @ + 1] \in Talks
    BY DEF Talks
  <1> QED BY <1>1, <1>2, <1>3, <1>4

\* Everything that happens to mta[c].
LEMMA TalkShape ==
  ASSUME mta \in [Conns -> Talks], NEW c \in Conns,
         NEW x \in {"ready", "rcpt", "header", "body", "eob"},
         NEW m \in Mails \cup {Nobody}, NEW b \in BOOLEAN,
         \/ mta' = mta
         \/ mta' = [mta EXCEPT ![c].at = x]
         \/ mta' = [mta EXCEPT ![c].at = x, ![c].mail = m]
         \/ mta' = [mta EXCEPT ![c].at = x, ![c].mail = m, ![c].sent = 0]
         \/ mta' = [mta EXCEPT ![c].sent = @ + 1]
         \/ mta' = [mta EXCEPT ![c] = Closed]
         \/ mta' = [mta EXCEPT ![c] = [Closed EXCEPT !.at = x, !.tellsMail = b]]
  PROVE  mta' \in [Conns -> Talks]
  <1>1. CASE mta' = mta
    BY <1>1
  <1>2. CASE mta' = [mta EXCEPT ![c].at = x]
    BY <1>2 DEF Talks
  <1>3. CASE mta' = [mta EXCEPT ![c].at = x, ![c].mail = m]
    <2>1. mta' = [mta EXCEPT ![c] = [@ EXCEPT !.at = x, !.mail = m]]
      BY <1>3 DEF Talks
    <2>2. [mta[c] EXCEPT !.at = x, !.mail = m] \in Talks
      BY TalkFields
    <2> QED
      BY <2>1, <2>2
  <1>4. CASE mta' = [mta EXCEPT ![c].at = x, ![c].mail = m, ![c].sent = 0]
    <2>1. mta' = [mta EXCEPT ![c] = [@ EXCEPT !.at = x, !.mail = m, !.sent = 0]]
      BY <1>4 DEF Talks
    <2>2. [mta[c] EXCEPT !.at = x, !.mail = m, !.sent = 0] \in Talks
      BY TalkFields
    <2> QED
      BY <2>1, <2>2
  <1>5. CASE mta' = [mta EXCEPT ![c].sent = @ + 1]
    BY <1>5 DEF Talks
  <1>6. CASE mta' = [mta EXCEPT ![c] = Closed]
    <2>1. Closed \in Talks
      BY DEF Closed, Talks
    <2> QED
      BY <1>6, <2>1
  <1>7. CASE mta' = [mta EXCEPT ![c] = [Closed EXCEPT !.at = x, !.tellsMail = b]]
    <2>1. [Closed EXCEPT !.at = x, !.tellsMail = b] \in Talks
      BY DEF Closed, Talks
    <2> QED
      BY <1>7, <2>1
  <1> QED
    BY <1>1, <1>2, <1>3, <1>4, <1>5, <1>6, <1>7

LEMMA MilterTalks ==
  ASSUME IInv, NEW c \in Conns, MilterStep(c)
  PROVE  mta' \in [Conns -> Talks]
  <1>1. mta \in [Conns -> Talks]
    BY DEF IInv, Shapes
  <1>2. CASE OptNeg(c)
    BY <1>1, <1>2, TalkShape DEF OptNeg
  <1>3. ASSUME NEW m \in Mails, StartMail(c, m) PROVE mta' \in [Conns -> Talks]
    BY <1>1, <1>3, TalkShape DEF StartMail
  <1>4. CASE Rcpt(c) \/ Header(c) \/ Body(c) \/ BodyEob(c)
    BY <1>1, <1>4, TalkShape DEF Rcpt, Header, Body, BodyEob
  <1>5. CASE Deliver(c) \/ Abort(c) \/ Quit(c)
    BY <1>1, <1>5, TalkShape DEF Deliver, Accept, Abort, Quit
  <1> QED
    BY <1>2, <1>3, <1>4, <1>5 DEF MilterStep, Converse

LEMMA MilterMessages ==
  ASSUME IInv, NEW c \in Conns, MilterStep(c)
  PROVE  state' \in [Conns -> Messages]
  <1>1. state \in [Conns -> Messages] /\ state[c] \in Messages
    BY DEF IInv, Shapes
  <1>2. Empty \in Messages
    BY DEF Empty, Messages
  <1>3. ASSUME NEW s \in Messages, state' = [state EXCEPT ![c] = s]
        PROVE  state' \in [Conns -> Messages]
    BY <1>1, <1>3
  <1>4. CASE Rcpt(c)
    <2>1. mta[c].mail \in Mails
      BY <1>4, MailOnTheWay DEF Rcpt
    <2> QED
      BY <1>1, <1>4, <2>1 DEF Rcpt, Messages
  <1>5. CASE Header(c)
    <2>1. mta[c].mail \in Mails
      BY <1>5, MailOnTheWay DEF Header
    <2> DEFINE h == IF state[c].tooLarge THEN state[c].headers
                    ELSE Append(state[c].headers, mta[c].mail)
    <2>2. h \in Seq(Mails)
      BY <1>1, <2>1, AppendProperties DEF Messages
    <2>3. state' = [state EXCEPT ![c].headers = h]
      BY <1>5 DEF Header
    <2> HIDE DEF h
    <2> QED
      BY <1>1, <2>2, <2>3 DEF Messages
  <1>6. CASE Body(c)
    <2>1. <<mta[c].mail, mta[c].sent + 1>> \in Mails \X Nat
      BY <1>6, MailOnTheWay DEF Body
    <2>2. state[c].body \in Seq(Mails \X Nat)
      BY <1>1 DEF Messages
    <2>3. Append(state[c].body, <<mta[c].mail, mta[c].sent + 1>>) \in Seq(Mails \X Nat)
      BY <2>1, <2>2, AppendProperties
    <2>4. ASSUME NEW b \in Seq(Mails \X Nat)
          PROVE  /\ [state[c] EXCEPT !.body = b] \in Messages
                 /\ [state[c] EXCEPT !.tooLarge = TRUE, !.body = b] \in Messages
      BY <1>1 DEF Messages
    <2>5. <<>> \in Seq(Mails \X Nat)
      OBVIOUS
    <2> DEFINE Grown == Append(state[c].body, <<mta[c].mail, mta[c].sent + 1>>)
               Nothing == <<>>
    <2>6. /\ [state[c] EXCEPT !.body = Grown] \in Messages
          /\ [state[c] EXCEPT !.tooLarge = TRUE, !.body = Nothing] \in Messages
      <3> HIDE DEF Grown, Nothing
      <3> QED
        BY <2>3, <2>4, <2>5 DEF Grown, Nothing
    <2>7. \/ state' = [state EXCEPT ![c] = state[c]]
          \/ state' = [state EXCEPT ![c] = [state[c] EXCEPT !.body = Grown]]
          \/ state' = [state EXCEPT ![c] = [state[c] EXCEPT !.tooLarge = TRUE, !.body = Nothing]]
      <3>1. CASE state[c].tooLarge
        BY <1>6, <3>1 DEF Body
      <3>2. CASE ~state[c].tooLarge /\ Len(state[c].body) + 1 > MaxChunks
        BY <1>6, <3>2 DEF Body
      <3>3. CASE ~state[c].tooLarge /\ ~(Len(state[c].body) + 1 > MaxChunks)
        BY <1>6, <3>3 DEF Body
      <3> QED
        BY <3>1, <3>2, <3>3
    <2> HIDE DEF Grown, Nothing
    <2> QED
      BY <1>1, <1>3, <2>6, <2>7
  <1>7. ASSUME NEW m \in Mails, StartMail(c, m) PROVE state' \in [Conns -> Messages]
    BY <1>1, <1>2, <1>7 DEF StartMail
  <1>8. CASE OptNeg(c) \/ BodyEob(c) \/ Deliver(c) \/ Abort(c) \/ Quit(c)
    BY <1>1, <1>2, <1>8 DEF OptNeg, BodyEob, Deliver, Accept, Abort, Quit
  <1> QED
    BY <1>4, <1>5, <1>6, <1>7, <1>8 DEF MilterStep, Converse

LEMMA MilterShapes ==
  ASSUME IInv, NEW c \in Conns, MilterStep(c)
  PROVE  Shapes'
  <1>1. mta[c].at \in {"rcpt", "header", "body", "eob"} => mta[c].mail \in Mails
    BY MailOnTheWay
  <1>2. mta[c].at \in {"closed", "ready", "rcpt", "header", "body", "eob"}
    BY DEF IInv, Shapes, Talks
  <1>3. mta[c].mail \in Mails \cup {Nobody} /\ handling[c] \in Mails \cup {Nobody}
    BY DEF IInv, Shapes, Talks
  <1>4. /\ queue' \in [Mails -> {"unsent", "new", "busy", "done", "bounced"}]
        /\ handling' \in [Conns -> Mails \cup {Nobody}]
        /\ UNCHANGED <<answer, status>>
        /\ inbox' \in [Mails -> Nat] /\ attempts' \in [Mails -> Nat]
    <2> USE <1>1, <1>3 DEF IInv, Shapes, Return
    <2>1. CASE OptNeg(c)      BY <2>1 DEF OptNeg
    <2>2. CASE \E m \in Mails : StartMail(c, m)
      BY <2>2 DEF StartMail, HandOver
    <2>3. CASE Rcpt(c)        BY <2>3 DEF Rcpt
    <2>4. CASE Header(c)      BY <2>4 DEF Header
    <2>5. CASE Body(c)        BY <2>5 DEF Body
    <2>6. CASE BodyEob(c)     BY <2>6 DEF BodyEob
    <2>7. CASE Deliver(c)     BY <2>7 DEF Deliver, StorePayload, Accept
    <2>8. CASE Abort(c)       BY <2>8 DEF Abort
    <2>9. CASE Quit(c)        BY <2>9, <1>2 DEF Quit
    <2> QED
      BY <2>1, <2>2, <2>3, <2>4, <2>5, <2>6, <2>7, <2>8, <2>9 DEF MilterStep, Converse
  <1> QED
    BY <1>4, MilterTalks, MilterMessages DEF IInv, Shapes

\* The steps that no milter sees.
OtherStep ==
  \/ \E m \in Mails : HandleData(m) \/ ImportImip(m) \/ HearAnswer(m)
  \/ \E m \in Outgoing : Send(m) \/ SendReturns(m)

\* A message that came in by LMTP or by the command, and what became of it.
Received(m) == HandleData(m) \/ ImportImip(m)

LEMMA ReceivedIsCounted ==
  ASSUME Shapes, NEW m \in Mails, Received(m)
  PROVE  /\ Route[m] # "milter"
         /\ UNCHANGED <<mta, state, handling, status, forwarded>>
         /\ queue' = [queue EXCEPT ![m] = "busy"]
         /\ attempts' = [attempts EXCEPT ![m] = @ + 1]
         /\ \E r \in {"ok", "invalid", "failed"} :
              /\ answer' = [answer EXCEPT ![m] = r]
              /\ m \notin Itip \ Outgoing => inbox' = inbox
              /\ m \in Itip \ Outgoing =>
                   \/ r = "failed" /\ inbox' = inbox
                   \/ r \in {"ok", "failed"} /\ inbox' = [inbox EXCEPT ![m] = @ + 1]
  <1>1. /\ Verdict(m) = "store" <=> m \in Itip \ Outgoing
        /\ Verdict(m) \in {"ok", "invalid", "store"}
    BY StoredAreInvitations
  <1>2. /\ Route[m] # "milter"
        /\ UNCHANGED <<mta, state, handling, status, forwarded>>
        /\ queue' = [queue EXCEPT ![m] = "busy"]
        /\ attempts' = [attempts EXCEPT ![m] = @ + 1]
    BY DEF Received, HandleData, ImportImip, HandOver
  <1>3. CASE Verdict(m) # "store"
    <2>1. answer' = [answer EXCEPT ![m] = Verdict(m)] /\ inbox' = inbox
      BY <1>3 DEF Received, HandleData, ImportImip, Answer
    <2> QED
      BY <1>1, <1>2, <1>3, <2>1
  <1>4. CASE Verdict(m) = "store"
    <2>1. \E r \in {"ok", "failed"} :
            /\ answer' = [answer EXCEPT ![m] = r]
            /\ \/ r = "failed" /\ inbox' = inbox
               \/ inbox' = [inbox EXCEPT ![m] = @ + 1]
      BY <1>4 DEF Received, HandleData, ImportImip, PostToServer, StorePayload, Answer
    <2> QED
      BY <1>1, <1>2, <1>4, <2>1
  <1> QED
    BY <1>3, <1>4

LEMMA OtherShapes ==
  ASSUME IInv, OtherStep
  PROVE  Shapes' /\ UNCHANGED <<mta, state, handling, forwarded>>
  <1>1. Shapes
    BY DEF IInv
  <1>2. ASSUME NEW m \in Mails, Received(m)
        PROVE  Shapes' /\ UNCHANGED <<mta, state, handling, forwarded>>
    <2>1. queue' \in [Mails -> {"unsent", "new", "busy", "done", "bounced"}]
          /\ attempts' \in [Mails -> Nat] /\ inbox' \in [Mails -> Nat]
          /\ answer' \in [Mails -> {"none", "ok", "invalid", "failed"}]
      BY <1>1, <1>2, ReceivedIsCounted DEF Shapes
    <2> QED
      BY <1>1, <1>2, <2>1, ReceivedIsCounted DEF Shapes
  <1>3. ASSUME NEW m \in Mails, HearAnswer(m)
        PROVE  Shapes' /\ UNCHANGED <<mta, state, handling, forwarded>>
    BY <1>1, <1>3 DEF HearAnswer, Return, Shapes, server
  <1>4. ASSUME NEW m \in Outgoing, Send(m) \/ SendReturns(m)
        PROVE  Shapes' /\ UNCHANGED <<mta, state, handling, forwarded>>
    BY <1>1, <1>4, MailAssumption DEF Send, SendReturns, Return, Shapes, server
  <1> QED
    BY <1>2, <1>3, <1>4 DEF OtherStep, Received

-----------------------------------------------------------------------------
(* What the milter forwards. *)

\* A conversation whose mail is over: nothing of it stays.
LEMMA FreshIsGathered ==
  ASSUME NEW c \in Conns, mta'[c].mail = Nobody, handling'[c] = Nobody,
         \/ mta'[c].at = "closed"
         \/ mta'[c].at = "ready" /\ state'[c] = Empty
  PROVE  Gathered(c)'
  BY DEF Gathered

LEMMA MilterGathers ==
  ASSUME IInv, NEW c \in Conns, MilterStep(c)
  PROVE  Gathered(c)' /\ ForwardsWholeMails'
  <1>1. /\ mta \in [Conns -> Talks] /\ state \in [Conns -> Messages]
        /\ handling \in [Conns -> Mails \cup {Nobody}] /\ Gathered(c)
        /\ mta[c].at \in {"closed", "ready", "rcpt", "header", "body", "eob"}
    BY DEF IInv, Shapes, Talks
  <1>2. CASE OptNeg(c)
    <2>1. mta'[c].mail = Nobody /\ mta'[c].at = "ready" /\ state'[c] = Empty
      BY <1>1, <1>2 DEF OptNeg, Closed
    <2> QED
      BY <1>2, <2>1, FreshIsGathered DEF OptNeg, IInv, ForwardsWholeMails
  <1>3. ASSUME NEW m \in Mails, StartMail(c, m) PROVE Gathered(c)' /\ ForwardsWholeMails'
    <2>1. /\ mta'[c].mail = m /\ mta'[c].at = "rcpt" /\ mta'[c].sent = 0
          /\ Route[m] = "milter"
      BY <1>1, <1>3 DEF StartMail, Talks
    <2>2. state'[c] = Empty
      BY <1>1, <1>3 DEF StartMail, Gathered
    <2>3. handling'[c] = Nobody
      BY <1>1, <1>3 DEF StartMail, Gathered
    <2> QED
      BY <1>3, <2>1, <2>2, <2>3, MailAssumption
      DEF Gathered, StartMail, IInv, ForwardsWholeMails
  <1>4. CASE Rcpt(c)
    <2>1. /\ mta'[c].mail = mta[c].mail /\ mta'[c].at = "header" /\ mta[c].at = "rcpt"
          /\ mta'[c].sent = mta[c].sent
      BY <1>1, <1>4 DEF Rcpt, Talks
    <2>2. state'[c] = [Empty EXCEPT !.rcpts = {mta[c].mail}]
      <3>1. state[c] = Empty
        BY <1>1, <2>1 DEF Gathered
      <3>2. state'[c] = [state[c] EXCEPT !.rcpts = state[c].rcpts \cup {mta[c].mail}]
        BY <1>1, <1>4 DEF Rcpt
      <3>3. Empty.rcpts \cup {mta[c].mail} = {mta[c].mail}
        BY DEF Empty
      <3> QED
        BY <3>1, <3>2, <3>3
    <2> QED
      BY <1>1, <1>4, <2>1, <2>2 DEF Gathered, Rcpt, IInv, ForwardsWholeMails
  <1>5. CASE Header(c)
    <2> DEFINE m == mta[c].mail
    <2>1. /\ mta'[c].mail = m /\ mta'[c].at = "body" /\ mta[c].at = "header"
          /\ mta'[c].sent = mta[c].sent
      BY <1>1, <1>5 DEF Header, Talks
    <2>2. state[c] = [Empty EXCEPT !.rcpts = {m}] /\ m \in Mails /\ mta[c].sent = 0
      BY <1>1, <2>1, MailOnTheWay DEF Gathered
    <2>3. /\ state[c].rcpts = {m} /\ state[c].headers = <<>> /\ state[c].body = <<>>
          /\ ~state[c].tooLarge
      BY <2>2 DEF Empty
    <2>4. state'[c] = [state[c] EXCEPT !.headers = Append(state[c].headers, m)]
      BY <1>1, <1>5, <2>3 DEF Header
    <2>5. Append(<<>>, m) = <<m>>
      OBVIOUS
    <2>6. /\ state'[c].rcpts = {m} /\ state'[c].headers = <<m>>
          /\ state'[c].body = Frames(m, 0)
      BY <1>1, <2>2, <2>3, <2>4, <2>5, FramesGrow DEF Messages
    <2> HIDE DEF m
    <2> QED
      BY <1>1, <1>5, <2>1, <2>2, <2>6
      DEF Gathered, Header, IInv, ForwardsWholeMails, m
  <1>6. CASE Body(c)
    <2> DEFINE m == mta[c].mail
               n == mta[c].sent
    <2>1. /\ mta'[c].mail = m /\ mta'[c].at = "body" /\ mta[c].at = "body"
          /\ mta'[c].sent = n + 1
      BY <1>1, <1>6 DEF Body, Talks
    <2>2. m \in Mails /\ n \in Nat /\ handling[c] = Nobody
      BY <1>1, <2>1, MailOnTheWay DEF Gathered
    <2>3. /\ state[c].rcpts = {m} /\ state[c].headers = <<m>>
          /\ ~state[c].tooLarge => state[c].body = Frames(m, n)
      BY <1>1, <2>1 DEF Gathered
    <2>4. /\ state'[c].rcpts = {m} /\ state'[c].headers = <<m>>
          /\ ~state'[c].tooLarge => state'[c].body = Frames(m, n + 1)
      <3>1. CASE state[c].tooLarge
        BY <1>1, <1>6, <2>3, <3>1 DEF Body
      <3>2. CASE ~state[c].tooLarge /\ Len(state[c].body) + 1 > MaxChunks
        <4>1. state'[c] = [state[c] EXCEPT !.tooLarge = TRUE, !.body = <<>>]
          BY <1>1, <1>6, <3>2 DEF Body
        <4> QED
          BY <1>1, <2>3, <4>1 DEF Messages
      <3>3. CASE ~state[c].tooLarge /\ ~(Len(state[c].body) + 1 > MaxChunks)
        <4>1. state'[c] = [state[c] EXCEPT !.body = Append(state[c].body, <<m, n + 1>>)]
          BY <1>1, <1>6, <3>3 DEF Body
        <4>2. Append(state[c].body, <<m, n + 1>>) = Frames(m, n + 1)
          BY <2>2, <2>3, <3>3, FramesGrow
        <4>3. state'[c] = [state[c] EXCEPT !.body = Frames(m, n + 1)]
          BY <4>1, <4>2
        <4> HIDE DEF m, n
        <4> QED
          BY <1>1, <2>3, <4>3 DEF Messages
      <3> QED
        BY <3>1, <3>2, <3>3
    <2> HIDE DEF m, n
    <2>5. Gathered(c)'
      <3>1. Route[m] = "milter" /\ m # Nobody
        BY <2>2, MailAssumption, MailOnTheWay DEF m
      <3> QED
        BY <1>6, <2>1, <2>2, <2>4, <3>1 DEF Gathered, Body
    <2> QED
      BY <1>6, <2>5 DEF Body, IInv, ForwardsWholeMails
  <1>7. CASE BodyEob(c)
    <2> DEFINE m == mta[c].mail
    <2>1. m \in Mails /\ handling[c] = Nobody /\ mta[c].at = "body" /\ Route[m] = "milter"
      BY <1>1, <1>7, MailAssumption, MailOnTheWay DEF BodyEob, Gathered
    <2>2. /\ state[c].rcpts = {m} /\ state[c].headers = <<m>>
          /\ ~state[c].tooLarge => state[c].body = Frames(m, Chunks[m])
      BY <1>1, <1>7, <2>1 DEF Gathered, BodyEob
    <2>3. CASE /\ handling' = handling /\ forwarded' = forwarded
               /\ mta' = [mta EXCEPT ![c].at = "ready", ![c].mail = Nobody]
               /\ state' = [state EXCEPT ![c] = Empty]
      <3>1. mta'[c].mail = Nobody /\ mta'[c].at = "ready" /\ state'[c] = Empty
        BY <1>1, <2>3 DEF Talks
      <3> QED
        BY <2>1, <2>3, <3>1, FreshIsGathered DEF IInv, ForwardsWholeMails
    <2>4. CASE /\ ~state[c].tooLarge /\ IsForwarded(state[c])
               /\ handling' = [handling EXCEPT ![c] = m]
               /\ mta' = [mta EXCEPT ![c].at = "eob"]
               /\ forwarded' = forwarded \cup {<<m, state[c]>>}
      <3>1. mta'[c].mail = m /\ mta'[c].at = "eob" /\ handling'[c] = m
        BY <1>1, <2>4 DEF Talks
      <3>2. m \in Itip \ Outgoing
        BY <2>1, <2>2, <2>4, InvitationsOnly
      <3>3. state[c] = Whole(m)
        BY <2>1, <2>2, <2>4, GatheredIsWhole DEF IInv
      <3> HIDE DEF m
      <3>4. Gathered(c)'
        BY <2>1, <3>1, <3>2, MailAssumption DEF Gathered
      <3> QED
        BY <2>4, <3>3, <3>4 DEF IInv, ForwardsWholeMails
    <2> QED
      BY <1>7, <2>3, <2>4 DEF BodyEob
  <1>8. CASE Deliver(c)
    <2>1. handling'[c] = Nobody /\ forwarded' = forwarded
      BY <1>1, <1>8 DEF Deliver
    <2>2. CASE mta[c].at = "eob"
      <3>1. mta'[c].mail = Nobody /\ mta'[c].at = "ready" /\ state'[c] = Empty
        BY <1>1, <1>8, <2>2 DEF Deliver, Accept, Talks
      <3> QED
        BY <2>1, <3>1, FreshIsGathered DEF IInv, ForwardsWholeMails
    <2>3. CASE mta[c].at # "eob"
      <3>1. mta' = mta /\ mta[c].at = "closed" /\ mta[c].mail = Nobody
        BY <1>1, <1>8, <2>3 DEF Deliver, Accept, Gathered
      <3> QED
        BY <2>1, <3>1, FreshIsGathered DEF IInv, ForwardsWholeMails
    <2> QED
      BY <2>2, <2>3
  <1>9. CASE Abort(c)
    <2>1. mta'[c].mail = Nobody /\ mta'[c].at = "ready" /\ state'[c] = Empty
      BY <1>1, <1>9 DEF Abort, Talks
    <2>2. handling'[c] = Nobody /\ forwarded' = forwarded
      BY <1>1, <1>9 DEF Abort, Gathered
    <2> QED
      BY <2>1, <2>2, FreshIsGathered DEF IInv, ForwardsWholeMails
  <1>10. CASE Quit(c)
    <2>1. mta'[c].mail = Nobody /\ mta'[c].at = "closed"
      BY <1>1, <1>10 DEF Quit, Closed
    <2> QED
      BY <1>1, <1>10, <2>1 DEF Quit, Gathered, IInv, ForwardsWholeMails
  <1> QED
    BY <1>2, <1>3, <1>4, <1>5, <1>6, <1>7, <1>8, <1>9, <1>10 DEF MilterStep, Converse

\* The other conversations do not notice.
LEMMA MilterStepIsLocal ==
  ASSUME IInv, NEW c \in Conns, MilterStep(c), NEW d \in Conns \ {c}
  PROVE  mta'[d] = mta[d] /\ state'[d] = state[d] /\ handling'[d] = handling[d]
  BY DEF IInv, Shapes, MilterStep, Converse, OptNeg, StartMail, Rcpt, Header, Body, BodyEob,
         Deliver, Accept, Abort, Quit

-----------------------------------------------------------------------------
(* Copies in the inbox. *)

\* What the steps do to the account of one mail: nothing new, one more attempt
\* (and perhaps a conversation, or a copy), or a copy for a conversation.
LEMMA Recount ==
  ASSUME Shapes, CopiesAreCounted, NEW m \in Mails, NEW c,
         \/ /\ Pending(m)' \subseteq Pending(m)
            /\ inbox'[m] = inbox[m] /\ attempts'[m] = attempts[m]
         \/ /\ Pending(m)' \subseteq Pending(m) \cup {c}
            /\ inbox'[m] = inbox[m] /\ attempts'[m] = attempts[m] + 1
         \/ /\ Pending(m)' \subseteq Pending(m)
            /\ inbox'[m] \in {inbox[m], inbox[m] + 1} /\ attempts'[m] = attempts[m] + 1
         \/ /\ Pending(m)' \subseteq Pending(m) \ {c} /\ c \in Pending(m)
            /\ inbox'[m] \in {inbox[m], inbox[m] + 1} /\ attempts'[m] = attempts[m]
  PROVE  /\ IsFiniteSet(Pending(m)')
         /\ inbox'[m] + Cardinality(Pending(m)') <= attempts'[m]
  <1> DEFINE old == Pending(m)
             new == Pending(m)'
             k == Cardinality(old)
  <1>1. /\ IsFiniteSet(old) /\ inbox[m] \in Nat /\ attempts[m] \in Nat
        /\ inbox[m] + k <= attempts[m]
    BY DEF CopiesAreCounted, Shapes
  <1> HIDE DEF old, new, k
  <1>2. k \in Nat /\ (c \in old => k # 0)
    BY <1>1, FS_CardinalityType, FS_EmptySet DEF k
  <1>3. ASSUME new \subseteq old
        PROVE  IsFiniteSet(new) /\ Cardinality(new) \in Nat /\ Cardinality(new) <= k
    BY <1>1, <1>3, FS_Subset, FS_CardinalityType DEF k
  <1>4. ASSUME new \subseteq old \cup {c}
        PROVE  IsFiniteSet(new) /\ Cardinality(new) \in Nat /\ Cardinality(new) <= k + 1
    <2>1. IsFiniteSet(old \cup {c}) /\ Cardinality(old \cup {c}) \in {k, k + 1}
      BY <1>1, FS_AddElement DEF k
    <2>2. IsFiniteSet(new) /\ Cardinality(new) <= Cardinality(old \cup {c})
      BY <1>4, <2>1, FS_Subset
    <2>3. Cardinality(new) \in Nat
      BY <2>2, FS_CardinalityType
    <2> QED
      BY <1>2, <2>1, <2>2, <2>3
  <1>5. ASSUME new \subseteq old \ {c}, c \in old
        PROVE  IsFiniteSet(new) /\ Cardinality(new) \in Nat /\ Cardinality(new) <= k - 1
    <2>1. IsFiniteSet(old \ {c}) /\ Cardinality(old \ {c}) = k - 1
      BY <1>1, <1>5, FS_RemoveElement DEF k
    <2>2. IsFiniteSet(new) /\ Cardinality(new) <= Cardinality(old \ {c})
      BY <1>5, <2>1, FS_Subset
    <2>3. Cardinality(new) \in Nat
      BY <2>2, FS_CardinalityType
    <2> QED
      BY <2>1, <2>2, <2>3
  <1>6. \/ /\ new \subseteq old
           /\ inbox'[m] = inbox[m] /\ attempts'[m] = attempts[m]
        \/ /\ new \subseteq old \cup {c}
           /\ inbox'[m] = inbox[m] /\ attempts'[m] = attempts[m] + 1
        \/ /\ new \subseteq old
           /\ inbox'[m] \in {inbox[m], inbox[m] + 1} /\ attempts'[m] = attempts[m] + 1
        \/ /\ new \subseteq old \ {c} /\ c \in old
           /\ inbox'[m] \in {inbox[m], inbox[m] + 1} /\ attempts'[m] = attempts[m]
    BY DEF old, new
  <1>7. IsFiniteSet(new) /\ inbox'[m] + Cardinality(new) <= attempts'[m]
    BY <1>1, <1>2, <1>3, <1>4, <1>5, <1>6
  <1> QED
    BY <1>7 DEF new

LEMMA MilterCounts ==
  ASSUME IInv, NEW c \in Conns, MilterStep(c)
  PROVE  CopiesAreCounted'
  <1>1. /\ Shapes /\ CopiesAreCounted /\ Gathered(c)
        /\ mta \in [Conns -> Talks] /\ handling \in [Conns -> Mails \cup {Nobody}]
        /\ inbox \in [Mails -> Nat] /\ attempts \in [Mails -> Nat]
    BY DEF IInv, Shapes
  <1>2. \A d \in Conns \ {c} : mta'[d] = mta[d] /\ handling'[d] = handling[d]
    BY MilterStepIsLocal
  <1> SUFFICES ASSUME NEW m \in Mails
               PROVE  /\ IsFiniteSet(Pending(m)')
                      /\ inbox'[m] + Cardinality(Pending(m)') <= attempts'[m]
                      /\ inbox'[m] > 0 => m \in Itip \ Outgoing
    BY DEF CopiesAreCounted
  <1>3. m # Nobody /\ (inbox[m] > 0 => m \in Itip \ Outgoing)
    BY <1>1, MailAssumption DEF CopiesAreCounted
  <1>4. Pending(m)' \subseteq Pending(m) \cup {c}
    BY <1>2 DEF Pending
  <1>5. ASSUME handling'[c] # m, mta'[c].mail # m \/ mta'[c].at = "eob"
        PROVE  Pending(m)' \subseteq Pending(m) \ {c}
    BY <1>2, <1>5 DEF Pending
  <1>6. CASE OptNeg(c) \/ Quit(c) \/ Abort(c)
    <2>1. handling' = handling /\ inbox' = inbox /\ attempts' = attempts
      BY <1>6 DEF OptNeg, Quit, Abort
    <2>2. ASSUME OptNeg(c) PROVE mta'[c].mail # m
      <3>1. PICK b \in BOOLEAN :
              mta' = [mta EXCEPT ![c] = [Closed EXCEPT !.at = "ready", !.tellsMail = b]]
        BY <2>2 DEF OptNeg
      <3> QED
        BY <1>1, <1>3, <2>1, <3>1 DEF Closed
    <2>3. ASSUME Quit(c) PROVE mta'[c].mail # m
      BY <1>1, <1>3, <2>1, <2>3 DEF Quit, Closed
    <2>4. ASSUME Abort(c) PROVE mta'[c].mail # m
      BY <1>1, <1>3, <2>1, <2>4 DEF Abort, Talks
    <2>5. mta'[c].mail # m
      BY <1>6, <2>2, <2>3, <2>4
    <2>6. Pending(m)' \subseteq Pending(m)
      BY <1>4, <1>5, <2>1, <2>5 DEF Pending
    <2> QED
      BY <1>1, <1>3, <2>1, <2>6, Recount
  <1>7. ASSUME NEW n \in Mails, StartMail(c, n)
        PROVE  /\ IsFiniteSet(Pending(m)')
               /\ inbox'[m] + Cardinality(Pending(m)') <= attempts'[m]
               /\ inbox'[m] > 0 => m \in Itip \ Outgoing
    <2>1. /\ mta'[c].mail = n /\ handling'[c] = Nobody /\ inbox' = inbox
          /\ attempts' = [attempts EXCEPT ![n] = @ + 1]
      BY <1>1, <1>7 DEF StartMail, HandOver, Talks, Gathered
    <2>2. CASE m = n
      BY <1>1, <1>3, <1>4, <2>1, <2>2, Recount
    <2>3. CASE m # n
      <3>1. Pending(m)' \subseteq Pending(m)
        BY <1>3, <1>5, <2>1, <2>3
      <3>2. attempts'[m] = attempts[m]
        BY <1>1, <2>1, <2>3
      <3> QED
        BY <1>1, <1>3, <2>1, <3>1, <3>2, Recount
    <2> QED
      BY <2>2, <2>3
  <1>8. CASE Rcpt(c) \/ Header(c) \/ Body(c)
    <2>1. /\ mta'[c].mail = mta[c].mail /\ mta[c].at # "eob"
          /\ handling' = handling /\ inbox' = inbox /\ attempts' = attempts
      BY <1>1, <1>8 DEF Rcpt, Header, Body, Talks
    <2>2. Pending(m)' \subseteq Pending(m)
      BY <1>2, <2>1 DEF Pending
    <2> QED
      BY <1>1, <1>3, <2>1, <2>2, Recount
  <1>9. CASE BodyEob(c)
    <2>1. /\ mta[c].at = "body" /\ inbox' = inbox /\ attempts' = attempts
          /\ handling[c] = Nobody
      BY <1>1, <1>9 DEF BodyEob, Gathered
    <2>2. \/ mta'[c].mail = Nobody /\ handling'[c] = Nobody
          \/ mta'[c].mail = mta[c].mail /\ handling'[c] = mta[c].mail
      BY <1>1, <1>9, <2>1 DEF BodyEob, Talks
    <2>3. Pending(m)' \subseteq Pending(m)
      BY <1>2, <1>3, <2>1, <2>2 DEF Pending
    <2> QED
      BY <1>1, <1>3, <2>1, <2>3, Recount
  <1>10. CASE Deliver(c)
    <2>1. /\ handling[c] \in Itip \ Outgoing /\ handling'[c] = Nobody /\ attempts' = attempts
          /\ inbox' = inbox \/ inbox' = [inbox EXCEPT ![handling[c]] = @ + 1]
      BY <1>1, <1>10 DEF Deliver, StorePayload, Gathered
    <2>2. mta'[c].mail = Nobody
      BY <1>1, <1>10 DEF Deliver, Accept, Gathered, Talks
    <2>3. Pending(m)' \subseteq Pending(m) \ {c}
      BY <1>3, <1>5, <2>1, <2>2
    <2>4. CASE m = handling[c]
      <3>1. c \in Pending(m)
        BY <2>4 DEF Pending
      <3>2. inbox'[m] \in {inbox[m], inbox[m] + 1}
        BY <1>1, <2>1, <2>4
      <3> QED
        BY <1>1, <2>1, <2>3, <2>4, <3>1, <3>2, Recount
    <2>5. CASE m # handling[c]
      <3>1. inbox'[m] = inbox[m]
        BY <1>1, <2>1, <2>5
      <3> QED
        BY <1>1, <1>3, <2>1, <2>3, <3>1, Recount
    <2> QED
      BY <2>4, <2>5
  <1> QED
    BY <1>6, <1>7, <1>8, <1>9, <1>10 DEF MilterStep, Converse

LEMMA OtherCounts ==
  ASSUME IInv, OtherStep
  PROVE  CopiesAreCounted'
  <1>1. /\ Shapes /\ CopiesAreCounted
        /\ inbox \in [Mails -> Nat] /\ attempts \in [Mails -> Nat]
    BY DEF IInv, Shapes
  <1> SUFFICES ASSUME NEW m \in Mails
               PROVE  /\ IsFiniteSet(Pending(m)')
                      /\ inbox'[m] + Cardinality(Pending(m)') <= attempts'[m]
                      /\ inbox'[m] > 0 => m \in Itip \ Outgoing
    BY DEF CopiesAreCounted
  <1>2. Pending(m)' = Pending(m)
    BY OtherShapes DEF Pending
  <1>3. inbox[m] > 0 => m \in Itip \ Outgoing
    BY <1>1 DEF CopiesAreCounted
  <1>4. CASE UNCHANGED <<inbox, attempts>>
    BY <1>1, <1>2, <1>3, <1>4, Recount
  <1>5. ASSUME NEW n \in Mails, Received(n)
        PROVE  /\ IsFiniteSet(Pending(m)')
               /\ inbox'[m] + Cardinality(Pending(m)') <= attempts'[m]
               /\ inbox'[m] > 0 => m \in Itip \ Outgoing
    <2>1. /\ attempts' = [attempts EXCEPT ![n] = @ + 1]
          /\ \/ inbox' = inbox
             \/ n \in Itip \ Outgoing /\ inbox' = [inbox EXCEPT ![n] = @ + 1]
      BY <1>1, <1>5, ReceivedIsCounted
    <2>2. CASE m = n
      <3>1. /\ inbox'[m] \in {inbox[m], inbox[m] + 1} /\ attempts'[m] = attempts[m] + 1
            /\ inbox'[m] > 0 => m \in Itip \ Outgoing
        BY <1>1, <1>3, <2>1, <2>2
      <3> QED
        BY <1>1, <1>2, <3>1, Recount
    <2>3. CASE m # n
      <3>1. inbox'[m] = inbox[m] /\ attempts'[m] = attempts[m]
        BY <1>1, <2>1, <2>3
      <3> QED
        BY <1>1, <1>2, <1>3, <3>1, Recount
    <2> QED
      BY <2>2, <2>3
  <1> QED
    BY <1>4, <1>5
    DEF OtherStep, Received, HearAnswer, Send, SendReturns, server

-----------------------------------------------------------------------------
(* What mail server and senders are told. *)

LEMMA NextTellsTheTruth ==
  ASSUME IInv, (\E c \in Conns : MilterStep(c)) \/ OtherStep
  PROVE  ToldTheTruth'
  <1>1. /\ Shapes /\ ToldTheTruth /\ Itip \subseteq Mails /\ Outgoing \subseteq Mails
        /\ inbox \in [Mails -> Nat] /\ status \in [Outgoing -> {"none", "taken", "sent", "unavailable"}]
        /\ queue \in [Mails -> {"unsent", "new", "busy", "done", "bounced"}]
        /\ answer \in [Mails -> {"none", "ok", "invalid", "failed"}]
    BY MailAssumption DEF IInv, Shapes
  <1>2. ASSUME NEW c \in Conns, MilterStep(c) PROVE ToldTheTruth'
    <2>1. UNCHANGED <<answer, status>> /\ \A m \in Mails : inbox'[m] >= inbox[m]
      <3>1. UNCHANGED <<answer, status>>
        BY <1>2
        DEF MilterStep, Converse, OptNeg, StartMail, Rcpt, Header, Body, BodyEob, Deliver,
            Abort, Quit
      <3>2. \/ inbox' = inbox
            \/ \E n \in Mails : inbox' = [inbox EXCEPT ![n] = @ + 1]
        <4>1. CASE Deliver(c)
          BY <1>1, <4>1 DEF Deliver, StorePayload, Shapes
        <4>2. CASE ~Deliver(c)
          BY <1>2, <4>2
          DEF MilterStep, Converse, OptNeg, StartMail, Rcpt, Header, Body, BodyEob, Abort, Quit
        <4> QED
          BY <4>1, <4>2
      <3> QED
        BY <1>1, <3>1, <3>2
    <2>2. ASSUME NEW m \in Mails
          PROVE  \/ queue'[m] = queue[m]
                 \/ queue'[m] # "unsent" /\ Route[m] = "milter"
      <3>1. \/ queue' = queue
            \/ \E n \in Mails, x \in {"new", "busy", "done"} :
                 Route[n] = "milter" /\ queue' = [queue EXCEPT ![n] = x]
        <4>1. CASE \E n \in Mails : StartMail(c, n)
          BY <4>1 DEF StartMail, HandOver
        <4>2. mta[c].mail \in Mails \cup {Nobody}
              /\ (mta[c].mail # Nobody => Route[mta[c].mail] = "milter")
          BY MailOnTheWay DEF IInv, Shapes, Talks
        <4>3. mta[c].at \in {"rcpt", "header", "body", "eob"} => mta[c].mail # Nobody
          BY MailOnTheWay, MailAssumption
        <4> QED
          BY <1>2, <4>1, <4>2, <4>3
          DEF MilterStep, Converse, OptNeg, Rcpt, Header, Body, BodyEob, Deliver, Accept,
              Abort, Quit, Return
      <3> QED
        BY <1>1, <3>1
    <2>3. ASSUME NEW m \in Itip \ Outgoing, Route[m] # "milter",
                 answer'[m] = "ok" \/ queue'[m] = "done"
          PROVE  inbox'[m] > 0
      <3>1. inbox[m] > 0 /\ inbox[m] \in Nat
        BY <1>1, <2>1, <2>2, <2>3 DEF ToldTheTruth
      <3>2. inbox'[m] >= inbox[m] /\ inbox'[m] \in Nat
        BY <1>1, <1>2, <2>1, MilterShapes DEF Shapes
      <3> QED
        BY <3>1, <3>2
    <2> QED
      BY <1>1, <2>1, <2>2, <2>3 DEF ToldTheTruth
  <1>3. ASSUME NEW m \in Mails, Received(m) PROVE ToldTheTruth'
    <2>1. PICK r \in {"ok", "invalid", "failed"} :
            /\ answer' = [answer EXCEPT ![m] = r]
            /\ m \notin Itip \ Outgoing => inbox' = inbox
            /\ m \in Itip \ Outgoing =>
                 \/ r = "failed" /\ inbox' = inbox
                 \/ r \in {"ok", "failed"} /\ inbox' = [inbox EXCEPT ![m] = @ + 1]
      BY <1>1, <1>3, ReceivedIsCounted
    <2>2. queue' = [queue EXCEPT ![m] = "busy"] /\ status' = status
      BY <1>1, <1>3, ReceivedIsCounted
    <2>3. ASSUME NEW n \in Itip \ Outgoing, Route[n] # "milter",
                 answer'[n] = "ok" \/ queue'[n] = "done"
          PROVE  inbox'[n] > 0
      <3>1. CASE n = m
        BY <1>1, <2>1, <2>2, <2>3, <3>1
      <3>2. CASE n # m
        BY <1>1, <2>1, <2>2, <2>3, <3>2 DEF ToldTheTruth
      <3> QED
        BY <3>1, <3>2
    <2> QED
      BY <1>1, <2>2, <2>3 DEF ToldTheTruth
  <1>4. ASSUME NEW m \in Mails, HearAnswer(m) PROVE ToldTheTruth'
    BY <1>1, <1>4 DEF HearAnswer, Return, ToldTheTruth, server
  <1>5. ASSUME NEW m \in Outgoing, Send(m) \/ SendReturns(m) PROVE ToldTheTruth'
    BY <1>1, <1>5 DEF Send, SendReturns, Return, ToldTheTruth, server
  <1> QED
    BY <1>2, <1>3, <1>4, <1>5 DEF OtherStep, Received

-----------------------------------------------------------------------------
LEMMA NextKeepsIInv == IInv /\ [Next]_vars => IInv'
  <1> SUFFICES ASSUME IInv, [Next]_vars PROVE IInv'
    OBVIOUS
  <1>1. ASSUME NEW c \in Conns, MilterStep(c) PROVE IInv'
    <2>1. ASSUME NEW d \in Conns \ {c} PROVE Gathered(d)'
      BY <1>1, MilterStepIsLocal DEF IInv, Gathered
    <2> QED
      BY <1>1, <2>1, MilterShapes, MilterGathers, MilterCounts, NextTellsTheTruth DEF IInv
  <1>2. CASE OtherStep
    <2>1. ForwardsWholeMails' /\ \A c \in Conns : Gathered(c)'
      BY <1>2, OtherShapes DEF IInv, ForwardsWholeMails, Gathered
    <2> QED
      BY <1>2, <2>1, OtherShapes, OtherCounts, NextTellsTheTruth DEF IInv
  <1>3. CASE UNCHANGED vars
    <2>1. Shapes'
      BY <1>3 DEF vars, IInv, Shapes
    <2>2. ForwardsWholeMails'
      BY <1>3 DEF vars, IInv, ForwardsWholeMails
    <2>3. CopiesAreCounted'
      <3>1. \A m \in Mails : Pending(m)' = Pending(m)
        BY <1>3 DEF vars, Pending
      <3> QED BY <1>3, <3>1 DEF vars, IInv, CopiesAreCounted
    <2>4. ToldTheTruth'
      BY <1>3 DEF vars, IInv, ToldTheTruth
    <2>5. \A c \in Conns : Gathered(c)'
      BY <1>3 DEF vars, IInv, Gathered
    <2> QED BY <2>1, <2>2, <2>3, <2>4, <2>5 DEF IInv
  <1> QED
    BY <1>1, <1>2, <1>3 DEF Next, MilterStep, OtherStep

THEOREM Invariant == Spec => []IInv
  BY InitIInv, NextKeepsIInv, PTL DEF Spec

\* However often mail servers break off and begin again, on however many
\* connections: what the milter forwards is one mail, all of it, with its own
\* recipients, and neither a frame of the mail before nor half of an oversized one.
THEOREM MailsStayWhole == Spec => []ForwardsWholeMails
  <1>1. IInv => ForwardsWholeMails
    BY DEF IInv
  <1> QED
    BY <1>1, Invariant, PTL

\* No copy in an inbox without an attempt of its own, none of a mail that this
\* server has sent, none that is no invitation; a mail server that was answered
\* 250, and one that a mail was sent to, were told the truth.
THEOREM InboxStaysHonest == Spec => []InboxIsHonest
  <1>1. ASSUME IInv PROVE InboxIsHonest
    <2>1. ASSUME NEW m \in Mails
          PROVE  inbox[m] <= attempts[m] /\ (inbox[m] > 0 => m \in Itip \ Outgoing)
      <3>1. Cardinality(Pending(m)) \in Nat
        BY <1>1, FS_CardinalityType DEF IInv, CopiesAreCounted
      <3> QED
        BY <1>1, <3>1 DEF IInv, CopiesAreCounted, Shapes
    <2> QED
      BY <1>1, <2>1 DEF IInv, ToldTheTruth, InboxIsHonest
  <1> QED
    BY <1>1, Invariant, PTL
=============================================================================
