-------------------------------- MODULE Mail --------------------------------
(***************************************************************************)
(* Mail in and out of a Xandikos server.  Into the schedule inbox there    *)
(* are three ways: a milter that watches the mail server's conversations   *)
(* (xandikos/milter.py), an LMTP listener (imip_listen.py) and a command   *)
(* that the mail server pipes a message to (import_imip.py).  Out of it    *)
(* there is one (imip_transport.py), and what it sends may come past the   *)
(* server's own milter.                                                    *)
(*                                                                         *)
(* The mail server is external: it hands a message over again when it was  *)
(* told to, or when it does not hear the answer.                           *)
(***************************************************************************)
EXTENDS Naturals, Sequences, SequencesExt

CONSTANTS
  Mails,
  Itip,         \* those with a text/calendar part of a supported METHOD
  Outgoing,     \* those that this server makes: "Auto-Submitted"
  Route,        \* [Mails -> {"milter", "lmtp", "pipe"}]: the way they come in
  Chunks,       \* [Mails -> Nat]: BODY frames of a mail
  MaxChunks,    \* _MAX_MESSAGE_SIZE in such frames
  Conns,        \* connections between mail server and milter
  MaxAttempts,  \* bound on the times that mails are handed over
  Nobody        \* no mail

ASSUME MailAssumption ==
  /\ Itip \subseteq Mails /\ Outgoing \subseteq Mails /\ Nobody \notin Mails
  /\ Route \in [Mails -> {"milter", "lmtp", "pipe"}]
  /\ Chunks \in [Mails -> Nat \ {0}] /\ MaxChunks \in Nat /\ MaxAttempts \in Nat

VARIABLES
  queue,      \* [Mails -> a mail's state at the mail server]
  mta,        \* [Conns -> what the mail server sends next, and of which mail]
  state,      \* [Conns -> _Message]: what the milter has gathered
  handling,   \* [Conns -> the message that handle_message forwards, or Nobody]
  answer,     \* [Mails -> what the listener or the command will answer]
  inbox,      \* [Mails -> Nat]: copies in the schedule inbox
  status,     \* [Outgoing -> what the sender of a mail was told]
  attempts,   \* [Mails -> Nat]
  forwarded   \* history: messages that were given to a transport

vars == <<queue, mta, state, handling, answer, inbox, status, attempts, forwarded>>
server == <<state, handling, inbox, forwarded>>

Empty == [rcpts |-> {}, headers |-> <<>>, body |-> <<>>, tooLarge |-> FALSE]

\* A mail as the mail server has it.
Whole(m) == [rcpts |-> {m}, headers |-> <<m>>, body |-> [k \in 1 .. Chunks[m] |-> <<m, k>>],
             tooLarge |-> FALSE]

Closed == [at |-> "closed", mail |-> Nobody, sent |-> 0, tellsMail |-> FALSE]

Init ==
  /\ queue = [m \in Mails |-> IF m \in Outgoing THEN "unsent" ELSE "new"]
  /\ mta = [c \in Conns |-> Closed]
  /\ state = [c \in Conns |-> Empty]
  /\ handling = [c \in Conns |-> Nobody]
  /\ answer = [m \in Mails |-> "none"]
  /\ inbox = [m \in Mails |-> 0]
  /\ status = [m \in Outgoing |-> "none"]
  /\ attempts = [m \in Mails |-> 0]
  /\ forwarded = {}

HandOver(m) ==
  /\ queue[m] = "new"
  /\ MapThenSumSet(LAMBDA n : attempts[n], Mails) < MaxAttempts
  /\ queue' = [queue EXCEPT ![m] = "busy"]
  /\ attempts' = [attempts EXCEPT ![m] = @ + 1]

Return(m, s) == queue' = [queue EXCEPT ![m] = s]

-----------------------------------------------------------------------------
(* imip.py: what a message is                                              *)

\* _find_calendar_part and _calendar_method: the invitations a message can be
\* told to be.  Frames of several mails are something else.
CalendarPart(msg) == {m \in Itip : msg.headers = <<m>> /\ msg.body = Whole(m).body}

ExtractPayload(msg) == CalendarPart(msg) # {}

\* Mutant of IsAutoSubmitted: nobody looks for the header.
IsNeverAutoSubmitted(msg) == FALSE

\* is_auto_submitted: the header that build_message gives every mail.
IsAutoSubmitted(msg) == \E m \in Outgoing : m \in ToSet(msg.headers)

\* What becomes of a mail before anything is stored: an automatic one is dropped.
Verdict(m) ==
  IF IsAutoSubmitted(Whole(m)) THEN "ok"
  ELSE IF ~ExtractPayload(Whole(m)) THEN "invalid" ELSE "store"

\* _store_payload and _import_imip_to_directory: the inbox refuses the message
\* (or there is none), or stores it, after which its processing may still fail.
StorePayload(m, result) ==
  \/ result = "failed" /\ UNCHANGED inbox
  \/ result \in {"ok", "failed"} /\ inbox' = [inbox EXCEPT ![m] = @ + 1]

-----------------------------------------------------------------------------
(* The milter: one frame of the mail server and its answer at a time.      *)

\* SMFIC_OPTNEG, SMFIC_CONNECT and SMFIC_HELO.  SMFI_PROTOCOL_FLAGS asks for no
\* MAIL frames, which an old mail server sends nevertheless.
OptNeg(c) ==
  /\ mta[c].at = "closed" /\ handling[c] = Nobody
  /\ \E b \in BOOLEAN : mta' = [mta EXCEPT ![c] = [Closed EXCEPT !.at = "ready", !.tellsMail = b]]
  /\ state' = [state EXCEPT ![c] = Empty]
  /\ UNCHANGED <<queue, handling, answer, inbox, status, attempts, forwarded>>

\* SMFIC_MAIL, or nothing.
StartMail(c, m) ==
  /\ mta[c].at = "ready"
  /\ Route[m] = "milter" /\ HandOver(m)
  /\ mta' = [mta EXCEPT ![c].at = "rcpt", ![c].mail = m, ![c].sent = 0]
  /\ state' = [state EXCEPT ![c] = IF mta[c].tellsMail THEN Empty ELSE @]
  /\ UNCHANGED <<handling, answer, inbox, status, forwarded>>

\* SMFIC_RCPT
Rcpt(c) ==
  /\ mta[c].at = "rcpt"
  /\ mta' = [mta EXCEPT ![c].at = "header"]
  /\ state' = [state EXCEPT ![c].rcpts = @ \cup {mta[c].mail}]
  /\ UNCHANGED <<queue, handling, answer, inbox, status, attempts, forwarded>>

\* SMFIC_HEADER, and SMFIC_EOH, which changes nothing
Header(c) ==
  /\ mta[c].at = "header"
  /\ mta' = [mta EXCEPT ![c].at = "body"]
  /\ state' = [state EXCEPT ![c].headers =
                 IF state[c].tooLarge THEN @ ELSE Append(@, mta[c].mail)]
  /\ UNCHANGED <<queue, handling, answer, inbox, status, attempts, forwarded>>

\* SMFIC_BODY
Body(c) ==
  /\ mta[c].at = "body" /\ mta[c].sent < Chunks[mta[c].mail]
  /\ mta' = [mta EXCEPT ![c].sent = @ + 1]
  /\ state' = [state EXCEPT ![c] =
       IF @.tooLarge THEN @
       ELSE IF Len(@.body) + 1 > MaxChunks THEN [@ EXCEPT !.tooLarge = TRUE, !.body = <<>>]
       ELSE [@ EXCEPT !.body = Append(state[c].body, <<mta[c].mail, mta[c].sent + 1>>)]]
  /\ UNCHANGED <<queue, handling, answer, inbox, status, attempts, forwarded>>

\* handle_message: an automatic message and one without a payload go no further.
IsForwarded(msg) == ~IsAutoSubmitted(msg) /\ ExtractPayload(msg)

\* SMFIC_BODYEOB: what was gathered becomes a message again and is handled.
BodyEob(c) ==
  LET m == mta[c].mail IN
  /\ mta[c].at = "body" /\ mta[c].sent = Chunks[m]
  /\ \/ /\ state[c].tooLarge \/ ~IsForwarded(state[c])
        /\ handling' = handling
        /\ mta' = [mta EXCEPT ![c].at = "ready", ![c].mail = Nobody]
        /\ state' = [state EXCEPT ![c] = Empty]
        /\ Return(m, "done")
        /\ UNCHANGED forwarded
     \/ /\ ~state[c].tooLarge /\ IsForwarded(state[c])
        /\ handling' = [handling EXCEPT ![c] = m]
        /\ mta' = [mta EXCEPT ![c].at = "eob"]
        /\ forwarded' = forwarded \cup {<<m, state[c]>>}
        /\ UNCHANGED <<queue, state>>
  /\ UNCHANGED <<answer, inbox, status, attempts>>

\* Mutant of Accept: the handler's failure ends the conversation.
AcceptUnlessFailed(c, result) ==
  /\ state' = [state EXCEPT ![c] = Empty]
  /\ IF mta[c].at = "eob" /\ result = "ok"
       THEN /\ mta' = [mta EXCEPT ![c].at = "ready", ![c].mail = Nobody]
            /\ Return(mta[c].mail, "done")
       ELSE UNCHANGED <<mta, queue>>

\* After handle_message: the state is reset and the mail accepted, whatever
\* has happened.  The mail server may have gone.
Accept(c, result) ==
  /\ state' = [state EXCEPT ![c] = Empty]
  /\ IF mta[c].at = "eob"
       THEN /\ mta' = [mta EXCEPT ![c].at = "ready", ![c].mail = Nobody]
            /\ Return(mta[c].mail, "done")
       ELSE UNCHANGED <<mta, queue>>

\* LMTPTransport, HTTPTransport and InProcessTransport: they raise on failure,
\* and handle_message logs it.
Deliver(c) ==
  /\ handling[c] # Nobody
  /\ \E result \in {"ok", "failed"} : StorePayload(handling[c], result) /\ Accept(c, result)
  /\ handling' = [handling EXCEPT ![c] = Nobody]
  /\ UNCHANGED <<answer, status, attempts, forwarded>>

\* Mutant of Abort: only a MAIL frame starts afresh.
AbortWithoutReset(c) ==
  /\ mta[c].at \in {"rcpt", "header", "body"}
  /\ mta' = [mta EXCEPT ![c].at = "ready", ![c].mail = Nobody]
  /\ Return(mta[c].mail, "new")
  /\ UNCHANGED <<state, handling, answer, inbox, status, attempts, forwarded>>

\* SMFIC_ABORT: the mail will come again.
Abort(c) ==
  /\ mta[c].at \in {"rcpt", "header", "body"}
  /\ mta' = [mta EXCEPT ![c].at = "ready", ![c].mail = Nobody]
  /\ state' = [state EXCEPT ![c] = Empty]
  /\ Return(mta[c].mail, "new")
  /\ UNCHANGED <<handling, answer, inbox, status, attempts, forwarded>>

\* SMFIC_QUIT, or the mail server has waited long enough: what it has not been
\* answered it hands over again.
Quit(c) ==
  /\ mta[c].at # "closed"
  /\ mta' = [mta EXCEPT ![c] = Closed]
  /\ IF mta[c].mail = Nobody THEN UNCHANGED queue ELSE Return(mta[c].mail, "new")
  /\ UNCHANGED <<state, handling, answer, inbox, status, attempts, forwarded>>

-----------------------------------------------------------------------------
(* LMTP and the command                                                    *)

Answer(m, result) == answer' = [answer EXCEPT ![m] = result]

\* handle_DATA up to its answer: 250, 550 or 451
HandleData(m) ==
  /\ Route[m] = "lmtp" /\ HandOver(m)
  /\ \/ Verdict(m) # "store" /\ Answer(m, Verdict(m)) /\ UNCHANGED inbox
     \/ /\ Verdict(m) = "store"
        /\ \E result \in {"ok", "failed"} : StorePayload(m, result) /\ Answer(m, result)
  /\ UNCHANGED <<mta, state, handling, status, forwarded>>

\* _import_imip_to_server: a PROPFIND for the address of the inbox, if it is not
\* given, and a POST to it.  Either may fail, the POST also when it was heard.
PostToServer(m) ==
  \/ Answer(m, "failed") /\ UNCHANGED inbox
  \/ /\ \E result \in {"ok", "failed"} : Answer(m, result)
     /\ inbox' = [inbox EXCEPT ![m] = @ + 1]

\* import_imip.main up to its exit code, which does not tell a mail without an
\* invitation from a failure
ImportImip(m) ==
  /\ Route[m] = "pipe" /\ HandOver(m)
  /\ \/ Verdict(m) # "store" /\ Answer(m, Verdict(m)) /\ UNCHANGED inbox
     \/ /\ Verdict(m) = "store"
        /\ \/ PostToServer(m)
           \/ \E result \in {"ok", "failed"} : StorePayload(m, result) /\ Answer(m, result)
  /\ UNCHANGED <<mta, state, handling, status, forwarded>>

\* The mail server hears the answer, or does not (external).
HearAnswer(m) ==
  /\ answer[m] # "none"
  /\ answer' = [answer EXCEPT ![m] = "none"]
  /\ \/ Return(m, "new")
     \/ answer[m] = "ok" /\ Return(m, "done")
     \/ answer[m] = "invalid" /\ Return(m, "bounced")
     \/ Route[m] = "pipe" /\ answer[m] = "failed" /\ Return(m, "bounced")
  /\ UNCHANGED <<mta, server, status, attempts>>

-----------------------------------------------------------------------------
(* Outbound                                                                *)

\* send: the mail server has taken the mail, or it could not be reached, or not
\* be talked to; NullTransport would say that it has.
Send(m) ==
  /\ status[m] = "none"
  /\ \/ status' = [status EXCEPT ![m] = "taken"] /\ Return(m, "new")
     \/ status' = [status EXCEPT ![m] = "unavailable"] /\ UNCHANGED queue
  /\ UNCHANGED <<mta, server, answer, attempts>>

\* send returns, or times out before it hears that the mail was taken.
SendReturns(m) ==
  /\ status[m] = "taken"
  /\ \E s \in {"sent", "unavailable"} : status' = [status EXCEPT ![m] = s]
  /\ UNCHANGED <<queue, mta, server, answer, attempts>>

-----------------------------------------------------------------------------
\* A conversation that neither side breaks off.
Converse(c) ==
  \/ \E m \in Mails : StartMail(c, m)
  \/ Rcpt(c) \/ Header(c) \/ Body(c) \/ BodyEob(c) \/ Deliver(c)

Next ==
  \/ \E c \in Conns : OptNeg(c) \/ Converse(c) \/ Abort(c) \/ Quit(c)
  \/ \E m \in Mails : HandleData(m) \/ ImportImip(m) \/ HearAnswer(m)
  \/ \E m \in Outgoing : Send(m) \/ SendReturns(m)

\* Connections are served; the mail server breaks off as often as it likes, up
\* to MaxAttempts.
Fairness == \A c \in Conns :
  WF_vars(Rcpt(c) \/ Header(c) \/ Body(c) \/ BodyEob(c)) /\ WF_vars(Deliver(c))

Spec == Init /\ [][Next]_vars /\ Fairness

-----------------------------------------------------------------------------
(* Properties *)

TypeOK ==
  /\ queue \in [Mails -> {"unsent", "new", "busy", "done", "bounced"}]
  /\ \A c \in Conns :
       /\ mta[c].at \in {"closed", "ready", "rcpt", "header", "body", "eob"}
       /\ mta[c].mail \in Mails \cup {Nobody}
       /\ state[c].tooLarge \in BOOLEAN
       /\ Len(state[c].body) <= MaxChunks
       /\ handling[c] \in Mails \cup {Nobody}
  /\ answer \in [Mails -> {"none", "ok", "invalid", "failed"}]
  /\ inbox \in [Mails -> 0 .. MaxAttempts]
  /\ status \in [Outgoing -> {"none", "taken", "sent", "unavailable"}]

\* What the milter forwards is a mail as it was sent, with its recipients and
\* those alone, whatever came over the connection before.
ForwardsWholeMails == \A f \in forwarded : f[2] = Whole(f[1])

\* Whatever this server has sent never comes back into an inbox, nor does a mail
\* that carries no invitation; a mail is stored at most once for each time it was
\* handed over, and a mail server that was told so is right.
InboxIsHonest ==
  /\ \A m \in Mails :
       /\ inbox[m] <= attempts[m]
       /\ inbox[m] > 0 => m \in Itip \ Outgoing
       /\ Route[m] # "milter" /\ queue[m] = "done" /\ m \in Itip \ Outgoing => inbox[m] > 0
  /\ \A m \in Outgoing : status[m] = "sent" => queue[m] # "unsent"

\* "The milter never modifies, defers or rejects messages": at the end of a mail
\* the mail server gets its answer, unless it has broken off itself.
MailGoesOn == \A c \in Conns : mta[c].at \in {"body", "eob"} ~> mta[c].at \in {"ready", "closed"}

-----------------------------------------------------------------------------
(* The inductive invariant behind ForwardsWholeMails and InboxIsHonest.    *)

Talks == [at : {"closed", "ready", "rcpt", "header", "body", "eob"},
          mail : Mails \cup {Nobody}, sent : Nat, tellsMail : BOOLEAN]

Messages == [rcpts : SUBSET Mails, headers : Seq(Mails), body : Seq(Mails \X Nat),
             tooLarge : BOOLEAN]

Shapes ==
  /\ queue \in [Mails -> {"unsent", "new", "busy", "done", "bounced"}]
  /\ mta \in [Conns -> Talks]
  /\ state \in [Conns -> Messages]
  /\ handling \in [Conns -> Mails \cup {Nobody}]
  /\ answer \in [Mails -> {"none", "ok", "invalid", "failed"}]
  /\ inbox \in [Mails -> Nat] /\ attempts \in [Mails -> Nat]
  /\ status \in [Outgoing -> {"none", "taken", "sent", "unavailable"}]

\* The first n frames of a mail.
Frames(m, n) == [k \in 1 .. n |-> <<m, k>>]

\* What the milter has gathered is what the mail server has sent of this mail,
\* and nothing of the one before; an oversized body is dropped.
Gathered(c) ==
  LET m == mta[c].mail IN
  /\ m = Nobody <=> mta[c].at \in {"closed", "ready"}
  /\ m # Nobody => Route[m] = "milter"
  /\ mta[c].at \in {"ready", "rcpt"} => state[c] = Empty
  /\ mta[c].at \in {"rcpt", "header"} => mta[c].sent = 0
  /\ mta[c].at = "header" => state[c] = [Empty EXCEPT !.rcpts = {m}]
  /\ mta[c].at = "body" =>
       /\ state[c].rcpts = {m} /\ state[c].headers = <<m>>
       /\ ~state[c].tooLarge => state[c].body = Frames(m, mta[c].sent)
  /\ mta[c].at = "eob" => handling[c] = m
  /\ handling[c] # Nobody =>
       /\ mta[c].at \in {"eob", "closed"}
       /\ handling[c] \in Itip \ Outgoing
       /\ Route[handling[c]] = "milter"

\* The conversations that may still put the mail into the inbox.
Pending(m) ==
  {c \in Conns : handling[c] = m \/ (mta[c].mail = m /\ mta[c].at # "eob")}

\* Every copy in the inbox, and every one to come, has its own attempt.
CopiesAreCounted ==
  \A m \in Mails :
    /\ IsFiniteSet(Pending(m))
    /\ inbox[m] + Cardinality(Pending(m)) <= attempts[m]
    /\ inbox[m] > 0 => m \in Itip \ Outgoing

ToldTheTruth ==
  /\ \A m \in Itip \ Outgoing :
       (Route[m] # "milter" /\ (answer[m] = "ok" \/ queue[m] = "done")) => inbox[m] > 0
  /\ \A m \in Outgoing : status[m] \in {"taken", "sent"} => queue[m] # "unsent"

IInv ==
  /\ Shapes /\ ForwardsWholeMails /\ CopiesAreCounted /\ ToldTheTruth
  /\ \A c \in Conns : Gathered(c)
=============================================================================
