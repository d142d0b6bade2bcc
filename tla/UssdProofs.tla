----------------------------- MODULE UssdProofs -----------------------------
(***************************************************************************)
(* Proofs about supplementary service sessions, for any subscribers,       *)
(* session IDs, VLRs, EUSEs, codes and number of requests.                 *)
(*                                                                         *)
(* TypeOK, BeginHeld, DialogueStable and that timers have sessions are     *)
(* inductive together: what was sent to is a set of EUSEs because no       *)
(* session that is kept is one of an internal handler; a session whose VLR *)
(* is not known yet has sent to none because what was sent to are VLRs;    *)
(* and a time-out frees a request because there is a session that holds    *)
(* it.  The proof says what sending does to one session, and then what     *)
(* changing, adding and freeing one does to all of them.                   *)
(***************************************************************************)
EXTENDS Ussd, TLAPS

(* What DialogueStable says of one session. *)
Stable(s) ==
    /\ s.toMs \subseteq {s.vlr}
    /\ s.use # Freed => s.toEuse \subseteq {s.use}

(* A session that may be kept. *)
Settled(s) == s \in Session /\ Stable(s) /\ s.use # Internal

(* What is said of sessions and requests. *)
SessionsOK ==
    /\ sess \in [Key -> Session \cup {NoSession}]
    /\ reqs \in [Req -> {"free", "begin", "other"}]
    /\ BeginHeld
    /\ DialogueStable

(* And of the rest. *)
SurroundingsOK ==
    /\ euses \subseteq Euse
    /\ route \in [Code -> Euse \cup {Null, Internal, Freed}]
    /\ default \in Euse \cup {Null}
    /\ up \subseteq Vlr \cup Euse
    /\ vlrOf \in [Imsi -> Vlr \cup {Empty, NoSubscr}]
    /\ due \subseteq Key

(* A guard timer runs only for a session that is there: the call-back      *)
(* frees the session it is for.                                            *)
TimersHaveSessions == \A k \in due : sess[k] # NoSession

IInv == SessionsOK /\ SurroundingsOK /\ TimersHaveSessions

(* The invariant in the terms of the specification. *)
LEMMA IInvIs == IInv <=> TypeOK /\ BeginHeld /\ DialogueStable /\ TimersHaveSessions
BY DEF IInv, TypeOK, SessionsOK, SurroundingsOK

(* Each session that is kept is settled. *)
LEMMA AllSettled ==
    ASSUME SessionsOK, NEW k \in Key, sess[k] # NoSession
    PROVE  Settled(sess[k])
BY DEF SessionsOK, BeginHeld, DialogueStable, Settled, Stable

-----------------------------------------------------------------------------
(* One session. *)

(* A message to the phone leaves the session stable, with its request and  *)
(* its entity, and it goes to a VLR if it goes anywhere.                   *)
LEMMA SendKeeps ==
    ASSUME SurroundingsOK, NEW s \in Session, Stable(s), NEW i \in Imsi
    PROVE  LET t == ss_gsup_send_to_ms(s, i)
           IN  /\ t \in Session /\ Stable(t)
               /\ t.req = s.req /\ t.use = s.use
<1> DEFINE v == IF s.mo \/ s.vlr # Null THEN s.vlr ELSE vlrOf[i]
           w == IF v = NoSubscr THEN s.vlr ELSE v
           T == s.toMs \cup ({v} \cap up)
           t == [s EXCEPT !.vlr = w, !.toMs = T]
<1>1. v \in Vlr \cup {Null, Empty, NoSubscr}
  BY DEF SurroundingsOK, Session
<1>2. w \in Vlr \cup {Null, Empty}
  BY <1>1 DEF Session
<1>3. {v} \cap up \subseteq Vlr
  BY <1>1, NamesAssumption DEF SurroundingsOK
<1>4. T \in SUBSET Vlr
  BY <1>3 DEF Session
<1>5. {v} \cap up \subseteq {w}
  BY <1>3, NamesAssumption
<1>6. s.toMs \subseteq {w}
  <2>1. CASE w = s.vlr
    BY <2>1 DEF Stable
  <2>2. CASE w # s.vlr
    <3>1. s.vlr = Null
      BY <2>2
    <3>2. s.toMs \subseteq Vlr /\ s.toMs \subseteq {Null}
      BY <3>1 DEF Session, Stable
    <3> QED
      BY <3>2, NamesAssumption
  <2> QED
    BY <2>1, <2>2
<1>7. T \subseteq {w}
  BY <1>5, <1>6
<1>8. ss_gsup_send_to_ms(s, i) = t
  BY DEF ss_gsup_send_to_ms
<1> HIDE DEF v, w, T
<1>9. /\ t \in Session /\ t.vlr = w /\ t.toMs = T
      /\ t.req = s.req /\ t.use = s.use /\ t.toEuse = s.toEuse
  BY <1>2, <1>4 DEF Session
<1>10. Stable(t)
  BY <1>7, <1>9 DEF Stable
<1> QED
  BY <1>8, <1>9, <1>10

(* So does a USSD message of either side. *)
LEMMA HandleKeeps ==
    ASSUME SurroundingsOK, NEW s \in Session, Stable(s), NEW i \in Imsi,
           NEW euse \in BOOLEAN, NEW name \in EuseName(s),
           s.ext => s.use # Internal
    PROVE  LET t == handle_ussd(s, i, euse, name)
           IN  /\ t \in Session /\ Stable(t)
               /\ t.req = s.req /\ t.use = s.use
<1>1. CASE ReadsEuseName(s, euse) /\ name \in up
  <2>1. name \in Euse
    BY <1>1 DEF ReadsEuseName, EuseName, Session
  <2>2. s.use # Freed => name = s.use
    BY DEF EuseName
  <2>3. handle_ussd(s, i, euse, name) = [s EXCEPT !.toEuse = @ \cup {name}]
    BY <1>1 DEF handle_ussd
  <2> DEFINE t == [s EXCEPT !.toEuse = @ \cup {name}]
  <2>4. /\ t \in Session /\ t.vlr = s.vlr /\ t.toMs = s.toMs
        /\ t.req = s.req /\ t.use = s.use /\ t.toEuse = s.toEuse \cup {name}
    BY <2>1 DEF Session
  <2> HIDE DEF t
  <2>5. Stable(t)
    BY <2>2, <2>4 DEF Stable
  <2> QED
    BY <2>3, <2>4, <2>5 DEF t
<1>2. CASE ~(ReadsEuseName(s, euse) /\ name \in up)
  <2>1. handle_ussd(s, i, euse, name) = ss_gsup_send_to_ms(s, i)
    BY <1>2 DEF handle_ussd
  <2> QED
    BY <2>1, SendKeeps
<1> QED
  BY <1>1, <1>2

(* An internal handler is found only for the phone and not taken for an    *)
(* EUSE: such a session is not kept.                                       *)
LEMMA BegunIs ==
    ASSUME SurroundingsOK, NEW r \in Req, NEW p \in Vlr \cup Euse, NEW c \in Code
    PROVE  LET s == Begun(r, p, c)
           IN  /\ s \in Session /\ Stable(s) /\ s.req = r
               /\ s.ext => s.use # Internal
               /\ s.use = Internal => HandledInternally(s, p \in Euse)
<1> DEFINE s == Begun(r, p, c)
<1>1. CASE p \in Euse
  <2> DEFINE u == IF p \in euses THEN p ELSE Null
  <2>1. u \in Euse \cup {Null, Internal, Freed} /\ u # Internal /\ FALSE \in BOOLEAN
    BY <1>1, NamesAssumption, MarkersAssumption
  <2>2. s = NewSession(r, p, FALSE, u)
    BY <1>1 DEF Begun
  <2> HIDE DEF s, u
  <2>3. s \in Session /\ Stable(s) /\ s.req = r /\ s.use = u /\ s.ext = FALSE
    BY <2>1, <2>2 DEF NewSession, Session, Stable
  <2> QED
    BY <2>1, <2>3 DEF s
<1>2. CASE p \notin Euse /\ route[c] = Null
  <2>1. default \in Euse \cup {Null, Internal, Freed} /\ default # Internal
    BY NamesAssumption, MarkersAssumption DEF SurroundingsOK
  <2>2. s = NewSession(r, p, default # Null, default)
    BY <1>2 DEF Begun
  <2> HIDE DEF s
  <2>3. (default # Null) \in BOOLEAN
    BY Zenon
  <2>4. s \in Session /\ Stable(s) /\ s.req = r /\ s.use = default
    BY <2>1, <2>2, <2>3 DEF NewSession, Session, Stable
  <2> QED
    BY <2>1, <2>4 DEF s
<1>3. CASE p \notin Euse /\ route[c] # Null
  <2>1. route[c] \in Euse \cup {Null, Internal, Freed}
    BY DEF SurroundingsOK
  <2>2. s = NewSession(r, p, route[c] # Internal, route[c])
    BY <1>3 DEF Begun
  <2> HIDE DEF s
  <2>3. (route[c] # Internal) \in BOOLEAN
    BY Zenon
  <2>4. /\ s \in Session /\ Stable(s) /\ s.req = r /\ s.use = route[c]
        /\ s.ext = (route[c] # Internal)
    BY <2>1, <2>2, <2>3 DEF NewSession, Session, Stable
  <2>5. s.ext => s.use # Internal
    BY <2>4, Zenon
  <2>6. s.use = Internal => HandledInternally(s, p \in Euse)
    BY <1>3, <2>4, Zenon DEF HandledInternally
  <2> QED
    BY <2>4, <2>5, <2>6 DEF s
<1> QED
  BY <1>1, <1>2, <1>3

-----------------------------------------------------------------------------
(* All sessions. *)

(* A session is kept with the request it has. *)
LEMMA ChangeKeeps ==
    ASSUME SessionsOK, NEW k \in Key, sess[k] # NoSession, NEW s,
           Settled(s), s.req = sess[k].req,
           sess' = [sess EXCEPT ![k] = s], reqs' = reqs
    PROVE  SessionsOK'
<1>1. /\ s \in Session /\ s # NoSession /\ s.use # Internal /\ Stable(s)
  BY NoSessionAssumption DEF Settled
<1>2. sess' \in [Key -> Session \cup {NoSession}]
  BY <1>1 DEF SessionsOK
<1>3. \A j \in Key : sess'[j] = IF j = k THEN s ELSE sess[j]
  BY DEF SessionsOK
<1>4. \A j \in Key : /\ sess'[j] # NoSession <=> sess[j] # NoSession
                     /\ sess[j] # NoSession => sess'[j].req = sess[j].req
  BY <1>1, <1>3
<1>5. BeginHeld'
  BY <1>1, <1>3, <1>4 DEF SessionsOK, BeginHeld
<1>6. DialogueStable'
  BY <1>1, <1>3 DEF SessionsOK, DialogueStable, Stable
<1> QED
  BY <1>2, <1>5, <1>6 DEF SessionsOK

(* A session is added with a free request. *)
LEMMA AddKeeps ==
    ASSUME SessionsOK, NEW k \in Key, sess[k] = NoSession, NEW s,
           Settled(s), NEW r \in Req, s.req = r, reqs[r] = "free",
           sess' = [sess EXCEPT ![k] = s], reqs' = [reqs EXCEPT ![r] = "begin"]
    PROVE  SessionsOK'
<1>1. /\ s \in Session /\ s # NoSession /\ s.use # Internal /\ Stable(s)
  BY NoSessionAssumption DEF Settled
<1>2. sess' \in [Key -> Session \cup {NoSession}]
  BY <1>1 DEF SessionsOK
<1>3. \A j \in Key : sess'[j] = IF j = k THEN s ELSE sess[j]
  BY DEF SessionsOK
<1>4. \A q \in Req : reqs'[q] = IF q = r THEN "begin" ELSE reqs[q]
  BY DEF SessionsOK
<1>5. reqs' \in [Req -> {"free", "begin", "other"}]
  BY DEF SessionsOK
<1>6. \A j \in Key : sess[j] # NoSession
                        => sess[j].req \in Req /\ sess[j].req # r
  BY DEF SessionsOK, BeginHeld, Session
<1>7. BeginHeld'
  <2>1. \A j \in Key : sess'[j] # NoSession => sess'[j].use # Internal
    BY <1>1, <1>3 DEF SessionsOK, BeginHeld
  <2>2. \A j \in Key : sess'[j] # NoSession => reqs'[sess'[j].req] = "begin"
    BY <1>1, <1>3, <1>4, <1>6 DEF SessionsOK, BeginHeld
  <2>3. \A i, j \in Key : sess'[i] # NoSession /\ sess'[j] # NoSession
                             /\ sess'[i].req = sess'[j].req => i = j
    BY <1>1, <1>3, <1>6 DEF SessionsOK, BeginHeld
  <2>4. \A q \in Req : reqs'[q] = "begin"
                          => \E j \in Key : sess'[j] # NoSession /\ sess'[j].req = q
    <3> SUFFICES ASSUME NEW q \in Req, reqs'[q] = "begin"
                 PROVE  \E j \in Key : sess'[j] # NoSession /\ sess'[j].req = q
      OBVIOUS
    <3>1. CASE q = r
      BY <3>1, <1>1, <1>3
    <3>2. CASE q # r
      <4>1. reqs[q] = "begin"
        BY <3>2, <1>4
      <4>2. PICK j \in Key : sess[j] # NoSession /\ sess[j].req = q
        BY <4>1 DEF SessionsOK, BeginHeld
      <4>3. j # k
        BY <4>2
      <4> QED
        BY <4>2, <4>3, <1>3
    <3> QED
      BY <3>1, <3>2
  <2> QED
    BY <2>1, <2>2, <2>3, <2>4 DEF BeginHeld
<1>8. DialogueStable'
  BY <1>1, <1>3 DEF SessionsOK, DialogueStable, Stable
<1> QED
  BY <1>2, <1>5, <1>7, <1>8 DEF SessionsOK

(* A session is freed with its request. *)
LEMMA FreeKeeps ==
    ASSUME SessionsOK, NEW k \in Key, sess[k] # NoSession, ss_session_free(k, reqs)
    PROVE  SessionsOK'
<1> DEFINE r == sess[k].req
<1>1. r \in Req
  BY DEF SessionsOK, Session
<1>2. sess' \in [Key -> Session \cup {NoSession}]
  BY DEF SessionsOK, ss_session_free
<1>3. \A j \in Key : sess'[j] = IF j = k THEN NoSession ELSE sess[j]
  BY DEF SessionsOK, ss_session_free
<1>4. \A q \in Req : reqs'[q] = IF q = r THEN "free" ELSE reqs[q]
  BY DEF SessionsOK, ss_session_free
<1>5. reqs' \in [Req -> {"free", "begin", "other"}]
  BY DEF SessionsOK, ss_session_free
<1>6. \A j \in Key : sess[j] # NoSession /\ j # k
                        => sess[j].req \in Req /\ sess[j].req # r
  BY DEF SessionsOK, BeginHeld, Session
<1> HIDE DEF r
<1>7. BeginHeld'
  <2>1. \A j \in Key : sess'[j] # NoSession => sess'[j].use # Internal
    BY <1>3 DEF SessionsOK, BeginHeld
  <2>2. \A j \in Key : sess'[j] # NoSession => reqs'[sess'[j].req] = "begin"
    BY <1>3, <1>4, <1>6 DEF SessionsOK, BeginHeld
  <2>3. \A i, j \in Key : sess'[i] # NoSession /\ sess'[j] # NoSession
                             /\ sess'[i].req = sess'[j].req => i = j
    BY <1>3 DEF SessionsOK, BeginHeld
  <2>4. \A q \in Req : reqs'[q] = "begin"
                          => \E j \in Key : sess'[j] # NoSession /\ sess'[j].req = q
    <3> SUFFICES ASSUME NEW q \in Req, reqs'[q] = "begin"
                 PROVE  \E j \in Key : sess'[j] # NoSession /\ sess'[j].req = q
      OBVIOUS
    <3>1. q # r /\ reqs[q] = "begin"
      BY <1>4
    <3>2. PICK j \in Key : sess[j] # NoSession /\ sess[j].req = q
      BY <3>1 DEF SessionsOK, BeginHeld
    <3>3. j # k
      BY <3>1, <3>2 DEF r
    <3> QED
      BY <3>2, <3>3, <1>3
  <2> QED
    BY <2>1, <2>2, <2>3, <2>4 DEF BeginHeld
<1>8. DialogueStable'
  BY <1>3 DEF SessionsOK, DialogueStable
<1> QED
  BY <1>2, <1>5, <1>7, <1>8 DEF SessionsOK

(* A free request is taken that no session holds. *)
LEMMA OtherKeeps ==
    ASSUME SessionsOK, NEW r \in Req, reqs[r] = "free",
           sess' = sess, reqs' = [reqs EXCEPT ![r] = "other"]
    PROVE  SessionsOK'
<1>1. \A q \in Req : reqs'[q] = IF q = r THEN "other" ELSE reqs[q]
  BY DEF SessionsOK
<1>2. reqs' \in [Req -> {"free", "begin", "other"}]
  BY DEF SessionsOK
<1>3. \A j \in Key : sess[j] # NoSession
                        => sess[j].req \in Req /\ sess[j].req # r
  BY DEF SessionsOK, BeginHeld, Session
<1>4. BeginHeld'
  BY <1>1, <1>3 DEF SessionsOK, BeginHeld
<1> QED
  BY <1>2, <1>4 DEF SessionsOK, DialogueStable

(* Nothing happens to sessions and requests. *)
LEMMA SameKeeps ==
    ASSUME SessionsOK, sess' = sess, reqs' = reqs
    PROVE  SessionsOK'
BY DEF SessionsOK, BeginHeld, DialogueStable

(* The program dies and starts again. *)
LEMMA RestartKeeps ==
    ASSUME IInv, Restart
    PROVE  IInv'
<1>1. SessionsOK'
  BY DEF Restart, SessionsOK, BeginHeld, DialogueStable
<1>2. SurroundingsOK'
  BY DEF IInv, SurroundingsOK, Restart
<1>3. TimersHaveSessions'
  BY DEF Restart, TimersHaveSessions
<1> QED
  BY <1>1, <1>2, <1>3 DEF IInv

-----------------------------------------------------------------------------
(* The actions. *)

(* A session is begun and its first message handled. *)
LEMMA DispatchedKeeps ==
    ASSUME IInv, NEW k \in Key, sess[k] = NoSession, NEW r \in Req, reqs[r] = "free",
           NEW p \in Vlr \cup Euse, NEW c \in Code,
           Dispatched(k, r, Begun(r, p, c), p \in Euse)
    PROVE  IInv'
<1> DEFINE s == Begun(r, p, c)
<1>1. SessionsOK /\ SurroundingsOK /\ TimersHaveSessions
  BY DEF IInv
<1>2. /\ s \in Session /\ Stable(s) /\ s.req = r
      /\ s.ext => s.use # Internal
      /\ s.use = Internal => HandledInternally(s, p \in Euse)
  BY <1>1, BegunIs
<1>3. Dispatched(k, r, s, p \in Euse)
  OBVIOUS
<1> HIDE DEF s
<1>4. CASE MayDie(s, p \in Euse) /\ Restart
  BY <1>4, RestartKeeps
<1>5. CASE ~(MayDie(s, p \in Euse) /\ Restart)
  <2>1. UNCHANGED <<euses, route, default, up, vlrOf, due>>
    BY <1>3, <1>5 DEF Dispatched
  <2>2. SurroundingsOK'
    BY <1>1, <2>1 DEF SurroundingsOK
  <2>3. CASE HandledInternally(s, p \in Euse)
    <3>1. sess' = sess /\ reqs' = reqs
      BY <1>3, <1>5, <2>3 DEF Dispatched
    <3>2. SessionsOK'
      BY <1>1, <3>1, SameKeeps
    <3>3. TimersHaveSessions'
      BY <1>1, <2>1, <3>1 DEF TimersHaveSessions
    <3> QED
      BY <2>2, <3>2, <3>3 DEF IInv
  <2>4. CASE ~HandledInternally(s, p \in Euse)
    <3>1. PICK name \in EuseName(s) :
             sess' = [sess EXCEPT ![k] = handle_ussd(s, k[1], p \in Euse, name)]
      BY <1>3, <1>5, <2>4 DEF Dispatched
    <3>2. reqs' = [reqs EXCEPT ![r] = "begin"]
      BY <1>3, <1>5, <2>4 DEF Dispatched
    <3> DEFINE t == handle_ussd(s, k[1], p \in Euse, name)
    <3>3. k[1] \in Imsi
      BY DEF Key
    <3>4. (p \in Euse) \in BOOLEAN
      OBVIOUS
    <3>5. t \in Session /\ Stable(t) /\ t.req = s.req /\ t.use = s.use
      BY <1>1, <1>2, <3>3, <3>4, HandleKeeps, Zenon
    <3>6. sess' = [sess EXCEPT ![k] = t]
      BY <3>1
    <3> HIDE DEF t
    <3>7. Settled(t) /\ t.req = r
      BY <1>2, <2>4, <3>5 DEF Settled
    <3>8. SessionsOK'
      BY <1>1, <3>2, <3>6, <3>7, AddKeeps, Zenon
    <3>9. TimersHaveSessions'
      BY <1>1, <2>1, <3>6 DEF TimersHaveSessions, SessionsOK, SurroundingsOK
    <3> QED
      BY <2>2, <3>8, <3>9 DEF IInv
  <2> QED
    BY <2>3, <2>4
<1> QED
  BY <1>4, <1>5

LEMMA BeginKeeps ==
    ASSUME IInv, NEW p \in Vlr \cup Euse, NEW k \in Key, NEW r \in Req,
           NEW ussd \in BOOLEAN, NEW c \in Code, RxBegin(p, k, r, ussd, c)
    PROVE  IInv'
<1>1. SessionsOK /\ SurroundingsOK /\ TimersHaveSessions
  BY DEF IInv
<1>2. CASE sess[k] # NoSession
  <2>1. UNCHANGED vars
    BY <1>2 DEF RxBegin
  <2>2. SessionsOK'
    BY <1>1, <2>1, SameKeeps DEF vars
  <2> QED
    BY <1>1, <2>1, <2>2 DEF vars, IInv, SurroundingsOK, TimersHaveSessions
<1>3. CASE sess[k] = NoSession /\ ussd = TRUE
  <2>1. reqs[r] = "free" /\ Dispatched(k, r, Begun(r, p, c), p \in Euse)
    BY <1>3 DEF RxBegin
  <2> QED
    BY <1>3, <2>1, DispatchedKeeps
<1>4. CASE sess[k] = NoSession /\ ussd = FALSE
  <2> DEFINE n == NewSession(r, p, FALSE, Null)
             t == ss_gsup_send_to_ms(n, k[1])
  <2>1. /\ reqs[r] = "free" /\ sess' = [sess EXCEPT ![k] = t]
        /\ reqs' = [reqs EXCEPT ![r] = "begin"]
        /\ UNCHANGED <<euses, route, default, up, vlrOf, due>>
    BY <1>4 DEF RxBegin
  <2>2. n \in Session /\ Stable(n) /\ n.req = r /\ n.use = Null
    BY DEF NewSession, Session, Stable
  <2>3. k[1] \in Imsi
    BY DEF Key
  <2> HIDE DEF n
  <2>4. t \in Session /\ Stable(t) /\ t.req = n.req /\ t.use = n.use
    BY <1>1, <2>2, <2>3, SendKeeps
  <2> HIDE DEF t
  <2>5. Settled(t) /\ t.req = r
    BY <2>2, <2>4, MarkersAssumption DEF Settled
  <2>6. SessionsOK'
    BY <1>1, <1>4, <2>1, <2>5, AddKeeps, Zenon
  <2>7. SurroundingsOK'
    BY <1>1, <2>1 DEF SurroundingsOK
  <2>8. TimersHaveSessions'
    BY <1>1, <1>4, <2>1 DEF TimersHaveSessions, SessionsOK, SurroundingsOK
  <2> QED
    BY <2>6, <2>7, <2>8 DEF IInv
<1> QED
  BY <1>2, <1>3, <1>4

LEMMA ContinueKeeps ==
    ASSUME IInv, NEW p \in Vlr \cup Euse, NEW k \in Key, NEW ussd \in BOOLEAN,
           RxContinue(p, k, ussd)
    PROVE  IInv'
<1>1. SessionsOK /\ SurroundingsOK /\ TimersHaveSessions /\ sess[k] # NoSession
  BY DEF IInv, RxContinue
<1> DEFINE s == sess[k]
           e == p \in Euse
<1>2. Settled(s)
  BY <1>1, AllSettled
<1>3. s \in Session /\ Stable(s) /\ s.use # Internal
  BY <1>2 DEF Settled
<1>4. k[1] \in Imsi
  BY DEF Key
<1>5. e \in BOOLEAN
  OBVIOUS
<1>6. CASE Restart
  BY <1>6, RestartKeeps
<1>7. CASE ~Restart
  <2>1. PICK name \in EuseName(s) :
           sess' = [sess EXCEPT ![k] = IF ussd THEN handle_ussd(@, k[1], p \in Euse, name)
                                       ELSE ss_gsup_send_to_ms(@, k[1])]
    BY <1>7 DEF RxContinue
  <2>2. due' = due \ {k} /\ UNCHANGED <<reqs, euses, route, default, up, vlrOf>>
    BY <1>7 DEF RxContinue
  <2> DEFINE t == IF ussd THEN handle_ussd(s, k[1], e, name)
                  ELSE ss_gsup_send_to_ms(s, k[1])
  <2>3. sess' = [sess EXCEPT ![k] = t]
    BY <2>1
  <2>4. LET u == handle_ussd(s, k[1], e, name)
        IN  u \in Session /\ Stable(u) /\ u.req = s.req /\ u.use = s.use
    <3> HIDE DEF s, e
    <3> QED
      BY <1>1, <1>3, <1>4, <1>5, HandleKeeps, Zenon
  <2>5. LET u == ss_gsup_send_to_ms(s, k[1])
        IN  u \in Session /\ Stable(u) /\ u.req = s.req /\ u.use = s.use
    <3> HIDE DEF s
    <3> QED
      BY <1>1, <1>3, <1>4, SendKeeps, Zenon
  <2>6. t \in Session /\ Stable(t) /\ t.req = s.req /\ t.use = s.use
    BY <2>4, <2>5
  <2> HIDE DEF t
  <2>7. Settled(t) /\ t.req = sess[k].req
    BY <1>3, <2>6 DEF Settled
  <2>8. SessionsOK'
    BY <1>1, <2>2, <2>3, <2>7, ChangeKeeps
  <2>9. SurroundingsOK'
    BY <1>1, <2>2 DEF SurroundingsOK
  <2>10. TimersHaveSessions'
    BY <1>1, <2>2, <2>3 DEF TimersHaveSessions, SessionsOK, SurroundingsOK
  <2> QED
    BY <2>8, <2>9, <2>10 DEF IInv
<1> QED
  BY <1>6, <1>7

LEMMA EndKeeps ==
    ASSUME IInv, NEW p \in Vlr \cup Euse, NEW k \in Key, NEW payload \in BOOLEAN,
           RxEnd(p, k, payload)
    PROVE  IInv'
<1>1. SessionsOK /\ SurroundingsOK /\ TimersHaveSessions
  BY DEF IInv
<1>2. CASE Restart
  BY <1>2, RestartKeeps
<1>3. CASE sess[k] = NoSession
  <2>1. PICK r \in Req : reqs[r] = "free" /\ reqs' = [reqs EXCEPT ![r] = "other"]
    BY <1>3 DEF RxEnd
  <2>2. UNCHANGED <<sess, due, euses, route, default, up, vlrOf>>
    BY <1>3 DEF RxEnd
  <2>3. SessionsOK'
    BY <1>1, <2>1, <2>2, OtherKeeps
  <2> QED
    BY <1>1, <2>2, <2>3 DEF IInv, SurroundingsOK, TimersHaveSessions
<1>4. CASE sess[k] # NoSession /\ ~Restart
  <2>1. ss_session_free(k, reqs) /\ UNCHANGED <<euses, route, default, up, vlrOf>>
    BY <1>4 DEF RxEnd
  <2>2. SessionsOK'
    BY <1>1, <1>4, <2>1, FreeKeeps
  <2>3. SurroundingsOK'
    BY <1>1, <2>1 DEF SurroundingsOK, ss_session_free
  <2>4. TimersHaveSessions'
    BY <1>1, <2>1 DEF TimersHaveSessions, SessionsOK, SurroundingsOK, ss_session_free
  <2> QED
    BY <2>2, <2>3, <2>4 DEF IInv
<1> QED
  BY <1>2, <1>3, <1>4

LEMMA ErrorKeeps ==
    ASSUME IInv, NEW p \in Vlr \cup Euse, NEW r \in Req, rx_proc_ss_error(p, r)
    PROVE  IInv'
<1>1. SessionsOK'
  BY OtherKeeps DEF IInv, rx_proc_ss_error
<1>2. SurroundingsOK'
  BY DEF IInv, SurroundingsOK, rx_proc_ss_error
<1> QED
  BY <1>1, <1>2 DEF IInv, TimersHaveSessions, rx_proc_ss_error

LEMMA GuardKeeps ==
    ASSUME IInv, NEW k \in Key, GuardElapses(k) \/ ss_session_timeout(k)
    PROVE  IInv'
<1>1. SessionsOK /\ SurroundingsOK /\ TimersHaveSessions
  BY DEF IInv
<1>2. CASE GuardElapses(k)
  <2>1. SessionsOK'
    BY <1>1, <1>2, SameKeeps DEF GuardElapses
  <2>2. SurroundingsOK'
    BY <1>1, <1>2 DEF SurroundingsOK, GuardElapses
  <2>3. TimersHaveSessions'
    BY <1>1, <1>2 DEF TimersHaveSessions, GuardElapses
  <2> QED
    BY <2>1, <2>2, <2>3 DEF IInv
<1>3. CASE ss_session_timeout(k)
  <2>1. sess[k] # NoSession /\ ss_session_free(k, reqs)
    BY <1>1, <1>3 DEF TimersHaveSessions, ss_session_timeout
  <2>2. SessionsOK'
    BY <1>1, <2>1, FreeKeeps
  <2>3. SurroundingsOK'
    BY <1>1, <1>3 DEF SurroundingsOK, ss_session_timeout, ss_session_free
  <2>4. TimersHaveSessions'
    BY <1>1, <2>1 DEF TimersHaveSessions, SessionsOK, SurroundingsOK, ss_session_free
  <2> QED
    BY <2>2, <2>3, <2>4 DEF IInv
<1> QED
  BY <1>2, <1>3

(* An EUSE goes: sessions that refer to it are settled still. *)
LEMMA NoEuseKeeps ==
    ASSUME IInv, NEW e \in Euse, cfg_no_euse(e)
    PROVE  IInv'
<1>1. SessionsOK /\ SurroundingsOK /\ TimersHaveSessions
  BY DEF IInv
<1>2. /\ reqs' = reqs /\ due' = due /\ default' = default /\ up' = up /\ vlrOf' = vlrOf
      /\ euses' = euses \ {e}
      /\ route' = [c \in Code |-> IF route[c] = e THEN Freed ELSE route[c]]
  BY DEF cfg_no_euse
<1>3. ASSUME NEW k \in Key, sess[k] # NoSession
      PROVE  /\ sess'[k] \in Session /\ sess'[k].use # Internal /\ Stable(sess'[k])
             /\ sess'[k].req = sess[k].req
  <2> DEFINE s == sess[k]
  <2>1. s \in Session /\ Stable(s) /\ s.use # Internal
    BY <1>1, <1>3, AllSettled DEF Settled
  <2>2. CASE s.use = e
    <3> DEFINE t == [s EXCEPT !.use = Freed]
    <3>1. sess'[k] = t
      BY <1>3, <2>2 DEF cfg_no_euse
    <3> HIDE DEF s
    <3>2. /\ t \in Session /\ t.use = Freed /\ t.req = s.req
          /\ t.toMs = s.toMs /\ t.vlr = s.vlr
      BY <2>1 DEF Session
    <3> HIDE DEF t
    <3>3. Stable(t)
      BY <2>1, <3>2 DEF Stable
    <3> QED
      BY <3>1, <3>2, <3>3, MarkersAssumption DEF s
  <2>3. CASE s.use # e
    <3>1. sess'[k] = s
      BY <2>3 DEF cfg_no_euse
    <3> QED
      BY <2>1, <3>1
  <2> QED
    BY <2>2, <2>3
<1>4. \A k \in Key : sess[k] = NoSession => sess'[k] = NoSession
  BY DEF cfg_no_euse
<1>5. \A k \in Key : sess'[k] # NoSession <=> sess[k] # NoSession
  BY <1>3, <1>4, NoSessionAssumption
<1>6. sess' \in [Key -> Session \cup {NoSession}]
  <2>1. sess' = [k \in Key |-> sess'[k]]
    BY DEF cfg_no_euse
  <2>2. \A k \in Key : sess'[k] \in Session \cup {NoSession}
    BY <1>3, <1>4
  <2> QED
    BY <2>1, <2>2
<1>7. BeginHeld'
  <2>1. \A k \in Key : sess'[k] # NoSession
                           => sess'[k].use # Internal /\ sess'[k].req = sess[k].req
    BY <1>3, <1>5
  <2> QED
    BY <1>1, <1>2, <1>5, <2>1 DEF SessionsOK, BeginHeld
<1>8. DialogueStable'
  BY <1>3, <1>5 DEF DialogueStable, Stable
<1>9. SessionsOK'
  BY <1>1, <1>2, <1>6, <1>7, <1>8 DEF SessionsOK
<1>10. SurroundingsOK'
  BY <1>1, <1>2 DEF SurroundingsOK
<1>11. TimersHaveSessions'
  BY <1>1, <1>2, <1>5 DEF TimersHaveSessions, SurroundingsOK
<1> QED
  BY <1>9, <1>10, <1>11 DEF IInv

(* The rest leaves sessions, requests and timers alone. *)
LEMMA RestKeeps ==
    ASSUME IInv, UNCHANGED <<sess, reqs, due>>, SurroundingsOK'
    PROVE  IInv'
<1>1. SessionsOK'
  BY SameKeeps DEF IInv
<1> QED
  BY <1>1 DEF IInv, TimersHaveSessions

LEMMA ConfigKeeps ==
    ASSUME IInv, Config
    PROVE  IInv'
<1>1. SurroundingsOK
  BY DEF IInv
<1>2. ASSUME NEW e \in Euse, cfg_euse(e) PROVE IInv'
  <2>1. SurroundingsOK'
    BY <1>1, <1>2 DEF SurroundingsOK, cfg_euse
  <2> QED
    BY <1>2, <2>1, RestKeeps DEF cfg_euse
<1>3. ASSUME NEW e \in Euse, cfg_no_euse(e) PROVE IInv'
  BY <1>3, NoEuseKeeps
<1>4. ASSUME NEW c \in Code, NEW t \in Euse \cup {Internal}, cfg_ussd_route_pfx(c, t)
      PROVE  IInv'
  <2>1. SurroundingsOK'
    BY <1>1, <1>4 DEF SurroundingsOK, cfg_ussd_route_pfx
  <2> QED
    BY <1>4, <2>1, RestKeeps DEF cfg_ussd_route_pfx
<1>5. ASSUME NEW c \in Code, cfg_ussd_no_route_pfx(c) PROVE IInv'
  <2>1. SurroundingsOK'
    BY <1>1, <1>5 DEF SurroundingsOK, cfg_ussd_no_route_pfx
  <2> QED
    BY <1>5, <2>1, RestKeeps DEF cfg_ussd_no_route_pfx
<1>6. ASSUME NEW e \in Euse \cup {Null}, cfg_ussd_defaultroute(e) PROVE IInv'
  <2>1. SurroundingsOK'
    BY <1>1, <1>6 DEF SurroundingsOK, cfg_ussd_defaultroute
  <2> QED
    BY <1>6, <2>1, RestKeeps DEF cfg_ussd_defaultroute
<1> QED
  BY <1>2, <1>3, <1>4, <1>5, <1>6 DEF Config

LEMMA SurroundingsKeep ==
    ASSUME IInv, Surroundings
    PROVE  IInv'
<1>1. SurroundingsOK
  BY DEF IInv
<1>2. ASSUME NEW i \in Imsi, NEW v \in Vlr \cup {Empty, NoSubscr}, LocationChanges(i, v)
      PROVE  IInv'
  <2>1. SurroundingsOK'
    BY <1>1, <1>2 DEF SurroundingsOK, LocationChanges
  <2> QED
    BY <1>2, <2>1, RestKeeps DEF LocationChanges
<1>3. ASSUME NEW p \in Vlr \cup Euse, PeerConnects(p) PROVE IInv'
  <2>1. SurroundingsOK'
    BY <1>1, <1>3 DEF SurroundingsOK, PeerConnects
  <2> QED
    BY <1>3, <2>1, RestKeeps DEF PeerConnects
<1> QED
  BY <1>2, <1>3 DEF Surroundings

-----------------------------------------------------------------------------
(* The theorems. *)

(* The invariant holds initially. *)
LEMMA InitOK == Init => IInv
<1> SUFFICES ASSUME Init PROVE IInv
  OBVIOUS
<1>1. SessionsOK
  BY DEF Init, SessionsOK, BeginHeld, DialogueStable
<1>2. SurroundingsOK
  BY DEF Init, SurroundingsOK
<1> QED
  BY <1>1, <1>2 DEF IInv, Init, TimersHaveSessions

(* Every step keeps it. *)
LEMMA NextKeeps == IInv /\ [Next]_vars => IInv'
<1> SUFFICES ASSUME IInv, [Next]_vars PROVE IInv'
  OBVIOUS
<1>1. ASSUME NEW p \in Vlr \cup Euse, NEW k \in Key, NEW r \in Req,
             NEW ussd \in BOOLEAN, NEW c \in Code, RxBegin(p, k, r, ussd, c)
      PROVE  IInv'
  BY <1>1, BeginKeeps
<1>2. ASSUME NEW p \in Vlr \cup Euse, NEW k \in Key, NEW ussd \in BOOLEAN,
             RxContinue(p, k, ussd)
      PROVE  IInv'
  BY <1>2, ContinueKeeps
<1>3. ASSUME NEW p \in Vlr \cup Euse, NEW k \in Key, NEW payload \in BOOLEAN,
             RxEnd(p, k, payload)
      PROVE  IInv'
  BY <1>3, EndKeeps
<1>4. ASSUME NEW p \in Vlr \cup Euse, NEW r \in Req, rx_proc_ss_error(p, r)
      PROVE  IInv'
  BY <1>4, ErrorKeeps
<1>5. ASSUME NEW k \in Key, GuardElapses(k) \/ ss_session_timeout(k) PROVE IInv'
  BY <1>5, GuardKeeps
<1>6. CASE Config
  BY <1>6, ConfigKeeps
<1>7. CASE Surroundings
  BY <1>7, SurroundingsKeep
<1>8. CASE UNCHANGED vars
  <2>1. SurroundingsOK'
    BY <1>8 DEF IInv, SurroundingsOK, vars
  <2> QED
    BY <1>8, <2>1, RestKeeps DEF vars
<1>9. CASE Rx
  BY <1>1, <1>2, <1>3, <1>4, <1>9, Zenon DEF Rx
<1> QED
  BY <1>5, <1>6, <1>7, <1>8, <1>9 DEF Next

LEMMA Invariance == Spec => []IInv
BY InitOK, NextKeeps, PTL DEF Spec

(* Sessions, requests, configuration and subscribers keep their types: the *)
(* messages of a session go to VLRs and EUSEs only.                        *)
THEOREM TypeCorrect == Spec => []TypeOK
<1>1. IInv => TypeOK
  BY IInvIs
<1> QED
  BY <1>1, Invariance, PTL

(* ss_session_free() concludes the request of a session exactly once: each *)
(* session holds one of its own, and each open BEGIN request is held.      *)
THEOREM BeginsHeld == Spec => []BeginHeld
<1>1. IInv => BeginHeld
  BY IInvIs
<1> QED
  BY <1>1, Invariance, PTL

(* The messages of a session go to one VLR and to one EUSE, whatever the   *)
(* operator reconfigures and wherever the phone moves: vlr_name and the    *)
(* pointer in the session are set once.                                    *)
THEOREM DialoguesStable == Spec => []DialogueStable
<1>1. IInv => DialogueStable
  BY IInvIs
<1> QED
  BY <1>1, Invariance, PTL

(* ss_session_timeout() is never called for a session that was freed.      *)
THEOREM TimersSound == Spec => []TimersHaveSessions
<1>1. IInv => TimersHaveSessions
  BY IInvIs
<1> QED
  BY <1>1, Invariance, PTL

(* euse_default is NULL or in the list of EUSEs: unlike those of routes    *)
(* and sessions, this pointer never outlives its EUSE.                     *)
DefaultConfigured == default \in euses \cup {Null}

THEOREM DefaultSound == Spec => []DefaultConfigured
<1>1. Init => DefaultConfigured
  BY DEF Init, DefaultConfigured
<1>2. DefaultConfigured /\ [Next]_vars => DefaultConfigured'
  <2> SUFFICES ASSUME DefaultConfigured, [Next]_vars PROVE DefaultConfigured'
    OBVIOUS
  <2>1. CASE UNCHANGED <<euses, default>>
    BY <2>1 DEF DefaultConfigured
  <2>2. CASE Config
    BY <2>2 DEF DefaultConfigured, Config, cfg_euse, cfg_no_euse, cfg_ussd_route_pfx,
                cfg_ussd_no_route_pfx, cfg_ussd_defaultroute
  <2>3. CASE Rx
    <3>1. PICK p \in Vlr \cup Euse, k \in Key :
             \/ \E r \in Req, ussd \in BOOLEAN, c \in Code : RxBegin(p, k, r, ussd, c)
             \/ \E ussd \in BOOLEAN : RxContinue(p, k, ussd)
             \/ \E payload \in BOOLEAN : RxEnd(p, k, payload)
             \/ \E r \in Req : rx_proc_ss_error(p, r)
      BY <2>3 DEF Rx
    <3>2. ASSUME NEW r \in Req, NEW ussd \in BOOLEAN, NEW c \in Code,
                 RxBegin(p, k, r, ussd, c)
          PROVE  UNCHANGED <<euses, default>>
      <4> DEFINE b == Begun(r, p, c)
                 e == p \in Euse
      <4>1. CASE UNCHANGED vars
        BY <4>1 DEF vars
      <4>2. CASE Dispatched(k, r, b, e)
        <5> HIDE DEF b, e
        <5> QED
          BY <4>2 DEF Dispatched, Restart
      <4>3. CASE UNCHANGED <<euses, route, default, up, vlrOf, due>>
        BY <4>3
      <4> QED
        BY <3>2, <4>1, <4>2, <4>3 DEF RxBegin
    <3>3. ASSUME NEW ussd \in BOOLEAN, RxContinue(p, k, ussd)
          PROVE  UNCHANGED <<euses, default>>
      BY <3>3 DEF RxContinue, Restart
    <3>4. ASSUME NEW payload \in BOOLEAN, RxEnd(p, k, payload)
          PROVE  UNCHANGED <<euses, default>>
      BY <3>4 DEF RxEnd, Restart
    <3>5. ASSUME NEW r \in Req, rx_proc_ss_error(p, r)
          PROVE  UNCHANGED <<euses, default>>
      BY <3>5 DEF rx_proc_ss_error
    <3> QED
      BY <2>1, <3>1, <3>2, <3>3, <3>4, <3>5
  <2>4. CASE Surroundings
    BY <2>1, <2>4 DEF Surroundings, LocationChanges, PeerConnects
  <2>5. ASSUME NEW k \in Key, GuardElapses(k) \/ ss_session_timeout(k)
        PROVE  DefaultConfigured'
    BY <2>1, <2>5 DEF GuardElapses, ss_session_timeout
  <2>6. CASE UNCHANGED vars
    BY <2>1, <2>6 DEF vars
  <2> QED
    BY <2>2, <2>3, <2>4, <2>5, <2>6 DEF Next
<1> QED
  BY <1>1, <1>2, PTL DEF Spec

=============================================================================
