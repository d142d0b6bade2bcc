----------------------------- MODULE ProxyProofs -----------------------------
(***************************************************************************)
(* Proofs about the proxy, for any subscribers, VLRs, remote HLRs and      *)
(* number of messages.  TypeOK, LookupMatchesEntry and Awaited together    *)
(* are inductive; PrelimLatest in addition gives VlrMovesToLatest, and     *)
(* OrderInv, which knows where deferred messages can be, ForwardedInOrder. *)
(***************************************************************************)
EXTENDS Proxy, TLAPS

IInv == TypeOK /\ LookupMatchesEntry /\ Awaited

(* What Awaited says of message n, given links, messages and entries. *)
Waits(l, r, e, n) ==
    LET x == e[r[n].imsi]
    IN  x # NoEntry /\ (x.addr = NoAddr \/ l[x.addr] = "awaited")

(* Awaited in these terms. *)
LEMMA AwaitedIs ==
    Awaited <=> \A n \in Nr : reqs[n].st = "deferred" /\ n \notin lost
                                 => Waits(link, reqs, entry, n)
BY DEF Awaited, Waits

(* And of the next state. *)
LEMMA AwaitedIsPrime ==
    Awaited' <=> \A n \in Nr : reqs'[n].st = "deferred" /\ n \notin lost'
                                  => Waits(link', reqs', entry', n)
BY DEF Awaited, Waits

(* Popping changes the state of deferred messages of S and nothing else. *)
LEMMA PopIs ==
    ASSUME NEW r \in [Nr -> Request], NEW S \in SUBSET Imsi,
           NEW st \in {"forwarded", "refused"}
    PROVE  LET p == proxy_deferred_gsup_req_pop(r, S, st)
           IN  /\ p \in [Nr -> Request]
               /\ \A n \in Nr : /\ p[n].imsi = r[n].imsi
                                /\ p[n].st = "deferred"
                                     => p[n] = r[n] /\ r[n].imsi \notin S
BY DEF proxy_deferred_gsup_req_pop, Request

(* After asking for a link with a call-back, the links and messages have   *)
(* their types, no message is newly deferred, and those that waited, or    *)
(* are homed at the address, wait for the link if they are still deferred. *)
LEMMA ConnectKeeps ==
    ASSUME NEW l \in [Hlr -> Link], NEW r \in [Nr -> Request],
           NEW e \in [Imsi -> Entry \cup {NoEntry}], NEW h \in Hlr,
           NEW o \in remote_hlr_get_or_connect(l, r, e, h)
    PROVE  /\ o.link \in [Hlr -> Link] /\ o.reqs \in [Nr -> Request]
           /\ \A n \in Nr : o.reqs[n].st = "deferred" =>
                 /\ r[n].st = "deferred" /\ o.reqs[n].imsi = r[n].imsi
                 /\ (Waits(l, r, e, n) \/ r[n].imsi \in HomedAt(e, h))
                       => Waits(o.link, o.reqs, e, n)
<1> DEFINE S == HomedAt(e, h)
<1>1. S \in SUBSET Imsi
  BY DEF HomedAt
<1>2. CASE l[h] = "up"
  <2>1. o = Outcome(l, proxy_deferred_gsup_req_pop(r, S, "forwarded"))
    BY <1>2 DEF remote_hlr_get_or_connect, proxy_remote_hlr_connect_result_cb
  <2>2. o.link = l /\ o.reqs = proxy_deferred_gsup_req_pop(r, S, "forwarded")
    BY <2>1 DEF Outcome
  <2> QED
    BY <1>1, <2>2, PopIs DEF Waits
<1>3. CASE l[h] = "none"
  <2>1. \/ o = Outcome([l EXCEPT ![h] = "awaited"], r)
        \/ o = Outcome(l, proxy_deferred_gsup_req_pop(r, S, "refused"))
    BY <1>3 DEF remote_hlr_get_or_connect, proxy_remote_hlr_connect_result_cb
  <2>2. CASE o = Outcome([l EXCEPT ![h] = "awaited"], r)
    <3>1. o.link = [l EXCEPT ![h] = "awaited"] /\ o.reqs = r
      BY <2>2 DEF Outcome
    <3> QED
      BY <3>1 DEF Waits, HomedAt, Link
  <2>3. CASE o = Outcome(l, proxy_deferred_gsup_req_pop(r, S, "refused"))
    <3>1. o.link = l /\ o.reqs = proxy_deferred_gsup_req_pop(r, S, "refused")
      BY <2>3 DEF Outcome
    <3> QED
      BY <1>1, <3>1, PopIs DEF Waits
  <2> QED
    BY <2>1, <2>2, <2>3
<1>4. CASE l[h] \notin {"up", "none"}
  <2>1. o = Outcome([l EXCEPT ![h] = "awaited"], r)
    BY <1>4 DEF remote_hlr_get_or_connect
  <2>2. o.link = [l EXCEPT ![h] = "awaited"] /\ o.reqs = r
    BY <2>1 DEF Outcome
  <2> QED
    BY <2>2 DEF Waits, HomedAt, Link
<1> QED
  BY <1>2, <1>3, <1>4

(* The same when an address was found: all messages of the subscriber now  *)
(* wait for the link.                                                      *)
LEMMA ResolvedKeeps ==
    ASSUME NEW l \in [Hlr -> Link], NEW r \in [Nr -> Request],
           NEW e \in [Imsi -> Entry \cup {NoEntry}], NEW h \in Hlr, NEW i \in Imsi,
           i \in HomedAt(e, h),
           NEW o \in proxy_subscr_remote_hlr_resolved(l, r, e, i, h)
    PROVE  /\ o.link \in [Hlr -> Link] /\ o.reqs \in [Nr -> Request]
           /\ \A n \in Nr : o.reqs[n].st = "deferred" =>
                 /\ r[n].st = "deferred" /\ o.reqs[n].imsi = r[n].imsi
                 /\ (Waits(l, r, e, n) \/ r[n].imsi = i)
                       => Waits(o.link, o.reqs, e, n)
<1>1. CASE proxy_deferred_gsup_req_waiting(r, i)
  <2>1. o \in remote_hlr_get_or_connect(l, r, e, h)
    BY <1>1 DEF proxy_subscr_remote_hlr_resolved
  <2> QED
    BY <2>1, ConnectKeeps
<1>2. CASE ~proxy_deferred_gsup_req_waiting(r, i)
  <2>1. o.link = l /\ o.reqs = r
    BY <1>2 DEF proxy_subscr_remote_hlr_resolved, Outcome
  <2> QED
    BY <1>2, <2>1 DEF proxy_deferred_gsup_req_waiting
<1> QED
  BY <1>1, <1>2

(* Neither changes whom a message is about. *)
LEMMA ResolvedImsi ==
    ASSUME NEW l \in [Hlr -> Link], NEW r \in [Nr -> Request],
           NEW e \in [Imsi -> Entry \cup {NoEntry}], NEW h \in Hlr, NEW i \in Imsi,
           NEW o \in proxy_subscr_remote_hlr_resolved(l, r, e, i, h)
    PROVE  \A n \in Nr : o.reqs[n].imsi = r[n].imsi
<1> DEFINE S == HomedAt(e, h)
<1>1. \/ o.reqs = r
      \/ o.reqs = proxy_deferred_gsup_req_pop(r, S, "forwarded")
      \/ o.reqs = proxy_deferred_gsup_req_pop(r, S, "refused")
  BY DEF proxy_subscr_remote_hlr_resolved, remote_hlr_get_or_connect,
         proxy_remote_hlr_connect_result_cb, Outcome
<1>2. S \in SUBSET Imsi
  BY DEF HomedAt
<1> QED
  BY <1>1, <1>2, PopIs

(* The same when message n of subscriber i was just received and is        *)
(* forwarded or deferred: it is the only one that may be newly deferred,   *)
(* and then it waits.                                                      *)
LEMMA ForwardKeeps ==
    ASSUME NEW l \in [Hlr -> Link], NEW r \in [Nr -> Request],
           NEW e \in [Imsi -> Entry \cup {NoEntry}], NEW i \in Imsi, e[i] # NoEntry,
           NEW n \in Nr, r[n].imsi = i,
           NEW o \in proxy_subscr_forward_to_remote_hlr(l, r, e, i, n)
    PROVE  /\ o.link \in [Hlr -> Link] /\ o.reqs \in [Nr -> Request]
           /\ \A m \in Nr : o.reqs[m].st = "deferred" =>
                 /\ m # n => r[m].st = "deferred"
                 /\ o.reqs[m].imsi = r[m].imsi
                 /\ (Waits(l, r, e, m) \/ m = n) => Waits(o.link, o.reqs, e, m)
<1> DEFINE deferred == [r EXCEPT ![n].st = "deferred"]
           sent == [r EXCEPT ![n].st = "forwarded"]
<1>1. /\ deferred \in [Nr -> Request] /\ sent \in [Nr -> Request]
      /\ \A m \in Nr : /\ deferred[m].imsi = r[m].imsi /\ sent[m].imsi = r[m].imsi
                       /\ m # n => deferred[m] = r[m] /\ sent[m] = r[m]
      /\ sent[n].st = "forwarded"
  BY DEF Request
<1>2. e[i].addr \in Hlr \cup {NoAddr}
  BY DEF Entry
<1> HIDE DEF deferred, sent
<1>3. CASE e[i].addr = NoAddr
  <2>1. o.link = l /\ o.reqs = deferred
    BY <1>3 DEF proxy_subscr_forward_to_remote_hlr, Outcome, deferred
  <2> QED
    BY <1>1, <1>3, <2>1 DEF Waits
<1>4. CASE e[i].addr # NoAddr /\ l[e[i].addr] = "up"
  <2>1. o.link = l /\ o.reqs = sent
    BY <1>4 DEF proxy_subscr_forward_to_remote_hlr, Outcome, sent
  <2> QED
    BY <1>1, <2>1 DEF Waits
<1>5. CASE e[i].addr # NoAddr /\ l[e[i].addr] # "up"
  <2>1. o \in remote_hlr_get_or_connect(l, deferred, e, e[i].addr)
    BY <1>5 DEF proxy_subscr_forward_to_remote_hlr, deferred
  <2>2. /\ o.link \in [Hlr -> Link] /\ o.reqs \in [Nr -> Request]
        /\ \A m \in Nr : o.reqs[m].st = "deferred" =>
              /\ deferred[m].st = "deferred" /\ o.reqs[m].imsi = deferred[m].imsi
              /\ (Waits(l, deferred, e, m) \/ deferred[m].imsi \in HomedAt(e, e[i].addr))
                    => Waits(o.link, o.reqs, e, m)
    BY <1>1, <1>2, <1>5, <2>1, ConnectKeeps
  <2>3. \A m \in Nr : Waits(l, r, e, m) <=> Waits(l, deferred, e, m)
    BY <1>1 DEF Waits
  <2>4. deferred[n].imsi \in HomedAt(e, e[i].addr)
    BY <1>1 DEF HomedAt
  <2> QED
    BY <1>1, <2>2, <2>3, <2>4
<1> QED
  BY <1>3, <1>4, <1>5

-----------------------------------------------------------------------------
(* One lemma per action. *)

(* A message of a VLR. *)
LEMMA RxIInv ==
    ASSUME IInv, NEW v \in Vlr, NEW i \in Imsi, NEW kind \in Kind, Rx(v, i, kind)
    PROVE  IInv'
<1> DEFINE n == nextNr
           r == [reqs EXCEPT ![n] = [st |-> "local", imsi |-> i, vlr |-> v, kind |-> kind]]
           x == EntryFor(i)
           y == proxy_acknowledge_gsup_to_remote_hlr(x, v, kind)
           first == [entry EXCEPT ![i] = x]
           e == [entry EXCEPT ![i] = y]
<1>1. TypeOK /\ LookupMatchesEntry /\ Awaited /\ n \in Nr
  BY DEF IInv, Rx
<1>2. /\ r \in [Nr -> Request] /\ r[n].imsi = i /\ r[n].st = "local"
      /\ \A m \in Nr : m # n => r[m] = reqs[m]
  BY <1>1 DEF TypeOK, Request
<1>3. x \in Entry /\ (entry[i] # NoEntry => x = entry[i])
                  /\ (entry[i] = NoEntry => x.addr = gateway)
  BY <1>1 DEF EntryFor, TypeOK, Entry, NoNames, Names
<1>4. y \in Entry /\ y.addr = x.addr
  BY <1>3 DEF proxy_acknowledge_gsup_to_remote_hlr, Entry, Names
<1> HIDE DEF x, y
<1>5. /\ first \in [Imsi -> Entry \cup {NoEntry}] /\ e \in [Imsi -> Entry \cup {NoEntry}]
      /\ first[i] = x /\ e[i] = y /\ x # NoEntry /\ y # NoEntry
      /\ \A j \in Imsi : j # i => first[j] = entry[j] /\ e[j] = entry[j]
  BY <1>1, <1>3, <1>4, NoEntryAssumption DEF TypeOK
<1> HIDE DEF r, first, e
<1>6. nextNr' \in 1..(MaxReq + 1)
  BY <1>1, MaxReqAssumption DEF Rx, Nr
<1>7. CASE HandledLocally(i) /\ reqs' = r /\ UNCHANGED <<entry, lookup, link, latest>>
  <2>1. TypeOK'
    BY <1>1, <1>2, <1>6, <1>7 DEF TypeOK, Rx
  <2>2. LookupMatchesEntry'
    BY <1>1, <1>7 DEF LookupMatchesEntry
  <2>3. Awaited'
    BY <1>1, <1>2, <1>7 DEF Awaited, Rx
  <2> QED
    BY <2>1, <2>2, <2>3 DEF IInv
<1>8. CASE ~HandledLocally(i) /\ entry' = e
  <2>1. PICK found \in IF entry[i] = NoEntry /\ gateway # NoAddr
                       THEN proxy_subscr_remote_hlr_resolved(link, r, first, i, gateway)
                       ELSE {Outcome(link, r)} :
             \E sent \in proxy_subscr_forward_to_remote_hlr(found.link, found.reqs, e, i, n) :
                link' = sent.link /\ reqs' = sent.reqs
    BY <1>8 DEF Rx, r, first, e, x, y
  <2>2. PICK sent \in proxy_subscr_forward_to_remote_hlr(found.link, found.reqs, e, i, n) :
                link' = sent.link /\ reqs' = sent.reqs
    BY <2>1
  <2>3. \A m \in Nr : r[m].st = "deferred" /\ m \notin lost => Waits(link, r, first, m)
    BY <1>1, <1>2, <1>3, <1>5 DEF Awaited, Waits, TypeOK, Request
  <2>4. /\ found.link \in [Hlr -> Link] /\ found.reqs \in [Nr -> Request]
        /\ \A m \in Nr : found.reqs[m].st = "deferred" =>
              /\ r[m].st = "deferred" /\ found.reqs[m].imsi = r[m].imsi
              /\ Waits(link, r, first, m) => Waits(found.link, found.reqs, first, m)
        /\ found.reqs[n].imsi = i
    <3>1. CASE entry[i] = NoEntry /\ gateway # NoAddr
      <4>1. gateway \in Hlr /\ i \in HomedAt(first, gateway)
        BY <1>1, <1>3, <1>5, <3>1 DEF HomedAt, TypeOK
      <4>2. found \in proxy_subscr_remote_hlr_resolved(link, r, first, i, gateway)
        BY <2>1, <3>1
      <4>3. link \in [Hlr -> Link]
        BY <1>1 DEF TypeOK
      <4>4. /\ found.link \in [Hlr -> Link] /\ found.reqs \in [Nr -> Request]
            /\ \A m \in Nr : found.reqs[m].st = "deferred" =>
                  /\ r[m].st = "deferred" /\ found.reqs[m].imsi = r[m].imsi
                  /\ (Waits(link, r, first, m) \/ r[m].imsi = i)
                        => Waits(found.link, found.reqs, first, m)
        BY <1>2, <1>5, <4>1, <4>2, <4>3, ResolvedKeeps
      <4>5. found.reqs[n].imsi = i
        BY <1>1, <1>2, <1>5, <4>1, <4>2, <4>3, ResolvedImsi
      <4> QED
        BY <4>4, <4>5
    <3>2. CASE ~(entry[i] = NoEntry /\ gateway # NoAddr)
      <4>1. found.link = link /\ found.reqs = r
        BY <2>1, <3>2 DEF Outcome
      <4> QED
        BY <1>1, <1>2, <4>1 DEF TypeOK
    <3> QED
      BY <3>1, <3>2
  <2>5. \A m \in Nr : Waits(found.link, found.reqs, first, m)
                         => Waits(found.link, found.reqs, e, m)
    <3>1. \A j \in Imsi : e[j] = first[j] \/ (e[j] # NoEntry /\ e[j].addr = first[j].addr)
      BY <1>4, <1>5
    <3>2. \A m \in Nr : found.reqs[m].imsi \in Imsi
      BY <2>4 DEF Request
    <3> QED
      BY <3>1, <3>2 DEF Waits
  <2>6. /\ sent.link \in [Hlr -> Link] /\ sent.reqs \in [Nr -> Request]
        /\ \A m \in Nr : sent.reqs[m].st = "deferred" =>
              /\ m # n => found.reqs[m].st = "deferred"
              /\ sent.reqs[m].imsi = found.reqs[m].imsi
              /\ (Waits(found.link, found.reqs, e, m) \/ m = n)
                    => Waits(sent.link, sent.reqs, e, m)
    BY <1>1, <1>5, <2>2, <2>4, ForwardKeeps
  <2>7. /\ lookup' = IF x.addr = NoAddr THEN lookup \cup {i} ELSE lookup
        /\ latest' = IF kind \in Domain THEN [latest EXCEPT ![i][kind] = v] ELSE latest
        /\ UNCHANGED <<local, active, gateway, lost>>
    BY <1>8 DEF Rx, x
  <2>8. TypeOK'
    <3>1. latest' \in [Imsi -> Names]
      BY <1>1, <2>7 DEF TypeOK, Names
    <3> QED
      BY <1>1, <1>5, <1>6, <1>8, <2>2, <2>6, <2>7, <3>1 DEF TypeOK
  <2>9. LookupMatchesEntry'
    BY <1>1, <1>3, <1>4, <1>5, <1>8, <2>7 DEF LookupMatchesEntry
  <2>10. Awaited'
    BY <1>8, <2>2, <2>3, <2>4, <2>5, <2>6, <2>7, AwaitedIsPrime
  <2> QED
    BY <2>8, <2>9, <2>10 DEF IInv
<1> QED
  BY <1>7, <1>8 DEF Rx, r, e, x, y

(* An address was found. *)
LEMMA LookupSucceedsIInv ==
    ASSUME IInv, NEW i \in Imsi, NEW h \in Hlr, LookupSucceeds(i, h)
    PROVE  IInv'
<1> DEFINE x == [entry[i] EXCEPT !.addr = h]
           e == [entry EXCEPT ![i] = x]
<1>1. TypeOK /\ LookupMatchesEntry /\ Awaited /\ i \in lookup /\ lookup' = lookup \ {i}
      /\ UNCHANGED <<nextNr, local, active, gateway, latest, lost>>
  BY DEF IInv, LookupSucceeds
<1>2. entry[i] # NoEntry /\ entry[i] \in Entry
  BY <1>1 DEF LookupMatchesEntry, TypeOK
<1>3. x \in Entry /\ x.addr = h
  BY <1>2 DEF Entry
<1> HIDE DEF x
<1>4. e \in [Imsi -> Entry \cup {NoEntry}] /\ e[i] = x /\ x # NoEntry
      /\ \A j \in Imsi : j # i => e[j] = entry[j]
  BY <1>1, <1>3, NoEntryAssumption DEF TypeOK
<1>5. entry' = e
      /\ \E found \in proxy_subscr_remote_hlr_resolved(link, reqs, e, i, h) :
            link' = found.link /\ reqs' = found.reqs
  BY <1>2 DEF LookupSucceeds, x
<1> HIDE DEF e
<1>6. PICK found \in proxy_subscr_remote_hlr_resolved(link, reqs, e, i, h) :
            link' = found.link /\ reqs' = found.reqs
  BY <1>5
<1>7. link \in [Hlr -> Link] /\ reqs \in [Nr -> Request] /\ i \in HomedAt(e, h)
  BY <1>1, <1>3, <1>4 DEF TypeOK, HomedAt
<1>8. /\ link' \in [Hlr -> Link] /\ reqs' \in [Nr -> Request]
      /\ \A n \in Nr : reqs'[n].st = "deferred" =>
            /\ reqs[n].st = "deferred" /\ reqs'[n].imsi = reqs[n].imsi
            /\ (Waits(link, reqs, e, n) \/ reqs[n].imsi = i)
                  => Waits(link', reqs', e, n)
  BY <1>4, <1>6, <1>7, ResolvedKeeps
<1>9. TypeOK'
  BY <1>1, <1>4, <1>5, <1>8 DEF TypeOK
<1>10. LookupMatchesEntry'
  BY <1>1, <1>3, <1>4, <1>5, NoAddrAssumption DEF LookupMatchesEntry
<1>11. \A n \in Nr : reqs[n].st = "deferred" /\ n \notin lost
                        => Waits(link, reqs, e, n) \/ reqs[n].imsi = i
  BY <1>1, <1>4, <1>7 DEF Awaited, Waits, Request
<1>12. Awaited'
  BY <1>1, <1>5, <1>8, <1>11, AwaitedIsPrime
<1> QED
  BY <1>9, <1>10, <1>12 DEF IInv

(* A lookup fails. *)
LEMMA LookupFailsIInv ==
    ASSUME IInv, NEW i \in Imsi, LookupFails(i)
    PROVE  IInv'
<1>1. TypeOK /\ LookupMatchesEntry /\ Awaited
  BY DEF IInv
<1>2. /\ reqs' = proxy_deferred_gsup_req_pop(reqs, {i}, "refused")
      /\ entry' = [entry EXCEPT ![i] = NoEntry]
      /\ lookup' = lookup \ {i}
      /\ UNCHANGED <<nextNr, link, local, active, gateway, latest, lost>>
  BY DEF LookupFails, proxy_subscr_del
<1>3. /\ reqs' \in [Nr -> Request]
      /\ \A n \in Nr : /\ reqs'[n].imsi = reqs[n].imsi
                       /\ reqs'[n].st = "deferred"
                             => reqs'[n] = reqs[n] /\ reqs[n].imsi # i
  BY <1>1, <1>2, PopIs DEF TypeOK
<1>4. TypeOK'
  BY <1>1, <1>2, <1>3 DEF TypeOK
<1>5. LookupMatchesEntry'
  BY <1>1, <1>2 DEF LookupMatchesEntry, TypeOK
<1>6. \A n \in Nr : reqs'[n].st = "deferred" /\ n \notin lost'
                       => Waits(link', reqs', entry', n)
  <2> SUFFICES ASSUME NEW n \in Nr, reqs'[n].st = "deferred", n \notin lost'
               PROVE  Waits(link', reqs', entry', n)
    OBVIOUS
  <2>1. reqs'[n] = reqs[n] /\ reqs[n].imsi # i /\ reqs[n].imsi \in Imsi
    BY <1>1, <1>3 DEF TypeOK, Request
  <2>2. entry'[reqs[n].imsi] = entry[reqs[n].imsi]
    BY <1>1, <1>2, <2>1 DEF TypeOK
  <2> QED
    BY <1>1, <1>2, <2>1, <2>2, AwaitedIs DEF Waits
<1> QED
  BY <1>4, <1>5, <1>6, AwaitedIsPrime DEF IInv

(* A link comes up. *)
LEMMA LinkUpIInv ==
    ASSUME IInv, NEW h \in Hlr, LinkUp(h)
    PROVE  IInv'
<1> DEFINE S == HomedAt(entry, h)
<1>1. TypeOK /\ LookupMatchesEntry /\ Awaited /\ S \in SUBSET Imsi
  BY DEF IInv, HomedAt
<1>2. /\ link' = [link EXCEPT ![h] = "up"]
      /\ reqs' = IF link[h] = "awaited"
                 THEN proxy_deferred_gsup_req_pop(reqs, S, "forwarded") ELSE reqs
      /\ UNCHANGED <<entry, nextNr, lookup, local, active, gateway, latest, lost>>
  BY DEF LinkUp, proxy_remote_hlr_connect_result_cb
<1>3. /\ reqs' \in [Nr -> Request]
      /\ \A n \in Nr : reqs'[n].st = "deferred" =>
            /\ reqs'[n] = reqs[n]
            /\ link[h] = "awaited" => reqs[n].imsi \notin S
  BY <1>1, <1>2, PopIs DEF TypeOK
<1>4. TypeOK'
  BY <1>1, <1>2, <1>3 DEF TypeOK, Link
<1>5. LookupMatchesEntry'
  BY <1>1, <1>2 DEF LookupMatchesEntry
<1>6. \A n \in Nr : reqs'[n].st = "deferred" /\ n \notin lost'
                       => Waits(link', reqs', entry', n)
  <2> SUFFICES ASSUME NEW n \in Nr, reqs'[n].st = "deferred", n \notin lost'
               PROVE  Waits(link', reqs', entry', n)
    OBVIOUS
  <2>1. Waits(link, reqs, entry, n) /\ reqs[n].imsi \in Imsi
    BY <1>1, <1>2, <1>3, AwaitedIs DEF TypeOK, Request
  <2>2. entry[reqs[n].imsi].addr # h \/ link[h] # "awaited"
    BY <1>3, <2>1 DEF Waits, HomedAt
  <2>3. entry[reqs[n].imsi].addr \in Hlr \cup {NoAddr}
    BY <1>1, <2>1 DEF Waits, TypeOK, Entry
  <2> QED
    BY <1>1, <1>2, <1>3, <2>1, <2>2, <2>3 DEF Waits, TypeOK
<1> QED
  BY <1>4, <1>5, <1>6, AwaitedIsPrime DEF IInv

(* A link is closed or fails: what waited for it is lost. *)
LEMMA LinkDownIInv ==
    ASSUME IInv, NEW h \in Hlr, LinkDown(h)
    PROVE  IInv'
<1>1. TypeOK /\ LookupMatchesEntry /\ Awaited
  BY DEF IInv
<1>2. /\ link' = [link EXCEPT ![h] = "none"]
      /\ lost' = lost \cup DeferredOf(HomedAt(entry, h))
      /\ UNCHANGED <<entry, reqs, nextNr, lookup, local, active, gateway, latest>>
  BY DEF LinkDown
<1>3. TypeOK'
  BY <1>1, <1>2 DEF TypeOK, Link, DeferredOf
<1>4. LookupMatchesEntry'
  BY <1>1, <1>2 DEF LookupMatchesEntry
<1>5. \A n \in Nr : reqs'[n].st = "deferred" /\ n \notin lost'
                       => Waits(link', reqs', entry', n)
  <2> SUFFICES ASSUME NEW n \in Nr, reqs[n].st = "deferred", n \notin lost'
               PROVE  Waits(link', reqs, entry, n)
    BY <1>2
  <2>1. Waits(link, reqs, entry, n) /\ reqs[n].imsi \in Imsi
    BY <1>1, <1>2, AwaitedIs DEF TypeOK, Request
  <2>2. entry[reqs[n].imsi].addr # h
    BY <1>2, <2>1 DEF DeferredOf, HomedAt, Waits
  <2>3. entry[reqs[n].imsi].addr \in Hlr \cup {NoAddr}
    BY <1>1, <2>1 DEF Waits, TypeOK, Entry
  <2> QED
    BY <1>1, <1>2, <2>1, <2>2, <2>3 DEF Waits, TypeOK
<1> QED
  BY <1>3, <1>4, <1>5, AwaitedIsPrime DEF IInv

(* A link is opened again: nothing waited for it. *)
LEMMA PingIInv ==
    ASSUME IInv, NEW h \in Hlr, ping_timer_cb(h)
    PROVE  IInv'
<1>1. TypeOK /\ LookupMatchesEntry /\ Awaited
  BY DEF IInv
<1>2. /\ link[h] = "up" /\ link' = [link EXCEPT ![h] = "connecting"]
      /\ UNCHANGED <<entry, reqs, nextNr, lookup, local, active, gateway, latest, lost>>
  BY DEF ping_timer_cb
<1>3. TypeOK'
  BY <1>1, <1>2 DEF TypeOK, Link
<1>4. LookupMatchesEntry'
  BY <1>1, <1>2 DEF LookupMatchesEntry
<1>5. \A n \in Nr : reqs[n].st = "deferred" /\ n \notin lost
                       => Waits(link', reqs, entry, n)
  <2> SUFFICES ASSUME NEW n \in Nr, reqs[n].st = "deferred", n \notin lost
               PROVE  Waits(link', reqs, entry, n)
    OBVIOUS
  <2>1. Waits(link, reqs, entry, n) /\ reqs[n].imsi \in Imsi
    BY <1>1, AwaitedIs DEF TypeOK, Request
  <2>2. entry[reqs[n].imsi].addr \in Hlr \cup {NoAddr}
    BY <1>1, <2>1 DEF Waits, TypeOK, Entry
  <2> QED
    BY <1>1, <1>2, <2>1, <2>2 DEF Waits, TypeOK
<1> QED
  BY <1>2, <1>3, <1>4, <1>5, AwaitedIsPrime DEF IInv

(* A result of the home HLR does not touch the address. *)
LEMMA RemoteRxIInv ==
    ASSUME IInv, NEW h \in Hlr, NEW n \in Nr, remote_hlr_rx(h, n)
    PROVE  IInv'
<1> DEFINE i == reqs[n].imsi
           x == proxy_acknowledge_gsup_from_remote_hlr(entry[i], reqs[n].vlr)
<1>1. TypeOK /\ LookupMatchesEntry /\ Awaited
  BY DEF IInv
<1>2. /\ entry[i] # NoEntry /\ entry' = [entry EXCEPT ![i] = x]
      /\ UNCHANGED <<reqs, nextNr, lookup, link, local, active, gateway, latest, lost>>
  BY DEF remote_hlr_rx
<1>3. i \in Imsi /\ reqs[n].vlr \in Vlr /\ entry[i] \in Entry
  BY <1>1, <1>2 DEF TypeOK, Request
<1>4. x \in Entry /\ x.addr = entry[i].addr
  BY <1>3 DEF proxy_acknowledge_gsup_from_remote_hlr, Entry, Names
<1> HIDE DEF i, x
<1>5. /\ entry' \in [Imsi -> Entry \cup {NoEntry}] /\ entry'[i] # NoEntry
      /\ entry'[i].addr = entry[i].addr
      /\ \A j \in Imsi : j # i => entry'[j] = entry[j]
  BY <1>1, <1>2, <1>3, <1>4, NoEntryAssumption DEF TypeOK
<1>6. TypeOK'
  BY <1>1, <1>2, <1>5 DEF TypeOK
<1>7. LookupMatchesEntry'
  BY <1>1, <1>2, <1>5 DEF LookupMatchesEntry
<1>8. Awaited'
  BY <1>1, <1>2, <1>5 DEF Awaited, TypeOK, Request
<1> QED
  BY <1>6, <1>7, <1>8 DEF IInv

(* Entries are discarded: what was deferred for them is lost. *)
LEMMA CleanupIInv ==
    ASSUME IInv, NEW S \in SUBSET Imsi, proxy_cleanup(S)
    PROVE  IInv'
<1>1. TypeOK /\ LookupMatchesEntry /\ Awaited
  BY DEF IInv
<1>2. TypeOK'
  BY <1>1 DEF TypeOK, proxy_cleanup, DeferredOf
<1>3. LookupMatchesEntry'
  BY <1>1 DEF LookupMatchesEntry, proxy_cleanup
<1>4. Awaited'
  BY <1>1 DEF Awaited, proxy_cleanup, DeferredOf, TypeOK, Request
<1> QED
  BY <1>2, <1>3, <1>4 DEF IInv

(* Configuration and the local database are not part of the invariant. *)
LEMMA ConfigIInv ==
    ASSUME IInv,
           \/ dgsm_mdns_client_config_apply
           \/ \E h \in Hlr \cup {NoAddr} : cfg_gateway_proxy(h)
           \/ \E i \in Imsi : LocalSubscriber(i)
           \/ UNCHANGED vars
    PROVE  IInv'
<1>1. TypeOK'
  BY DEF IInv, TypeOK, dgsm_mdns_client_config_apply, cfg_gateway_proxy, LocalSubscriber, vars
<1>2. UNCHANGED <<entry, reqs, lookup, link, lost>>
  BY DEF dgsm_mdns_client_config_apply, cfg_gateway_proxy, LocalSubscriber, vars
<1> QED
  BY <1>1, <1>2 DEF IInv, LookupMatchesEntry, Awaited

(* At the start nothing is deferred or looked up. *)
LEMMA InitIInv ==
    Init => IInv
<1> SUFFICES ASSUME Init PROVE IInv
  OBVIOUS
<1>1. TypeOK
  BY MaxReqAssumption DEF Init, TypeOK, Link, Request, Kind, NoNames, Names, Nr
<1>2. LookupMatchesEntry
  BY DEF Init, LookupMatchesEntry
<1>3. Awaited
  BY DEF Init, Awaited
<1> QED
  BY <1>1, <1>2, <1>3 DEF IInv

(* Every step keeps IInv. *)
LEMMA NextIInv ==
    IInv /\ [Next]_vars => IInv'
<1> SUFFICES ASSUME IInv, [Next]_vars PROVE IInv'
  OBVIOUS
<1>1. CASE \E v \in Vlr, i \in Imsi, kind \in Kind : Rx(v, i, kind)
  BY <1>1, RxIInv
<1>2. CASE \E i \in Imsi, h \in Hlr : LookupSucceeds(i, h)
  BY <1>2, LookupSucceedsIInv
<1>3. CASE \E i \in Imsi : LookupFails(i)
  BY <1>3, LookupFailsIInv
<1>4. CASE \E h \in Hlr : LinkUp(h)
  BY <1>4, LinkUpIInv
<1>5. CASE \E h \in Hlr : LinkDown(h)
  BY <1>5, LinkDownIInv
<1>6. CASE \E h \in Hlr : ping_timer_cb(h)
  BY <1>6, PingIInv
<1>7. CASE \E h \in Hlr, n \in Nr : remote_hlr_rx(h, n)
  BY <1>7, RemoteRxIInv
<1>8. CASE \E S \in SUBSET Imsi : proxy_cleanup(S)
  BY <1>8, CleanupIInv
<1>9. CASE \/ dgsm_mdns_client_config_apply
           \/ \E h \in Hlr \cup {NoAddr} : cfg_gateway_proxy(h)
           \/ \E i \in Imsi : LocalSubscriber(i)
           \/ UNCHANGED vars
  BY <1>9, ConfigIInv
<1> QED
  BY <1>1, <1>2, <1>3, <1>4, <1>5, <1>6, <1>7, <1>8, <1>9 DEF Next

-----------------------------------------------------------------------------
(* The theorems. *)

(* The variables of the proxy keep their types. *)
THEOREM TypeCorrect ==
    Spec => []TypeOK
<1>1. IInv => TypeOK
  BY DEF IInv
<1> QED
  BY <1>1, InitIInv, NextIInv, PTL DEF Spec

(* An IMSI is looked up exactly as long as it has a proxy entry without an *)
(* address (dgsm.c:86-164, 40-83).                                         *)
THEOREM LookupsHaveEntries ==
    Spec => []LookupMatchesEntry
<1>1. IInv => LookupMatchesEntry
  BY DEF IInv
<1> QED
  BY <1>1, InitIInv, NextIInv, PTL DEF Spec

(* A deferred message has a lookup or a pending call-back under way that   *)
(* will conclude it, unless a link failed or its entry was discarded       *)
(* (proxy.c:431-511, remote_hlr.c:109-200).                                *)
THEOREM DeferredAwaited ==
    Spec => []Awaited
<1>1. IInv => Awaited
  BY DEF IInv
<1> QED
  BY <1>1, InitIInv, NextIInv, PTL DEF Spec

-----------------------------------------------------------------------------
(* The VLR on record. *)

(* A preliminary name is that of the latest location update. *)
PrelimLatest ==
    \A i \in Imsi, d \in Domain :
        entry[i] # NoEntry /\ entry[i].prelim[d] # NoVlr => entry[i].prelim[d] = latest[i][d]

(* A message sets the preliminary name together with latest. *)
LEMMA RxPrelim ==
    ASSUME IInv, PrelimLatest,
           NEW v \in Vlr, NEW i \in Imsi, NEW kind \in Kind, Rx(v, i, kind)
    PROVE  PrelimLatest' /\ LatestStep
<1> DEFINE x == EntryFor(i)
           y == proxy_acknowledge_gsup_to_remote_hlr(x, v, kind)
<1>1. TypeOK
  BY DEF IInv
<1>2. CASE UNCHANGED <<entry, latest>>
  BY <1>2 DEF PrelimLatest, LatestStep
<1>3. CASE /\ entry' = [entry EXCEPT ![i] = y]
           /\ latest' = IF kind \in Domain THEN [latest EXCEPT ![i][kind] = v] ELSE latest
  <2>1. /\ entry[i] # NoEntry => x = entry[i]
        /\ entry[i] = NoEntry => \A d \in Domain : x.prelim[d] = NoVlr
        /\ x.prelim \in Names /\ x \in Entry
    BY <1>1 DEF EntryFor, TypeOK, Entry, NoNames, Names
  <2> HIDE DEF x
  <2>2. /\ y.vlr = x.vlr
        /\ \A d \in Domain : y.prelim[d] = IF d = kind THEN v ELSE x.prelim[d]
    BY <2>1 DEF proxy_acknowledge_gsup_to_remote_hlr, Entry, Names
  <2> HIDE DEF y
  <2>3. \A d \in Domain : latest'[i][d] = IF d = kind THEN v ELSE latest[i][d]
    BY <1>1, <1>3 DEF TypeOK, Names
  <2>4. \A j \in Imsi : j # i => entry'[j] = entry[j] /\ latest'[j] = latest[j]
    BY <1>1, <1>3 DEF TypeOK
  <2>5. entry'[i] = y
    BY <1>1, <1>3 DEF TypeOK
  <2>6. PrelimLatest'
    BY <2>1, <2>2, <2>3, <2>4, <2>5 DEF PrelimLatest
  <2>7. LatestStep
    BY <2>1, <2>2, <2>4, <2>5 DEF LatestStep
  <2> QED
    BY <2>6, <2>7
<1> QED
  BY <1>2, <1>3 DEF Rx

(* A result moves the subscriber to the preliminary name, in the domains   *)
(* where that is the VLR the result is for.                                *)
LEMMA RemoteRxPrelim ==
    ASSUME IInv, PrelimLatest, NEW h \in Hlr, NEW n \in Nr, remote_hlr_rx(h, n)
    PROVE  PrelimLatest' /\ LatestStep
<1> DEFINE i == reqs[n].imsi
           v == reqs[n].vlr
           x == proxy_acknowledge_gsup_from_remote_hlr(entry[i], v)
<1>1. TypeOK /\ entry[i] # NoEntry /\ entry' = [entry EXCEPT ![i] = x] /\ latest' = latest
  BY DEF IInv, remote_hlr_rx
<1>2. i \in Imsi /\ v \in Vlr /\ entry[i] \in Entry
  BY <1>1 DEF TypeOK, Request
<1>3. \A d \in Domain :
         /\ x.vlr[d] = IF entry[i].prelim[d] = v THEN v ELSE entry[i].vlr[d]
         /\ x.prelim[d] = IF entry[i].prelim[d] = v THEN NoVlr ELSE entry[i].prelim[d]
  BY <1>2 DEF proxy_acknowledge_gsup_from_remote_hlr, Entry
<1> HIDE DEF i, v, x
<1>4. entry'[i] = x /\ \A j \in Imsi : j # i => entry'[j] = entry[j]
  BY <1>1, <1>2 DEF TypeOK
<1>5. PrelimLatest'
  BY <1>1, <1>2, <1>3, <1>4 DEF PrelimLatest
<1>6. LatestStep
  BY <1>1, <1>2, <1>3, <1>4, NoVlrAssumption DEF PrelimLatest, LatestStep
<1> QED
  BY <1>5, <1>6

(* All other steps leave the names alone, or delete whole entries. *)
LEMMA NextPrelim ==
    ASSUME IInv, PrelimLatest, [Next]_vars
    PROVE  PrelimLatest' /\ LatestStep
<1> DEFINE Keeps == /\ latest' = latest
                    /\ \A i \in Imsi : entry'[i] # NoEntry =>
                          /\ entry[i] # NoEntry
                          /\ entry'[i].vlr = entry[i].vlr
                          /\ entry'[i].prelim = entry[i].prelim
<1>1. CASE \E v \in Vlr, i \in Imsi, kind \in Kind : Rx(v, i, kind)
  BY <1>1, RxPrelim
<1>2. CASE \E h \in Hlr, n \in Nr : remote_hlr_rx(h, n)
  BY <1>2, RemoteRxPrelim
<1>3. CASE \E i \in Imsi, h \in Hlr : LookupSucceeds(i, h)
  <2> PICK i \in Imsi, h \in Hlr : LookupSucceeds(i, h)
    BY <1>3
  <2>1. TypeOK /\ latest' = latest
    BY DEF IInv, LookupSucceeds
  <2>2. CASE entry' = entry
    BY <2>1, <2>2 DEF PrelimLatest, LatestStep
  <2>3. CASE entry[i] # NoEntry /\ entry' = [entry EXCEPT ![i] = [@ EXCEPT !.addr = h]]
    <3>1. entry[i] \in Entry
      BY <2>1, <2>3 DEF TypeOK
    <3>2. Keeps
      BY <2>1, <2>3, <3>1 DEF TypeOK, Entry
    <3> QED
      BY <3>2 DEF PrelimLatest, LatestStep
  <2> QED
    BY <2>2, <2>3 DEF LookupSucceeds
<1>4. CASE (\E i \in Imsi : LookupFails(i)) \/ \E S \in SUBSET Imsi : proxy_cleanup(S)
  <2>1. Keeps
    BY <1>4 DEF IInv, TypeOK, LookupFails, proxy_subscr_del, proxy_cleanup
  <2> QED
    BY <2>1 DEF PrelimLatest, LatestStep
<1>5. CASE UNCHANGED <<entry, latest>>
  BY <1>5 DEF PrelimLatest, LatestStep
<1>6. (\E h \in Hlr : LinkUp(h) \/ LinkDown(h) \/ ping_timer_cb(h))
      \/ (\E i \in Imsi : LocalSubscriber(i)) \/ dgsm_mdns_client_config_apply
      \/ (\E h \in Hlr \cup {NoAddr} : cfg_gateway_proxy(h)) \/ UNCHANGED vars
         => UNCHANGED <<entry, latest>>
  BY DEF LinkUp, LinkDown, ping_timer_cb, LocalSubscriber, dgsm_mdns_client_config_apply,
         cfg_gateway_proxy, vars
<1> QED
  BY <1>1, <1>2, <1>3, <1>4, <1>5, <1>6 DEF Next

(* The VLR on record for a domain only changes to the one that sent the    *)
(* latest location update for it (proxy.c:257-313, 316-411).               *)
THEOREM VlrIsLatest ==
    Spec => VlrMovesToLatest
<1>1. Init => PrelimLatest
  BY DEF Init, PrelimLatest
<1>2. IInv /\ PrelimLatest /\ [Next]_vars => PrelimLatest' /\ [LatestStep]_vars
  BY NextPrelim
<1> QED
  BY <1>1, <1>2, InitIInv, NextIInv, PTL DEF Spec, VlrMovesToLatest

-----------------------------------------------------------------------------
(* Order of forwarding. *)

(* ForwardedInOrder, of messages in the midst of a handler. *)
InOrder(r) ==
    \A m, n \in Nr : m < n /\ r[m].imsi = r[n].imsi /\ r[n].st = "forwarded"
                        => r[m].st # "deferred"

(* No message that is deferred belongs to an HLR of H with a link that is  *)
(* up, or comes up without a pending call-back.                            *)
NoneBehind(l, r, e, H) ==
    \A n \in Nr, h \in H : r[n].st = "deferred" /\ r[n].imsi \in HomedAt(e, h)
                              => l[h] \in {"none", "awaited"}

(* Messages not received yet. *)
UnusedFrom(r, k) == \A n \in Nr : n >= k => r[n].st = "unused"

OrderInv ==
    /\ InOrder(reqs)
    /\ NoneBehind(link, reqs, entry, Hlr)
    /\ UnusedFrom(reqs, nextNr)

(* Popping all messages of some subscribers keeps the order. *)
LEMMA PopInOrder ==
    ASSUME NEW r \in [Nr -> Request], NEW S \in SUBSET Imsi,
           NEW st \in {"forwarded", "refused"}, InOrder(r)
    PROVE  LET p == proxy_deferred_gsup_req_pop(r, S, st)
           IN  /\ InOrder(p)
               /\ \A n \in Nr : r[n].st = "unused" => p[n].st = "unused"
<1> DEFINE p == proxy_deferred_gsup_req_pop(r, S, st)
<1>1. \A n \in Nr : p[n] = IF r[n].st = "deferred" /\ r[n].imsi \in S
                           THEN [r[n] EXCEPT !.st = st] ELSE r[n]
  BY DEF proxy_deferred_gsup_req_pop
<1>2. \A n \in Nr : r[n].st = "unused" => p[n].st = "unused"
  BY <1>1
<1>3. \A n \in Nr : p[n].imsi = r[n].imsi
  BY PopIs
<1>4. \A n \in Nr : p[n].st = "deferred" => r[n].st = "deferred" /\ r[n].imsi \notin S
  BY PopIs
<1>5. \A n \in Nr : r[n].imsi \notin S => p[n] = r[n]
  BY <1>1
<1> HIDE DEF p
<1>6. InOrder(p)
  BY <1>3, <1>4, <1>5 DEF InOrder
<1> QED
  BY <1>2, <1>6 DEF p

(* Asking for a link keeps the order, and leaves no message behind at its  *)
(* HLR, even if there were some.                                           *)
LEMMA ConnectInOrder ==
    ASSUME NEW l \in [Hlr -> Link], NEW r \in [Nr -> Request],
           NEW e \in [Imsi -> Entry \cup {NoEntry}], NEW h \in Hlr,
           NEW o \in remote_hlr_get_or_connect(l, r, e, h),
           InOrder(r), NoneBehind(l, r, e, Hlr \ {h})
    PROVE  /\ InOrder(o.reqs) /\ NoneBehind(o.link, o.reqs, e, Hlr)
           /\ \A n \in Nr : r[n].st = "unused" => o.reqs[n].st = "unused"
<1> DEFINE S == HomedAt(e, h)
<1>1. S \in SUBSET Imsi
  BY DEF HomedAt
<1>2. ASSUME NEW st \in {"forwarded", "refused"}, o.link = l,
             o.reqs = proxy_deferred_gsup_req_pop(r, S, st)
      PROVE  NoneBehind(o.link, o.reqs, e, Hlr)
  <2> SUFFICES ASSUME NEW n \in Nr, NEW g \in Hlr, o.reqs[n].st = "deferred",
                      o.reqs[n].imsi \in HomedAt(e, g)
               PROVE  l[g] \in {"none", "awaited"}
    BY <1>2 DEF NoneBehind
  <2>1. o.reqs[n] = r[n] /\ r[n].imsi \notin S
    BY <1>1, <1>2, PopIs
  <2>2. g \in Hlr \ {h}
    BY <2>1
  <2> QED
    BY <2>1, <2>2 DEF NoneBehind
<1>3. ASSUME o.link = [l EXCEPT ![h] = "awaited"], o.reqs = r
      PROVE  NoneBehind(o.link, o.reqs, e, Hlr)
  BY <1>3 DEF NoneBehind
<1>4. \/ o.link = l /\ o.reqs = proxy_deferred_gsup_req_pop(r, S, "forwarded")
      \/ o.link = l /\ o.reqs = proxy_deferred_gsup_req_pop(r, S, "refused")
      \/ o.link = [l EXCEPT ![h] = "awaited"] /\ o.reqs = r
  <2>1. \/ o = Outcome(l, proxy_deferred_gsup_req_pop(r, S, "forwarded"))
        \/ o = Outcome(l, proxy_deferred_gsup_req_pop(r, S, "refused"))
        \/ o = Outcome([l EXCEPT ![h] = "awaited"], r)
    BY DEF remote_hlr_get_or_connect, proxy_remote_hlr_connect_result_cb
  <2>2. ASSUME NEW k, NEW q, o = Outcome(k, q)
        PROVE  o.link = k /\ o.reqs = q
    BY <2>2 DEF Outcome
  <2>3. CASE o = Outcome(l, proxy_deferred_gsup_req_pop(r, S, "forwarded"))
    BY <2>2, <2>3
  <2>4. CASE o = Outcome(l, proxy_deferred_gsup_req_pop(r, S, "refused"))
    BY <2>2, <2>4
  <2>5. CASE o = Outcome([l EXCEPT ![h] = "awaited"], r)
    BY <2>2, <2>5
  <2> QED
    BY <2>1, <2>3, <2>4, <2>5
<1>5. NoneBehind(o.link, o.reqs, e, Hlr)
  BY <1>2, <1>3, <1>4
<1>6. InOrder(o.reqs) /\ \A n \in Nr : r[n].st = "unused" => o.reqs[n].st = "unused"
  BY <1>1, <1>4, PopInOrder
<1> QED
  BY <1>5, <1>6

(* So does finding the address of a subscriber. *)
LEMMA ResolvedInOrder ==
    ASSUME NEW l \in [Hlr -> Link], NEW r \in [Nr -> Request],
           NEW e \in [Imsi -> Entry \cup {NoEntry}], NEW h \in Hlr, NEW i \in Imsi,
           NEW o \in proxy_subscr_remote_hlr_resolved(l, r, e, i, h),
           InOrder(r), i \in HomedAt(e, h),
           \A n \in Nr, g \in Hlr :
              r[n].st = "deferred" /\ r[n].imsi # i /\ r[n].imsi \in HomedAt(e, g)
                 => l[g] \in {"none", "awaited"}
    PROVE  /\ InOrder(o.reqs) /\ NoneBehind(o.link, o.reqs, e, Hlr)
           /\ \A n \in Nr : r[n].st = "unused" => o.reqs[n].st = "unused"
<1>1. CASE proxy_deferred_gsup_req_waiting(r, i)
  <2>1. o \in remote_hlr_get_or_connect(l, r, e, h)
    BY <1>1 DEF proxy_subscr_remote_hlr_resolved
  <2>2. NoneBehind(l, r, e, Hlr \ {h})
    BY DEF NoneBehind, HomedAt
  <2> QED
    BY <2>1, <2>2, ConnectInOrder
<1>2. CASE ~proxy_deferred_gsup_req_waiting(r, i)
  <2>1. o.link = l /\ o.reqs = r
    BY <1>2 DEF proxy_subscr_remote_hlr_resolved, Outcome
  <2> QED
    BY <1>2, <2>1 DEF proxy_deferred_gsup_req_waiting, NoneBehind
<1> QED
  BY <1>1, <1>2

(* And forwarding or deferring the latest message. *)
LEMMA ForwardInOrder ==
    ASSUME NEW l \in [Hlr -> Link], NEW r \in [Nr -> Request],
           NEW e \in [Imsi -> Entry \cup {NoEntry}], NEW i \in Imsi, e[i] # NoEntry,
           NEW n \in Nr, r[n].imsi = i, UnusedFrom(r, n + 1),
           NEW o \in proxy_subscr_forward_to_remote_hlr(l, r, e, i, n),
           InOrder(r), NoneBehind(l, r, e, Hlr)
    PROVE  InOrder(o.reqs) /\ NoneBehind(o.link, o.reqs, e, Hlr) /\ UnusedFrom(o.reqs, n + 1)
<1> DEFINE deferred == [r EXCEPT ![n].st = "deferred"]
           sent == [r EXCEPT ![n].st = "forwarded"]
<1>1. /\ deferred \in [Nr -> Request] /\ sent \in [Nr -> Request]
      /\ \A m \in Nr : /\ deferred[m].imsi = r[m].imsi /\ sent[m].imsi = r[m].imsi
                       /\ m # n => deferred[m] = r[m] /\ sent[m] = r[m]
      /\ sent[n].st = "forwarded" /\ deferred[n].st = "deferred"
  BY DEF Request
<1>2. e[i].addr \in Hlr \cup {NoAddr}
  BY DEF Entry
<1> HIDE DEF deferred, sent
<1>3. UnusedFrom(deferred, n + 1) /\ UnusedFrom(sent, n + 1)
  BY <1>1 DEF UnusedFrom, Nr
<1>4. InOrder(deferred)
  <2> SUFFICES ASSUME NEW m \in Nr, NEW k \in Nr, m < k, deferred[m].imsi = deferred[k].imsi,
                      deferred[k].st = "forwarded", deferred[m].st = "deferred"
               PROVE  FALSE
    BY DEF InOrder
  <2>1. k # n
    BY <1>1
  <2>2. m = n
    BY <1>1, <2>1 DEF InOrder
  <2>3. k >= n + 1
    BY <2>2 DEF Nr
  <2> QED
    BY <1>3, <2>3 DEF UnusedFrom
<1>5. CASE e[i].addr = NoAddr
  <2>1. o.link = l /\ o.reqs = deferred
    BY <1>5 DEF proxy_subscr_forward_to_remote_hlr, Outcome, deferred
  <2>2. NoneBehind(l, deferred, e, Hlr)
    BY <1>1, <1>5, NoAddrAssumption DEF NoneBehind, HomedAt
  <2> QED
    BY <1>3, <1>4, <2>1, <2>2
<1>6. CASE e[i].addr # NoAddr /\ l[e[i].addr] = "up"
  <2>1. o.link = l /\ o.reqs = sent
    BY <1>6 DEF proxy_subscr_forward_to_remote_hlr, Outcome, sent
  <2>2. NoneBehind(l, sent, e, Hlr)
    BY <1>1 DEF NoneBehind
  <2>3. i \in HomedAt(e, e[i].addr) /\ e[i].addr \in Hlr
    BY <1>2, <1>6 DEF HomedAt
  <2>4. \A m \in Nr : r[m].imsi = i => r[m].st # "deferred"
    BY <1>6, <2>3 DEF NoneBehind
  <2>5. InOrder(sent)
    BY <1>1, <2>4 DEF InOrder
  <2> QED
    BY <1>3, <2>1, <2>2, <2>5
<1>7. CASE e[i].addr # NoAddr /\ l[e[i].addr] # "up"
  <2>1. o \in remote_hlr_get_or_connect(l, deferred, e, e[i].addr)
    BY <1>7 DEF proxy_subscr_forward_to_remote_hlr, deferred
  <2>2. NoneBehind(l, deferred, e, Hlr \ {e[i].addr})
    BY <1>1 DEF NoneBehind, HomedAt
  <2>3. /\ InOrder(o.reqs) /\ NoneBehind(o.link, o.reqs, e, Hlr)
        /\ \A m \in Nr : deferred[m].st = "unused" => o.reqs[m].st = "unused"
    BY <1>1, <1>2, <1>4, <1>7, <2>1, <2>2, ConnectInOrder
  <2> QED
    BY <1>3, <2>3 DEF UnusedFrom
<1> QED
  BY <1>5, <1>6, <1>7

(* A message of a VLR. *)
LEMMA RxOrder ==
    ASSUME IInv, OrderInv, NEW v \in Vlr, NEW i \in Imsi, NEW kind \in Kind, Rx(v, i, kind)
    PROVE  OrderInv'
<1> DEFINE n == nextNr
           r == [reqs EXCEPT ![n] = [st |-> "local", imsi |-> i, vlr |-> v, kind |-> kind]]
           x == EntryFor(i)
           y == proxy_acknowledge_gsup_to_remote_hlr(x, v, kind)
           first == [entry EXCEPT ![i] = x]
           e == [entry EXCEPT ![i] = y]
<1>1. TypeOK /\ n \in Nr /\ nextNr' = n + 1
  BY DEF IInv, Rx
<1>2. InOrder(reqs) /\ NoneBehind(link, reqs, entry, Hlr) /\ UnusedFrom(reqs, n)
  BY DEF OrderInv
<1>3. /\ r \in [Nr -> Request] /\ r[n].imsi = i /\ r[n].st = "local"
      /\ \A m \in Nr : m # n => r[m] = reqs[m]
  BY <1>1 DEF TypeOK, Request
<1>4. x \in Entry /\ (entry[i] # NoEntry => x = entry[i])
                  /\ (entry[i] = NoEntry => x.addr = gateway)
  BY <1>1 DEF EntryFor, TypeOK, Entry, NoNames, Names
<1>5. y \in Entry /\ y.addr = x.addr
  BY <1>4 DEF proxy_acknowledge_gsup_to_remote_hlr, Entry, Names
<1> HIDE DEF x, y
<1>6. /\ first \in [Imsi -> Entry \cup {NoEntry}] /\ e \in [Imsi -> Entry \cup {NoEntry}]
      /\ first[i] = x /\ e[i] = y /\ x # NoEntry /\ y # NoEntry
      /\ \A j \in Imsi : j # i => first[j] = entry[j] /\ e[j] = entry[j]
  BY <1>1, <1>4, <1>5, NoEntryAssumption DEF TypeOK
<1> HIDE DEF r, first, e
<1>7. UnusedFrom(r, n + 1)
  BY <1>1, <1>2, <1>3 DEF UnusedFrom, Nr
<1>8. InOrder(r)
  <2> SUFFICES ASSUME NEW m \in Nr, NEW k \in Nr, m < k, r[m].imsi = r[k].imsi,
                      r[k].st = "forwarded", r[m].st = "deferred"
               PROVE  FALSE
    BY DEF InOrder
  <2>1. k # n /\ m # n
    BY <1>3
  <2> QED
    BY <1>2, <1>3, <2>1 DEF InOrder
<1>9. \A m \in Nr : r[m].st = "deferred" => m # n /\ r[m] = reqs[m]
  BY <1>3
<1>10. CASE HandledLocally(i) /\ reqs' = r /\ UNCHANGED <<entry, lookup, link, latest>>
  <2>1. NoneBehind(link, r, entry, Hlr)
    BY <1>2, <1>9 DEF NoneBehind
  <2> QED
    BY <1>1, <1>7, <1>8, <1>10, <2>1 DEF OrderInv
<1>11. CASE ~HandledLocally(i) /\ entry' = e
  <2>1. PICK found \in IF entry[i] = NoEntry /\ gateway # NoAddr
                       THEN proxy_subscr_remote_hlr_resolved(link, r, first, i, gateway)
                       ELSE {Outcome(link, r)} :
             \E sent \in proxy_subscr_forward_to_remote_hlr(found.link, found.reqs, e, i, n) :
                link' = sent.link /\ reqs' = sent.reqs
    BY <1>11 DEF Rx, r, first, e, x, y
  <2>2. PICK sent \in proxy_subscr_forward_to_remote_hlr(found.link, found.reqs, e, i, n) :
                link' = sent.link /\ reqs' = sent.reqs
    BY <2>1
  <2>3. \A h \in Hlr : HomedAt(first, h) = HomedAt(e, h)
    BY <1>5, <1>6 DEF HomedAt
  <2>4. \A h \in Hlr, j \in Imsi : j # i => (j \in HomedAt(first, h) <=> j \in HomedAt(entry, h))
    BY <1>6 DEF HomedAt
  <2>5. link \in [Hlr -> Link]
    BY <1>1 DEF TypeOK
  <2>6. /\ found.link \in [Hlr -> Link] /\ found.reqs \in [Nr -> Request]
        /\ found.reqs[n].imsi = i /\ InOrder(found.reqs)
        /\ NoneBehind(found.link, found.reqs, first, Hlr)
        /\ UnusedFrom(found.reqs, n + 1)
    <3>1. CASE entry[i] = NoEntry /\ gateway # NoAddr
      <4>1. gateway \in Hlr /\ i \in HomedAt(first, gateway)
        BY <1>1, <1>4, <1>6, <3>1 DEF HomedAt, TypeOK
      <4>2. found \in proxy_subscr_remote_hlr_resolved(link, r, first, i, gateway)
        BY <2>1, <3>1
      <4>3. ASSUME NEW m \in Nr, NEW g \in Hlr, r[m].st = "deferred", r[m].imsi # i,
                   r[m].imsi \in HomedAt(first, g)
            PROVE  link[g] \in {"none", "awaited"}
        <5>1. r[m] = reqs[m] /\ r[m].imsi \in Imsi
          BY <1>3, <1>9, <4>3 DEF Request
        <5> QED
          BY <1>2, <2>4, <4>3, <5>1 DEF NoneBehind
      <4>4. found.link \in [Hlr -> Link] /\ found.reqs \in [Nr -> Request]
        BY <1>3, <1>6, <2>5, <4>1, <4>2, ResolvedKeeps
      <4>5. found.reqs[n].imsi = i
        BY <1>1, <1>3, <1>6, <2>5, <4>1, <4>2, ResolvedImsi
      <4>6. /\ InOrder(found.reqs) /\ NoneBehind(found.link, found.reqs, first, Hlr)
            /\ \A m \in Nr : r[m].st = "unused" => found.reqs[m].st = "unused"
        BY <1>3, <1>6, <1>8, <2>5, <4>1, <4>2, <4>3, ResolvedInOrder
      <4> QED
        BY <1>7, <4>4, <4>5, <4>6 DEF UnusedFrom
    <3>2. CASE ~(entry[i] = NoEntry /\ gateway # NoAddr)
      <4>1. found.link = link /\ found.reqs = r
        BY <2>1, <3>2 DEF Outcome
      <4>2. ASSUME NEW m \in Nr, NEW g \in Hlr, r[m].st = "deferred", r[m].imsi \in HomedAt(first, g)
            PROVE  link[g] \in {"none", "awaited"}
        <5>1. r[m].imsi \in HomedAt(entry, g)
          <6>1. CASE r[m].imsi = i /\ entry[i] # NoEntry
            BY <1>4, <1>6, <4>2, <6>1 DEF HomedAt
          <6>2. CASE r[m].imsi = i /\ entry[i] = NoEntry
            BY <1>4, <1>6, <3>2, <4>2, <6>2, NoAddrAssumption DEF HomedAt
          <6>3. CASE r[m].imsi # i
            BY <1>3, <2>4, <4>2, <6>3 DEF HomedAt
          <6> QED
            BY <6>1, <6>2, <6>3
        <5> QED
          BY <1>2, <1>9, <4>2, <5>1 DEF NoneBehind
      <4>3. NoneBehind(link, r, first, Hlr)
        BY <4>2 DEF NoneBehind
      <4> QED
        BY <1>3, <1>7, <1>8, <2>5, <4>1, <4>3
    <3> QED
      BY <3>1, <3>2
  <2>7. NoneBehind(found.link, found.reqs, e, Hlr)
    BY <2>3, <2>6 DEF NoneBehind
  <2>8. InOrder(sent.reqs) /\ NoneBehind(sent.link, sent.reqs, e, Hlr) /\ UnusedFrom(sent.reqs, n + 1)
    BY <1>1, <1>6, <2>2, <2>6, <2>7, ForwardInOrder
  <2> QED
    BY <1>1, <1>11, <2>2, <2>8 DEF OrderInv
<1> QED
  BY <1>10, <1>11 DEF Rx, r, e, x, y

(* The result of a lookup. *)
LEMMA LookupOrder ==
    ASSUME IInv, OrderInv, NEW i \in Imsi,
           LookupFails(i) \/ \E h \in Hlr : LookupSucceeds(i, h)
    PROVE  OrderInv'
<1>1. TypeOK /\ LookupMatchesEntry /\ i \in lookup
  BY DEF IInv, LookupFails, LookupSucceeds
<1>2. InOrder(reqs) /\ NoneBehind(link, reqs, entry, Hlr) /\ UnusedFrom(reqs, nextNr)
  BY DEF OrderInv
<1>3. entry \in [Imsi -> Entry \cup {NoEntry}] /\ reqs \in [Nr -> Request] /\ link \in [Hlr -> Link]
  BY <1>1 DEF TypeOK
<1>4. entry[i] # NoEntry /\ entry[i] \in Entry
  BY <1>1, <1>3 DEF LookupMatchesEntry
<1>5. CASE LookupFails(i)
  <2>1. /\ reqs' = proxy_deferred_gsup_req_pop(reqs, {i}, "refused")
        /\ entry' = [entry EXCEPT ![i] = NoEntry] /\ UNCHANGED <<nextNr, link>>
    BY <1>5 DEF LookupFails, proxy_subscr_del
  <2>2. InOrder(reqs') /\ \A n \in Nr : reqs[n].st = "unused" => reqs'[n].st = "unused"
    BY <1>2, <1>3, <2>1, PopInOrder
  <2>3. \A n \in Nr : reqs'[n].st = "deferred" => reqs'[n] = reqs[n]
    BY <1>3, <2>1, PopIs
  <2>4. \A h \in Hlr : HomedAt(entry', h) \subseteq HomedAt(entry, h)
    BY <1>3, <2>1 DEF HomedAt
  <2>5. NoneBehind(link', reqs', entry', Hlr)
    BY <1>2, <2>1, <2>3, <2>4 DEF NoneBehind
  <2>6. UnusedFrom(reqs', nextNr')
    BY <1>2, <2>1, <2>2 DEF UnusedFrom
  <2> QED
    BY <2>2, <2>5, <2>6 DEF OrderInv
<1>6. ASSUME NEW h \in Hlr, LookupSucceeds(i, h)
      PROVE  OrderInv'
  <2> DEFINE x == [entry[i] EXCEPT !.addr = h]
             e == [entry EXCEPT ![i] = x]
  <2>1. x \in Entry /\ x.addr = h
    BY <1>4 DEF Entry
  <2> HIDE DEF x
  <2>2. /\ e \in [Imsi -> Entry \cup {NoEntry}] /\ e[i] = x /\ x # NoEntry
        /\ \A j \in Imsi : j # i => e[j] = entry[j]
    BY <1>3, <2>1, NoEntryAssumption
  <2>3. /\ entry' = e /\ nextNr' = nextNr
        /\ \E found \in proxy_subscr_remote_hlr_resolved(link, reqs, e, i, h) :
              link' = found.link /\ reqs' = found.reqs
    BY <1>4, <1>6 DEF LookupSucceeds, x
  <2> HIDE DEF e
  <2>4. PICK found \in proxy_subscr_remote_hlr_resolved(link, reqs, e, i, h) :
              link' = found.link /\ reqs' = found.reqs
    BY <2>3
  <2>5. i \in HomedAt(e, h)
    BY <2>1, <2>2 DEF HomedAt
  <2>6. ASSUME NEW n \in Nr, NEW g \in Hlr, reqs[n].st = "deferred", reqs[n].imsi # i,
               reqs[n].imsi \in HomedAt(e, g)
        PROVE  link[g] \in {"none", "awaited"}
    <3>1. reqs[n].imsi \in HomedAt(entry, g)
      BY <2>2, <2>6 DEF HomedAt
    <3> QED
      BY <1>2, <2>6, <3>1 DEF NoneBehind
  <2>7. /\ InOrder(found.reqs) /\ NoneBehind(found.link, found.reqs, e, Hlr)
        /\ \A n \in Nr : reqs[n].st = "unused" => found.reqs[n].st = "unused"
    BY <1>2, <1>3, <2>2, <2>5, <2>6, ResolvedInOrder
  <2>8. UnusedFrom(reqs', nextNr')
    BY <1>2, <2>3, <2>4, <2>7 DEF UnusedFrom
  <2> QED
    BY <2>3, <2>4, <2>7, <2>8 DEF OrderInv
<1> QED
  BY <1>5, <1>6

(* A link comes up, fails, or is opened again. *)
LEMMA LinkOrder ==
    ASSUME IInv, OrderInv, NEW h \in Hlr, LinkUp(h) \/ LinkDown(h) \/ ping_timer_cb(h)
    PROVE  OrderInv'
<1>1. /\ entry \in [Imsi -> Entry \cup {NoEntry}] /\ reqs \in [Nr -> Request] /\ link \in [Hlr -> Link]
  BY DEF IInv, TypeOK
<1>2. InOrder(reqs) /\ NoneBehind(link, reqs, entry, Hlr) /\ UnusedFrom(reqs, nextNr)
  BY DEF OrderInv
<1>3. entry' = entry /\ nextNr' = nextNr
  BY DEF LinkUp, LinkDown, ping_timer_cb
<1>4. \A g \in Hlr : g # h => link'[g] = link[g]
  BY <1>1 DEF LinkUp, LinkDown, ping_timer_cb
<1>5. CASE LinkUp(h) /\ link[h] = "awaited"
  <2> DEFINE S == HomedAt(entry, h)
  <2>1. reqs' = proxy_deferred_gsup_req_pop(reqs, S, "forwarded") /\ S \in SUBSET Imsi
    BY <1>5 DEF LinkUp, proxy_remote_hlr_connect_result_cb, HomedAt
  <2>2. InOrder(reqs') /\ \A n \in Nr : reqs[n].st = "unused" => reqs'[n].st = "unused"
    BY <1>1, <1>2, <2>1, PopInOrder
  <2>3. \A n \in Nr : reqs'[n].st = "deferred" => reqs'[n] = reqs[n] /\ reqs[n].imsi \notin S
    BY <1>1, <2>1, PopIs
  <2>4. NoneBehind(link', reqs', entry', Hlr)
    BY <1>2, <1>3, <1>4, <2>3 DEF NoneBehind
  <2>5. UnusedFrom(reqs', nextNr')
    BY <1>2, <1>3, <2>2 DEF UnusedFrom
  <2> QED
    BY <2>2, <2>4, <2>5 DEF OrderInv
<1>6. CASE ~(LinkUp(h) /\ link[h] = "awaited")
  <2>1. reqs' = reqs
    BY <1>6 DEF LinkUp, LinkDown, ping_timer_cb
  <2>2. link[h] \in {"none", "awaited"} => link'[h] = "none"
    BY <1>1, <1>6 DEF LinkUp, LinkDown, ping_timer_cb
  <2>3. NoneBehind(link', reqs', entry', Hlr)
    BY <1>2, <1>3, <1>4, <2>1, <2>2 DEF NoneBehind
  <2> QED
    BY <1>2, <1>3, <2>1, <2>3 DEF OrderInv
<1> QED
  BY <1>5, <1>6

(* The other steps leave links and messages, and give no subscriber        *)
(* another HLR.                                                            *)
LEMMA QuietOrder ==
    ASSUME OrderInv, UNCHANGED <<reqs, nextNr, link>>,
           \A h \in Hlr : HomedAt(entry', h) \subseteq HomedAt(entry, h)
    PROVE  OrderInv'
<1>1. NoneBehind(link', reqs', entry', Hlr)
  BY DEF OrderInv, NoneBehind
<1> QED
  BY <1>1 DEF OrderInv

(* Every step keeps OrderInv. *)
LEMMA NextOrder ==
    ASSUME IInv, OrderInv, [Next]_vars
    PROVE  OrderInv'
<1>0. entry \in [Imsi -> Entry \cup {NoEntry}]
  BY DEF IInv, TypeOK
<1>1. CASE \E v \in Vlr, i \in Imsi, kind \in Kind : Rx(v, i, kind)
  BY <1>1, RxOrder
<1>2. CASE \E i \in Imsi : LookupFails(i) \/ \E h \in Hlr : LookupSucceeds(i, h)
  BY <1>2, LookupOrder
<1>3. CASE \E h \in Hlr : LinkUp(h) \/ LinkDown(h) \/ ping_timer_cb(h)
  BY <1>3, LinkOrder
<1>4. ASSUME NEW h \in Hlr, NEW n \in Nr, remote_hlr_rx(h, n)
      PROVE  OrderInv'
  <2> DEFINE i == reqs[n].imsi
             x == proxy_acknowledge_gsup_from_remote_hlr(entry[i], reqs[n].vlr)
  <2>1. i \in Imsi
    BY DEF IInv, TypeOK, Request
  <2>2. entry[i] # NoEntry /\ entry' = [entry EXCEPT ![i] = x] /\ UNCHANGED <<reqs, nextNr, link>>
    BY <1>4 DEF remote_hlr_rx
  <2>3. x.addr = entry[i].addr
    BY <1>0, <2>1, <2>2 DEF proxy_acknowledge_gsup_from_remote_hlr, Entry
  <2> HIDE DEF x, i
  <2>4. \A g \in Hlr : HomedAt(entry', g) \subseteq HomedAt(entry, g)
    BY <1>0, <2>1, <2>2, <2>3 DEF HomedAt
  <2> QED
    BY <2>2, <2>4, QuietOrder
<1>5. ASSUME NEW S \in SUBSET Imsi, proxy_cleanup(S)
      PROVE  OrderInv'
  BY <1>5, QuietOrder DEF proxy_cleanup, HomedAt
<1>6. CASE \/ dgsm_mdns_client_config_apply
           \/ \E h \in Hlr \cup {NoAddr} : cfg_gateway_proxy(h)
           \/ \E i \in Imsi : LocalSubscriber(i)
           \/ UNCHANGED vars
  BY <1>6, QuietOrder DEF dgsm_mdns_client_config_apply, cfg_gateway_proxy, LocalSubscriber, vars
<1> QED
  BY <1>1, <1>2, <1>3, <1>4, <1>5, <1>6 DEF Next

(* No message about a subscriber is forwarded past an earlier one that is  *)
(* still deferred: whatever link was lost or address found meanwhile, one  *)
(* that is left behind is forwarded, or refused, before its successors.    *)
THEOREM OrderKept == Spec => []ForwardedInOrder
<1>1. Init => OrderInv
  BY MaxReqAssumption DEF Init, OrderInv, InOrder, NoneBehind, UnusedFrom
<1>2. OrderInv => ForwardedInOrder
  BY DEF OrderInv, InOrder, ForwardedInOrder
<1> QED
  BY <1>1, <1>2, InitIInv, NextIInv, NextOrder, PTL DEF Spec

=============================================================================
