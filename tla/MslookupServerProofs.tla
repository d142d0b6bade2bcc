------------------------ MODULE MslookupServerProofs ------------------------
(***************************************************************************)
(* Proofs about the answers of several sites, for any sites, MSCs, address *)
(* families, configuration and ages with MaxAge <= FreshTime.              *)
(*                                                                         *)
(* The invariant follows the latest location update from site to site:     *)
(* what its one message leads back to, and what the sites may know of      *)
(* their own while it is under way and when it is done.  From that it is   *)
(* read off what each site answers.                                        *)
(***************************************************************************)
EXTENDS MslookupServer, SequenceTheorems, TLAPS

(* The site where the location update of a message was begun. *)
Origin(m) == IF m.back = <<>> THEN m.at ELSE m.back[1]

(* A row and an entry that name a VLR of the site itself. *)
RowLocal(s) == db[s] # NoRow /\ ~db[s].via /\ db[s].vlr # NoVlr
EntryLocal(s) == entry[s] # NoEntry /\ ~entry[s].via /\ entry[s].vlr # NoVlr

(* Messages are of location updates that were begun where they lead back   *)
(* to, and so is what they leave behind.                                   *)
Attached ==
    /\ \A m \in flight : <<Origin(m), m.vlr>> \in visited
    /\ \A s \in Site : RowLocal(s) => <<s, db[s].vlr>> \in visited
    /\ \A s \in Site : EntryLocal(s) => <<s, entry[s].vlr>> \in visited

(* A new entry is too old until a result arrives. *)
NewTooOld == \A s \in Site : entry[s] # NoEntry /\ entry[s].vlr = NoVlr
                                => entry[s].age = TooOld

(* The latest location update has one message at most. *)
OneCurrent ==
    /\ \A m, n \in flight : m.cur /\ n.cur => m = n
    /\ \A m \in flight : m.cur => Origin(m) = last.site /\ m.vlr = last.vlr
    /\ state = "done" => \A m \in flight : ~m.cur

(* A site knows nothing of its own that is younger than the latest         *)
(* location update.                                                        *)
NothingYounger(s) ==
    /\ RowLocal(s) => last.age <= db[s].age
    /\ EntryLocal(s) => last.age <= entry[s].age

(* While it is under way no site does; and once it left its site that site *)
(* has no VLR in its database.                                             *)
WhileBegun ==
    state = "begun" =>
        /\ \A s \in Site : NothingYounger(s)
        /\ \A m \in flight : m.cur /\ (m.back # <<>> \/ m.result) => ~RowLocal(last.site)

(* When it is done its site does, from its database or from its proxy,     *)
(* until that is too old.                                                  *)
WhenDone ==
    state = "done" /\ last.age <= MaxAge =>
        /\ \A s \in Site \ {last.site} : NothingYounger(s)
        /\ LET r == db[last.site]  e == entry[last.site]
           IN  \/ /\ RowLocal(last.site) /\ r.vlr = last.vlr /\ r.age <= last.age
                  /\ EntryLocal(last.site) => last.age <= e.age
               \/ /\ EntryLocal(last.site) /\ e.vlr = last.vlr /\ e.age <= last.age
                  /\ ~RowLocal(last.site)

IInv == TypeOK /\ Attached /\ NewTooOld /\ OneCurrent /\ WhileBegun /\ WhenDone

-----------------------------------------------------------------------------
(* Messages. *)

(* The first member of a list stays when another is taken from its end. *)
LEMMA FrontIs ==
    ASSUME NEW s \in Seq(Site), s # <<>>
    PROVE  /\ Front(s) \in Seq(Site) /\ Last(s) \in Site
           /\ Front(s) = <<>> => Last(s) = s[1]
           /\ Front(s) # <<>> => Front(s)[1] = s[1]
<1>1. Len(s) \in Nat /\ Len(s) # 0 /\ s \in [1..Len(s) -> Site]
  BY EmptySeq, LenProperties
<1>2. Front(s) \in Seq(Site) /\ Len(Front(s)) = Len(s) - 1
      /\ \A i \in 1..(Len(s) - 1) : Front(s)[i] = s[i]
  BY <1>1 DEF Front
<1>3. Last(s) \in Site
  BY <1>1 DEF Last
<1>4. Front(s) = <<>> => Last(s) = s[1]
  <2>1. ASSUME Front(s) = <<>> PROVE Len(s) = 1
    <3>1. Len(Front(s)) = 0
      BY <2>1
    <3>2. Len(Front(s)) = Len(s) - 1 /\ Len(s) \in Nat
      BY <1>1, <1>2
    <3> DEFINE a == Len(Front(s))
               b == Len(s)
    <3>3. a = 0 /\ a = b - 1 /\ b \in Nat
      BY <3>1, <3>2
    <3> HIDE DEF a, b
    <3>4. b = 1
      BY <3>3
    <3> QED
      BY <3>4 DEF b
  <2> QED
    BY <2>1 DEF Last
<1>5. Front(s) # <<>> => Front(s)[1] = s[1]
  <2>1. ASSUME Front(s) # <<>> PROVE Len(s) - 1 >= 1
    BY <1>1, <1>2, <2>1
  <2> QED
    BY <1>1, <1>2, <2>1
<1> QED
  BY <1>2, <1>3, <1>4, <1>5

(* What m becomes: a message of the same location update. *)
Follows(n, m) ==
    /\ n \in Message /\ Origin(n) = Origin(m)
    /\ n.vlr = m.vlr /\ n.cur = m.cur

LEMMA BackIs ==
    ASSUME NEW m \in Message
    PROVE  /\ \A n \in Back(m) : Follows(n, m) /\ n.result = TRUE
           /\ \A n, o \in Back(m) : n = o
           /\ m.back = <<>> => Back(m) = {}
<1>1. CASE m.back = <<>>
  BY <1>1 DEF Back
<1>2. CASE m.back # <<>>
  <2> DEFINE a == Last(m.back)
             b == Front(m.back)
             n == [m EXCEPT !.at = a, !.back = b, !.result = TRUE]
  <2>1. Back(m) = {n}
    BY <1>2 DEF Back
  <2>2. m.back \in Seq(Site)
    BY DEF Message
  <2>3. /\ b \in Seq(Site) /\ a \in Site
        /\ b = <<>> => a = m.back[1]
        /\ b # <<>> => b[1] = m.back[1]
    BY <1>2, <2>2, FrontIs
  <2> HIDE DEF a, b
  <2>4. /\ n \in Message /\ n.at = a /\ n.back = b /\ n.result = TRUE
        /\ n.vlr = m.vlr /\ n.cur = m.cur
    BY <2>3 DEF Message
  <2> HIDE DEF n
  <2>5. Origin(n) = Origin(m)
    BY <1>2, <2>3, <2>4 DEF Origin
  <2> QED
    BY <1>2, <2>1, <2>4, <2>5 DEF Follows
<1> QED
  BY <1>1, <1>2

LEMMA ForwardIs ==
    ASSUME NEW m \in Message, NEW h \in Site
    PROVE  LET n == [m EXCEPT !.at = h, !.back = Append(@, m.at)]
           IN  Follows(n, m) /\ n.back # <<>> /\ n.result = m.result
<1> DEFINE b == Append(m.back, m.at)
           n == [m EXCEPT !.at = h, !.back = b]
<1>1. m.back \in Seq(Site) /\ m.at \in Site
  BY DEF Message
<1>2. /\ b \in Seq(Site) /\ b # <<>>
      /\ m.back = <<>> => b[1] = m.at
      /\ m.back # <<>> => b[1] = m.back[1]
  <2>1. /\ b \in Seq(Site) /\ b # <<>>
        /\ \A i \in 1..Len(m.back) : b[i] = m.back[i]
        /\ b[Len(m.back) + 1] = m.at
    BY <1>1, AppendProperties
  <2>2. m.back = <<>> => Len(m.back) = 0
    OBVIOUS
  <2>3. m.back # <<>> => 1 \in 1..Len(m.back)
    BY <1>1, EmptySeq, LenProperties
  <2> QED
    BY <2>1, <2>2, <2>3
<1> HIDE DEF b
<1>3. /\ n \in Message /\ n.at = h /\ n.back = b /\ n.result = m.result
      /\ n.vlr = m.vlr /\ n.cur = m.cur
  BY <1>2 DEF Message
<1> HIDE DEF n
<1>4. Origin(n) = Origin(m)
  BY <1>2, <1>3 DEF Origin
<1>5. Follows(n, m) /\ n.back # <<>> /\ n.result = m.result
  BY <1>2, <1>3, <1>4 DEF Follows
<1> QED
  BY <1>5 DEF n, b

(* The part of the invariant about messages, when m is handled and at most *)
(* one message follows.                                                    *)
LEMMA HandledKeeps ==
    ASSUME flight \subseteq Message, OneCurrent, NEW m \in flight, NEW S,
           \A n \in S : Follows(n, m),
           \A n, o \in S : n = o,
           flight' = Handled(m, S), last' = last,
           state' \in {state, "mixed"} \/ (state' = "done" /\ S = {} /\ m.cur)
    PROVE  OneCurrent' /\ flight' \subseteq Message
<1>1. \A n \in flight' : n \in flight \/ n \in S
  BY DEF Handled
<1>2. \A n \in flight' : n.cur => (n \in S /\ m.cur) \/ (n \in flight /\ ~m.cur)
  BY DEF Handled, OneCurrent, Follows
<1>3. \A n, o \in flight' : n.cur /\ o.cur => n = o
  BY <1>2 DEF OneCurrent
<1>4. \A n \in flight' : n.cur => Origin(n) = last'.site /\ n.vlr = last'.vlr
  BY <1>2 DEF OneCurrent, Follows
<1>5. state' = "done" => \A n \in flight' : ~n.cur
  BY <1>2 DEF OneCurrent
<1>6. flight' \subseteq Message
  BY <1>1 DEF Follows
<1> QED
  BY <1>3, <1>4, <1>5, <1>6 DEF OneCurrent, Origin

(* And where they come from. *)
LEMMA HandledCame ==
    ASSUME NEW m \in flight, NEW S, \A n \in S : Follows(n, m),
           \A n \in flight : <<Origin(n), n.vlr>> \in visited,
           flight' = Handled(m, S), visited' = visited
    PROVE  \A n \in flight' : <<Origin(n), n.vlr>> \in visited'
BY DEF Handled, Follows

-----------------------------------------------------------------------------
(* Rows and entries. *)

(* What is said of the sites, given what they know, the latest location    *)
(* update and where one was begun.                                         *)
LEMMA SiteTypes ==
    ASSUME TypeOK, NEW s \in Site
    PROVE  /\ db[s] # NoRow => db[s] \in Row
           /\ entry[s] # NoEntry => entry[s] \in Entry
           /\ last.age \in Age /\ last.site \in Site /\ last.vlr \in Vlr
BY DEF TypeOK

(* A step that neither records a VLR nor changes the latest location       *)
(* update: what a site knows of its own stays, is forgotten, or, for the   *)
(* latest location update's site, stays.                                   *)
LEMMA QuietKeeps ==
    ASSUME IInv, last' = last, visited' = visited, state' \in {state, "mixed"},
           \A s \in Site : RowLocal(s)' => RowLocal(s) /\ db'[s] = db[s],
           \A s \in Site : EntryLocal(s)' => /\ EntryLocal(s)
                                             /\ entry'[s].vlr = entry[s].vlr
                                             /\ entry'[s].age = entry[s].age,
           \A n \in flight' : \/ n \in flight
                              \/ /\ <<Origin(n), n.vlr>> \in visited
                                 /\ n.cur /\ state = "begun" => ~RowLocal(last.site),
           state' = "done" /\ last.age <= MaxAge =>
               /\ RowLocal(last.site) => RowLocal(last.site)'
               /\ EntryLocal(last.site) => EntryLocal(last.site)'
    PROVE  Attached' /\ WhileBegun' /\ WhenDone'
<1>1. Attached /\ WhileBegun /\ WhenDone
  BY DEF IInv
<1>2. Attached'
  BY <1>1 DEF Attached, Origin
<1>3. \A s \in Site : NothingYounger(s) => NothingYounger(s)'
  BY DEF NothingYounger
<1>4. WhileBegun'
  <2> SUFFICES ASSUME state' = "begun"
               PROVE  /\ \A s \in Site : NothingYounger(s)'
                      /\ \A m \in flight' : m.cur /\ (m.back # <<>> \/ m.result)
                                               => ~RowLocal(last.site)'
    BY DEF WhileBegun, RowLocal
  <2>1. state = "begun"
    OBVIOUS
  <2>2. last.site \in Site
    BY DEF IInv, TypeOK
  <2> QED
    BY <1>1, <1>3, <2>1, <2>2 DEF WhileBegun
<1>5. WhenDone'
  <2> SUFFICES ASSUME state' = "done", last.age <= MaxAge
               PROVE  WhenDone'
    BY DEF WhenDone
  <2>1. state = "done" /\ last.site \in Site
    BY DEF IInv, TypeOK
  <2> DEFINE L == last.site
  <2>2. \A s \in Site \ {L} : NothingYounger(s)'
    BY <1>1, <1>3, <2>1 DEF WhenDone
  <2>3. \/ /\ RowLocal(L) /\ db[L].vlr = last.vlr /\ db[L].age <= last.age
           /\ EntryLocal(L) => last.age <= entry[L].age
        \/ /\ EntryLocal(L) /\ entry[L].vlr = last.vlr /\ entry[L].age <= last.age
           /\ ~RowLocal(L)
    BY <1>1, <2>1 DEF WhenDone
  <2>4. \/ /\ RowLocal(L)' /\ db'[L].vlr = last.vlr /\ db'[L].age <= last.age
           /\ EntryLocal(L)' => last.age <= entry'[L].age
        \/ /\ EntryLocal(L)' /\ entry'[L].vlr = last.vlr /\ entry'[L].age <= last.age
           /\ ~RowLocal(L)'
    BY <2>1, <2>3
  <2> QED
    BY <2>2, <2>4 DEF WhenDone, RowLocal, EntryLocal
<1> QED
  BY <1>2, <1>4, <1>5

-----------------------------------------------------------------------------
(* The actions. *)

LEMMA BeginLuKeeps ==
    ASSUME IInv, NEW s \in Site, NEW v \in Vlr, BeginLu(s, v)
    PROVE  IInv'
<1> DEFINE new == [at |-> s, back |-> <<>>, result |-> FALSE, vlr |-> v, cur |-> TRUE]
           old(m) == [m EXCEPT !.cur = FALSE]
<1>1. /\ flight' = {old(m) : m \in flight} \cup {new}
      /\ last' = [site |-> s, vlr |-> v, age |-> 0]
      /\ state' = "begun" /\ visited' = visited \cup {<<s, v>>}
      /\ db' = db /\ entry' = entry /\ hosts' = hosts
  BY DEF BeginLu
<1>2. TypeOK /\ Attached /\ NewTooOld
  BY DEF IInv
<1>3. /\ new \in Message /\ Origin(new) = s /\ new.vlr = v
      /\ new.back = <<>> /\ new.result = FALSE
  BY EmptySeq DEF Message, Origin
<1>4. \A m \in flight : /\ old(m) \in Message /\ Origin(old(m)) = Origin(m)
                        /\ old(m).vlr = m.vlr /\ old(m).cur = FALSE
  BY <1>2 DEF TypeOK, Message, Origin
<1> HIDE DEF new, old
<1>5. \A n \in flight' : n = new \/ \E m \in flight : n = old(m)
  BY <1>1
<1>6. 0 \in Age
  BY AgesAssumption DEF Age, TooOld
<1>7. TypeOK'
  <2>1. flight' \subseteq Message
    BY <1>3, <1>4, <1>5
  <2>2. last' \in [site: Site, vlr: Vlr, age: Age]
    BY <1>1, <1>6
  <2>3. visited' \subseteq Site \X Vlr
    BY <1>1, <1>2 DEF TypeOK
  <2> QED
    BY <1>1, <1>2, <2>1, <2>2, <2>3 DEF TypeOK
<1>8. Attached'
  <2>1. \A n \in flight' : <<Origin(n), n.vlr>> \in visited'
    BY <1>1, <1>2, <1>3, <1>4, <1>5 DEF Attached
  <2>2. \A x \in Site : RowLocal(x)' => <<x, db'[x].vlr>> \in visited'
    BY <1>1, <1>2 DEF Attached, RowLocal
  <2>3. \A x \in Site : EntryLocal(x)' => <<x, entry'[x].vlr>> \in visited'
    BY <1>1, <1>2 DEF Attached, EntryLocal
  <2> QED
    BY <2>1, <2>2, <2>3 DEF Attached, Origin
<1>9. NewTooOld'
  BY <1>1, <1>2 DEF NewTooOld
<1>10. \A n \in flight' : n.cur => n = new
  BY <1>4, <1>5
<1>11. OneCurrent'
  <2>1. last'.site = s /\ last'.vlr = v
    BY <1>1
  <2> QED
    BY <1>1, <1>3, <1>10, <2>1 DEF OneCurrent, Origin
<1>12. WhileBegun'
  <2>1. last'.age = 0
    BY <1>1
  <2>2. \A x \in Site : NothingYounger(x)'
    <3> SUFFICES ASSUME NEW x \in Site PROVE NothingYounger(x)'
      OBVIOUS
    <3>1. db[x] # NoRow => db[x].age \in Age
      BY <1>2, SiteTypes DEF Row
    <3>2. entry[x] # NoEntry => entry[x].age \in Age
      BY <1>2, SiteTypes DEF Entry
    <3>3. \A a \in Age : 0 <= a
      BY AgesAssumption DEF Age, TooOld
    <3> QED
      BY <1>1, <2>1, <3>1, <3>2, <3>3 DEF NothingYounger, RowLocal, EntryLocal
  <2>3. \A n \in flight' : ~(n.cur /\ (n.back # <<>> \/ n.result))
    BY <1>3, <1>10
  <2> QED
    BY <2>2, <2>3 DEF WhileBegun
<1>13. WhenDone'
  BY <1>1 DEF WhenDone
<1> QED
  BY <1>7, <1>8, <1>9, <1>11, <1>12, <1>13 DEF IInv

(* A VLR is recorded in a way that leaves open which location update is    *)
(* the latest that succeeded.                                              *)
LEMMA MixedKeeps ==
    ASSUME state' = "mixed"
    PROVE  WhileBegun' /\ WhenDone'
BY DEF WhileBegun, WhenDone

(* A row that a message leaves behind is of its type, and names a VLR of   *)
(* the site only if the message was begun there.                           *)
LEMMA LuIs ==
    ASSUME TypeOK, NEW m \in flight, NEW a \in Age,
           NEW r, r = [vlr |-> m.vlr, via |-> m.back # <<>>, age |-> a]
    PROVE  r \in Row /\ (~r.via => Origin(m) = m.at) /\ r.vlr = m.vlr /\ r.age = a
           /\ r.via = (m.back # <<>>)
<1>1. m.vlr \in Vlr
  BY DEF TypeOK, Message
<1>2. (m.back # <<>>) \in BOOLEAN
  BY Zenon
<1>3. r \in Row /\ r.vlr = m.vlr /\ r.age = a /\ r.via = (m.back # <<>>)
  BY <1>1, <1>2 DEF Row
<1>4. ~r.via => Origin(m) = m.at
  BY <1>3 DEF Origin
<1> QED
  BY <1>3, <1>4

LEMMA LuStartKeeps ==
    ASSUME IInv, NEW m \in flight, lu_start(m)
    PROVE  IInv'
<1>1. TypeOK /\ Attached /\ NewTooOld /\ OneCurrent /\ WhileBegun /\ WhenDone
  BY DEF IInv
<1> DEFINE h == m.at
           L == last.site
<1>2. /\ m \in Message /\ h \in Site /\ m.vlr \in Vlr /\ L \in Site /\ last.age \in Age
      /\ flight \subseteq Message
  BY <1>1 DEF TypeOK, Message
<1>3. ~m.result /\ db[h] # NoRow /\ UNCHANGED <<entry, hosts, last, visited>>
  BY DEF lu_start
<1>4. 0 \in Age /\ db[h].age \in Age
  BY <1>1, <1>2, <1>3, AgesAssumption, SiteTypes DEF Age, TooOld, Row
<1>5. PICK a \in Age, S \in {{}, Back(m)} :
         /\ db' = [db EXCEPT ![h] = [vlr |-> m.vlr, via |-> m.back # <<>>, age |-> a]]
         /\ flight' = Handled(m, S)
         /\ \/ a = 0 /\ S = Back(m) /\ state' = StateAfter(m, m.back = <<>>)
            \/ state' = "mixed"
  <2>1. CASE /\ db' = [db EXCEPT ![h] = db_subscr_lu(@, m)]
             /\ flight' = Handled(m, Back(m))
             /\ state' = StateAfter(m, m.back = <<>>)
    BY <1>4, <2>1 DEF db_subscr_lu
  <2>2. CASE /\ db' = [db EXCEPT ![h] = [db_subscr_lu(@, m) EXCEPT !.age = db[h].age]]
             /\ flight' = Handled(m, {})
             /\ state' = "mixed"
    <3>1. db' = [db EXCEPT ![h] = [vlr |-> m.vlr, via |-> m.back # <<>>, age |-> db[h].age]]
      <4> DEFINE b == m.back # <<>>
                 x == db[h].age
      <4>1. db' = [db EXCEPT ![h] = [[vlr |-> m.vlr, via |-> b, age |-> 0] EXCEPT !.age = x]]
        BY <2>2 DEF db_subscr_lu
      <4> HIDE DEF b, x
      <4>2. [[vlr |-> m.vlr, via |-> b, age |-> 0] EXCEPT !.age = x]
               = [vlr |-> m.vlr, via |-> b, age |-> x]
        OBVIOUS
      <4>3. db' = [db EXCEPT ![h] = [vlr |-> m.vlr, via |-> b, age |-> x]]
        BY <4>1, <4>2, Zenon
      <4> QED
        BY <4>3 DEF b, x
    <3> QED
      BY <1>4, <2>2, <3>1
  <2> QED
    BY <2>1, <2>2 DEF lu_start
<1> DEFINE r == [vlr |-> m.vlr, via |-> m.back # <<>>, age |-> a]
<1>6. /\ r \in Row /\ (~r.via => Origin(m) = h) /\ r.vlr = m.vlr /\ r.age = a
      /\ r.via = (m.back # <<>>)
  BY <1>1, LuIs
<1>7. db' = [db EXCEPT ![h] = r]
  BY <1>5
<1> HIDE DEF r
<1>8. \A s \in Site : db'[s] = IF s = h THEN r ELSE db[s]
  BY <1>1, <1>7 DEF TypeOK
<1>9. db' \in [Site -> Row \cup {NoRow}]
  BY <1>1, <1>6, <1>7 DEF TypeOK
<1>10. /\ \A n \in S : Follows(n, m)
       /\ \A n, o \in S : n = o
       /\ m.back = <<>> => S = {}
  BY <1>2, BackIs
<1>11. state' \in {state, "mixed"} \/ (state' = "done" /\ S = {} /\ m.cur)
  BY <1>5, <1>10 DEF StateAfter
<1>12. OneCurrent' /\ flight' \subseteq Message
  BY <1>1, <1>2, <1>3, <1>5, <1>10, <1>11, HandledKeeps
<1>13. TypeOK'
  <2>1. state' \in {"begun", "done", "mixed"}
    BY <1>1, <1>11 DEF TypeOK
  <2> QED
    BY <1>1, <1>3, <1>9, <1>12, <2>1 DEF TypeOK
<1>14. Attached'
  <2>1. <<Origin(m), m.vlr>> \in visited
    BY <1>1 DEF Attached
  <2>2. \A n \in flight' : <<Origin(n), n.vlr>> \in visited'
    BY <1>1, <1>3, <1>5, <1>10, HandledCame DEF Attached
  <2>3. \A s \in Site : RowLocal(s)' => <<s, db'[s].vlr>> \in visited'
    BY <1>1, <1>3, <1>6, <1>8, <2>1 DEF Attached, RowLocal
  <2>4. \A s \in Site : EntryLocal(s)' => <<s, entry'[s].vlr>> \in visited'
    BY <1>1, <1>3 DEF Attached, EntryLocal
  <2> QED
    BY <2>2, <2>3, <2>4 DEF Attached, Origin
<1>15. NewTooOld'
  BY <1>1, <1>3 DEF NewTooOld
<1>16. CASE state' = "mixed"
  BY <1>12, <1>13, <1>14, <1>15, <1>16, MixedKeeps DEF IInv
<1>17. CASE state' # "mixed"
  <2>1. /\ m.cur /\ a = 0 /\ S = Back(m)
        /\ state' = IF m.back = <<>> /\ state = "begun" THEN "done" ELSE state
    BY <1>5, <1>17 DEF StateAfter
  <2>2. Origin(m) = L /\ m.vlr = last.vlr /\ state = "begun"
    BY <1>1, <1>17, <2>1 DEF OneCurrent, TypeOK
  <2>3. /\ \A s \in Site : NothingYounger(s)
        /\ \A n \in flight : n.cur /\ (n.back # <<>> \/ n.result) => ~RowLocal(L)
    BY <1>1, <2>2 DEF WhileBegun
  <2>4. \A s \in Site : s # h => NothingYounger(s)'
    BY <1>3, <1>8, <2>3 DEF NothingYounger, RowLocal, EntryLocal
  <2>5. EntryLocal(h)' => last.age <= entry'[h].age
    BY <1>2, <1>3, <2>3 DEF NothingYounger, EntryLocal
  <2>6. CASE m.back = <<>>
    <3>1. state' = "done" /\ h = L
      BY <2>1, <2>2, <2>6 DEF Origin
    <3>2. RowLocal(L)' /\ db'[L].vlr = last'.vlr /\ db'[L].age <= last'.age
      <4>1. 0 <= last.age
        BY <1>2, AgesAssumption DEF Age, TooOld
      <4>2. db'[last.site] = r /\ last' = last
        BY <1>2, <1>3, <1>8, <3>1
      <4>3. r # NoRow /\ ~r.via /\ r.vlr # NoVlr
        BY <1>2, <1>6, <2>6, NoVlrAssumption, MarkersAssumption
      <4> QED
        BY <1>6, <2>1, <2>2, <4>1, <4>2, <4>3 DEF RowLocal
    <3>3. WhenDone'
      BY <1>3, <2>4, <2>5, <3>1, <3>2 DEF WhenDone, EntryLocal
    <3>4. WhileBegun'
      BY <3>1 DEF WhileBegun
    <3> QED
      BY <1>12, <1>13, <1>14, <1>15, <3>3, <3>4 DEF IInv
  <2>7. CASE m.back # <<>>
    <3>1. state' = "begun" /\ ~RowLocal(L)
      BY <2>1, <2>2, <2>3, <2>7
    <3>2. ~RowLocal(h)'
      BY <1>2, <1>6, <1>8, <2>7 DEF RowLocal
    <3>3. ~RowLocal(L)'
      BY <1>2, <1>3, <1>8, <3>1, <3>2 DEF RowLocal
    <3>4. NothingYounger(h)'
      BY <1>3, <2>5, <3>2 DEF NothingYounger
    <3>5. WhileBegun'
      BY <1>3, <2>4, <3>3, <3>4 DEF WhileBegun, RowLocal
    <3>6. WhenDone'
      BY <3>1 DEF WhenDone
    <3> QED
      BY <1>12, <1>13, <1>14, <1>15, <3>5, <3>6 DEF IInv
  <2> QED
    BY <2>6, <2>7
<1> QED
  BY <1>16, <1>17

LEMMA AcknowledgeKeeps ==
    ASSUME IInv, NEW m \in flight, proxy_acknowledge_gsup_from_remote_hlr(m)
    PROVE  IInv'
<1>1. TypeOK /\ Attached /\ NewTooOld /\ OneCurrent /\ WhileBegun /\ WhenDone
  BY DEF IInv
<1> DEFINE h == m.at
           L == last.site
           b == m.back # <<>>
           S == Back(m)
           e == [entry[h] EXCEPT !.prelim = NoVlr, !.vlr = m.vlr, !.via = b, !.age = 0]
<1>2. /\ m \in Message /\ h \in Site /\ m.vlr \in Vlr /\ L \in Site /\ last.age \in Age
      /\ flight \subseteq Message
  BY <1>1 DEF TypeOK, Message
<1>3. m.result /\ entry[h] # NoEntry /\ UNCHANGED <<db, hosts, last, visited>>
  BY DEF proxy_acknowledge_gsup_from_remote_hlr
<1>4. flight' = Handled(m, S) /\ state' = StateAfter(m, m.back = <<>>)
  BY DEF proxy_acknowledge_gsup_from_remote_hlr
<1>5. /\ entry \in [Site -> Entry \cup {NoEntry}] /\ entry[h] \in Entry
      /\ b \in BOOLEAN /\ 0 \in Age
  BY <1>1, <1>2, <1>3, AgesAssumption DEF TypeOK, Age, TooOld
<1>6. entry' = [entry EXCEPT ![h] = e]
  BY <1>2, <1>5 DEF proxy_acknowledge_gsup_from_remote_hlr
<1>7. e \in Entry /\ e.vlr = m.vlr /\ e.via = b /\ e.age = 0
  <2> HIDE DEF b
  <2> QED
    BY <1>2, <1>5 DEF Entry
<1> HIDE DEF e
<1>8. \A s \in Site : entry'[s] = IF s = h THEN e ELSE entry[s]
  BY <1>5, <1>6
<1>9. entry' \in [Site -> Entry \cup {NoEntry}]
  BY <1>5, <1>6, <1>7
<1>10. /\ \A n \in S : Follows(n, m)
       /\ \A n, o \in S : n = o
       /\ m.back = <<>> => S = {}
  BY <1>2, BackIs
<1>11. state' \in {state, "mixed"} \/ (state' = "done" /\ S = {} /\ m.cur)
  BY <1>4, <1>10 DEF StateAfter
<1> HIDE DEF S
<1>12. OneCurrent' /\ flight' \subseteq Message
  BY <1>1, <1>2, <1>3, <1>4, <1>10, <1>11, HandledKeeps
<1>13. TypeOK'
  <2>1. state' \in {"begun", "done", "mixed"}
    BY <1>1, <1>11 DEF TypeOK
  <2> QED
    BY <1>1, <1>3, <1>9, <1>12, <2>1 DEF TypeOK
<1>14. ~e.via => Origin(m) = h
  BY <1>7 DEF Origin
<1>15. Attached'
  <2>1. <<Origin(m), m.vlr>> \in visited
    BY <1>1 DEF Attached
  <2>2. \A n \in flight' : <<Origin(n), n.vlr>> \in visited'
    BY <1>1, <1>3, <1>4, <1>10, HandledCame DEF Attached
  <2>3. \A s \in Site : EntryLocal(s)' => <<s, entry'[s].vlr>> \in visited'
    BY <1>1, <1>3, <1>7, <1>8, <1>14, <2>1 DEF Attached, EntryLocal
  <2>4. \A s \in Site : RowLocal(s)' => <<s, db'[s].vlr>> \in visited'
    BY <1>1, <1>3 DEF Attached, RowLocal
  <2> QED
    BY <2>2, <2>3, <2>4 DEF Attached, Origin
<1>16. NewTooOld'
  BY <1>1, <1>2, <1>7, <1>8, NoVlrAssumption DEF NewTooOld
<1>17. CASE state' = "mixed"
  BY <1>12, <1>13, <1>15, <1>16, <1>17, MixedKeeps DEF IInv
<1>18. CASE state' # "mixed"
  <2>1. m.cur /\ state' = IF m.back = <<>> /\ state = "begun" THEN "done" ELSE state
    BY <1>4, <1>18 DEF StateAfter
  <2>2. Origin(m) = L /\ m.vlr = last.vlr /\ state = "begun"
    BY <1>1, <1>18, <2>1 DEF OneCurrent, TypeOK
  <2>3. (\A s \in Site : NothingYounger(s)) /\ ~RowLocal(L)
    BY <1>1, <1>3, <2>1, <2>2 DEF WhileBegun
  <2>4. \A s \in Site : s # h => NothingYounger(s)'
    BY <1>3, <1>8, <2>3 DEF NothingYounger, RowLocal, EntryLocal
  <2>5. ~RowLocal(L)'
    BY <1>3, <2>3 DEF RowLocal
  <2>6. CASE m.back = <<>>
    <3>1. state' = "done" /\ h = L
      BY <2>1, <2>2, <2>6 DEF Origin
    <3>2. EntryLocal(L)' /\ entry'[L].vlr = last'.vlr /\ entry'[L].age <= last'.age
      <4>1. 0 <= last.age
        BY <1>2, AgesAssumption DEF Age, TooOld
      <4>2. entry'[last.site] = e /\ last' = last
        BY <1>2, <1>3, <1>8, <3>1
      <4>3. e # NoEntry /\ ~e.via /\ e.vlr # NoVlr
        BY <1>2, <1>7, <2>6, NoVlrAssumption, MarkersAssumption
      <4> QED
        BY <1>7, <2>2, <4>1, <4>2, <4>3 DEF EntryLocal
    <3>3. WhenDone'
      BY <1>3, <2>4, <2>5, <3>1, <3>2 DEF WhenDone, RowLocal
    <3>4. WhileBegun'
      BY <3>1 DEF WhileBegun
    <3> QED
      BY <1>12, <1>13, <1>15, <1>16, <3>3, <3>4 DEF IInv
  <2>7. CASE m.back # <<>>
    <3>1. state' = "begun"
      BY <2>1, <2>2, <2>7
    <3>2. ~EntryLocal(h)'
      BY <1>2, <1>7, <1>8, <2>7 DEF EntryLocal
    <3>3. NothingYounger(h)'
      BY <1>2, <1>3, <2>3, <3>2 DEF NothingYounger, RowLocal
    <3>4. WhileBegun'
      BY <1>3, <2>4, <2>5, <3>3 DEF WhileBegun, RowLocal
    <3>5. WhenDone'
      BY <3>1 DEF WhenDone
    <3> QED
      BY <1>12, <1>13, <1>15, <1>16, <3>4, <3>5 DEF IInv
  <2> QED
    BY <2>6, <2>7
<1> QED
  BY <1>17, <1>18

LEMMA ForwardKeeps ==
    ASSUME IInv, NEW m \in flight, dgsm_check_forward_gsup_msg(m)
    PROVE  IInv'
<1>1. TypeOK /\ Attached /\ NewTooOld /\ OneCurrent /\ WhileBegun /\ WhenDone
  BY DEF IInv
<1> DEFINE p == m.at
<1>2. /\ m \in Message /\ p \in Site /\ m.vlr \in Vlr /\ flight \subseteq Message
  BY <1>1 DEF TypeOK, Message
<1>3. ~m.result /\ db[p] = NoRow /\ UNCHANGED <<db, hosts, last, state, visited>>
  BY DEF dgsm_check_forward_gsup_msg
<1>4. PICK h \in Site :
         /\ entry' = [entry EXCEPT ![p] = Forwarding(@, m, h)]
         /\ flight' = Handled(m, {[m EXCEPT !.at = h, !.back = Append(@, m.at)]})
  BY DEF dgsm_check_forward_gsup_msg
<1> DEFINE n == [m EXCEPT !.at = h, !.back = Append(@, m.at)]
           e == Forwarding(entry[p], m, h)
<1>5. Follows(n, m) /\ flight' = Handled(m, {n})
  BY <1>2, <1>4, ForwardIs
<1> HIDE DEF n
<1>6. e \in Entry /\ (entry[p] = NoEntry => e.vlr = NoVlr /\ e.age = TooOld)
      /\ (entry[p] # NoEntry => e.vlr = entry[p].vlr /\ e.age = entry[p].age
                                /\ e.via = entry[p].via)
  <2>1. CASE entry[p] = NoEntry
    <3>1. e = [next |-> h, prelim |-> m.vlr, vlr |-> NoVlr, via |-> FALSE, age |-> TooOld]
      BY <2>1 DEF Forwarding
    <3>2. TooOld \in Age
      BY AgesAssumption DEF TooOld, Age
    <3> QED
      BY <1>2, <2>1, <3>1, <3>2 DEF Entry
  <2>2. CASE entry[p] # NoEntry
    <3>1. e = [entry[p] EXCEPT !.prelim = m.vlr] /\ entry[p] \in Entry
      BY <1>1, <1>2, <2>2 DEF Forwarding, TypeOK
    <3> QED
      BY <1>2, <2>2, <3>1 DEF Entry
  <2> QED
    BY <2>1, <2>2
<1>7. entry' = [entry EXCEPT ![p] = e]
  BY <1>4
<1> HIDE DEF e
<1>8. \A s \in Site : entry'[s] = IF s = p THEN e ELSE entry[s]
  BY <1>1, <1>7 DEF TypeOK
<1>9. entry' \in [Site -> Entry \cup {NoEntry}]
  BY <1>1, <1>6, <1>7 DEF TypeOK
<1>10. OneCurrent' /\ flight' \subseteq Message
  <2> DEFINE S == {n}
  <2>1. /\ \A x \in S : Follows(x, m)
        /\ \A x, y \in S : x = y
        /\ flight' = Handled(m, S)
    BY <1>5
  <2> HIDE DEF S
  <2> QED
    BY <1>1, <1>2, <1>3, <2>1, HandledKeeps
<1>11. TypeOK'
  BY <1>1, <1>3, <1>9, <1>10 DEF TypeOK
<1>12. NewTooOld'
  BY <1>1, <1>6, <1>8 DEF NewTooOld
<1>13. \A s \in Site : RowLocal(s)' <=> RowLocal(s)
  BY <1>3 DEF RowLocal
<1>14. \A s \in Site : /\ EntryLocal(s)' <=> EntryLocal(s)
                       /\ EntryLocal(s) => /\ entry'[s].vlr = entry[s].vlr
                                           /\ entry'[s].age = entry[s].age
  BY <1>6, <1>8, MarkersAssumption DEF EntryLocal
<1>15. <<Origin(n), n.vlr>> \in visited
  BY <1>1, <1>5 DEF Attached, Follows
<1>16. n.cur /\ state = "begun" => ~RowLocal(last.site)
  <2> SUFFICES ASSUME n.cur, state = "begun" PROVE ~RowLocal(last.site)
    OBVIOUS
  <2>1. m.cur
    BY <1>5 DEF Follows
  <2>2. CASE m.back = <<>>
    BY <1>1, <1>3, <2>1, <2>2 DEF OneCurrent, Origin, RowLocal
  <2>3. CASE m.back # <<>>
    BY <1>1, <2>1, <2>3 DEF WhileBegun
  <2> QED
    BY <2>2, <2>3
<1>17. \A x \in flight' : \/ x \in flight
                          \/ /\ <<Origin(x), x.vlr>> \in visited
                             /\ x.cur /\ state = "begun" => ~RowLocal(last.site)
  BY <1>5, <1>15, <1>16 DEF Handled
<1>18. last.site \in Site /\ state' \in {state, "mixed"}
  BY <1>1, <1>3 DEF TypeOK
<1>19. /\ RowLocal(last.site) => RowLocal(last.site)'
       /\ EntryLocal(last.site) => EntryLocal(last.site)'
  BY <1>3, <1>13, <1>14, <1>18
<1>20. Attached' /\ WhileBegun' /\ WhenDone'
  BY <1>3, <1>13, <1>14, <1>17, <1>18, <1>19, QuietKeeps
<1> QED
  BY <1>10, <1>11, <1>12, <1>20 DEF IInv

(* Neither rows nor entries change. *)
LEMMA SameKeeps ==
    ASSUME IInv, UNCHANGED <<db, entry, last, state, visited>>,
           hosts' \in [Site -> [Vlr \cup {NoVlr} -> ((SUBSET Family) \ {{}}) \cup {NoHost}]],
           flight' \subseteq flight
    PROVE  IInv'
<1>1. TypeOK /\ Attached /\ NewTooOld /\ OneCurrent
  BY DEF IInv
<1>2. TypeOK' /\ NewTooOld'
  BY <1>1 DEF TypeOK, NewTooOld
<1>3. OneCurrent'
  BY <1>1 DEF OneCurrent, Origin
<1>4. \A s \in Site : /\ RowLocal(s)' <=> RowLocal(s)
                      /\ EntryLocal(s)' <=> EntryLocal(s)
  BY DEF RowLocal, EntryLocal
<1>5. last.site \in Site /\ state' \in {state, "mixed"}
  BY <1>1 DEF TypeOK
<1>6. /\ RowLocal(last.site) => RowLocal(last.site)'
      /\ EntryLocal(last.site) => EntryLocal(last.site)'
  BY <1>4, <1>5
<1>7. Attached' /\ WhileBegun' /\ WhenDone'
  BY <1>4, <1>5, <1>6, QuietKeeps
<1> QED
  BY <1>2, <1>3, <1>7 DEF IInv

LEMMA LostKeeps ==
    ASSUME IInv, NEW m \in flight, MessageLost(m)
    PROVE  IInv'
<1>1. UNCHANGED <<db, entry, hosts, last, state, visited>> /\ flight' \subseteq flight
  BY DEF MessageLost, Handled
<1>2. hosts' \in [Site -> [Vlr \cup {NoVlr} -> ((SUBSET Family) \ {{}}) \cup {NoHost}]]
  BY <1>1 DEF IInv, TypeOK
<1> QED
  BY <1>1, <1>2, SameKeeps

(* An entry that is discarded does not matter any more: it is too old. *)
LEMMA CleanupKeeps ==
    ASSUME IInv, NEW x \in Site, proxy_cleanup(x)
    PROVE  IInv'
<1>1. TypeOK /\ Attached /\ NewTooOld /\ OneCurrent /\ WhileBegun /\ WhenDone
  BY DEF IInv
<1>2. /\ entry[x] # NoEntry /\ entry[x].age > FreshTime
      /\ entry' = [entry EXCEPT ![x] = NoEntry]
      /\ UNCHANGED <<db, flight, hosts, last, state, visited>>
  BY DEF proxy_cleanup, Stale
<1>3. \A s \in Site : entry'[s] = IF s = x THEN NoEntry ELSE entry[s]
  BY <1>1, <1>2 DEF TypeOK
<1>4. TypeOK' /\ NewTooOld' /\ OneCurrent'
  <2>1. TypeOK'
    BY <1>1, <1>2 DEF TypeOK
  <2>2. NewTooOld'
    BY <1>1, <1>3 DEF NewTooOld
  <2>3. OneCurrent'
    BY <1>1, <1>2 DEF OneCurrent, Origin
  <2> QED
    BY <2>1, <2>2, <2>3
<1>5. \A s \in Site : RowLocal(s)' <=> RowLocal(s)
  BY <1>2 DEF RowLocal
<1>6. \A s \in Site : EntryLocal(s)' => EntryLocal(s) /\ entry'[s] = entry[s]
  BY <1>3 DEF EntryLocal
<1>7. CASE state = "done" /\ last.age <= MaxAge /\ x = last.site /\ EntryLocal(x)
  <2>1. \/ /\ RowLocal(x) /\ db[x].vlr = last.vlr /\ db[x].age <= last.age
           /\ EntryLocal(x) => last.age <= entry[x].age
        \/ /\ EntryLocal(x) /\ entry[x].vlr = last.vlr /\ entry[x].age <= last.age
           /\ ~RowLocal(x)
    BY <1>1, <1>7 DEF WhenDone
  <2>2. entry[x].age \in Nat /\ last.age \in Nat
    BY <1>1, <1>2, SiteTypes, AgesAssumption DEF Entry, Age, TooOld
  <2>3. ~(entry[x].age <= last.age)
    BY <1>2, <1>7, <2>2, AgesAssumption
  <2>4. RowLocal(x)' /\ db'[x].vlr = last'.vlr /\ db'[x].age <= last'.age
        /\ ~EntryLocal(x)'
    BY <1>2, <1>3, <1>5, <2>1, <2>3 DEF EntryLocal
  <2>5. \A s \in Site \ {x} : NothingYounger(s)'
    BY <1>1, <1>2, <1>5, <1>6, <1>7 DEF WhenDone, NothingYounger
  <2>6. WhenDone'
    BY <1>2, <1>7, <2>4, <2>5 DEF WhenDone
  <2>7. WhileBegun'
    BY <1>2, <1>7 DEF WhileBegun
  <2>8. Attached'
    BY <1>1, <1>2, <1>5, <1>6 DEF Attached, Origin
  <2> QED
    BY <1>4, <2>6, <2>7, <2>8 DEF IInv
<1>8. CASE ~(state = "done" /\ last.age <= MaxAge /\ x = last.site /\ EntryLocal(x))
  <2>1. last.site \in Site /\ state' \in {state, "mixed"} /\ last' = last
    BY <1>1, <1>2 DEF TypeOK
  <2>2. state' = "done" /\ last.age <= MaxAge =>
           /\ RowLocal(last.site) => RowLocal(last.site)'
           /\ EntryLocal(last.site) => EntryLocal(last.site)'
    BY <1>2, <1>3, <1>5, <1>8, <2>1 DEF EntryLocal
  <2>3. Attached' /\ WhileBegun' /\ WhenDone'
    BY <1>2, <1>5, <1>6, <2>1, <2>2, QuietKeeps
  <2> QED
    BY <1>4, <2>3 DEF IInv
<1> QED
  BY <1>7, <1>8

(* A subscriber that is created has no VLR yet. *)
LEMMA CreateKeeps ==
    ASSUME IInv, NEW x \in Site, subscriber_create(x)
    PROVE  IInv'
<1>1. TypeOK /\ Attached /\ NewTooOld /\ OneCurrent
  BY DEF IInv
<1>2. /\ db[x] = NoRow /\ db' = [db EXCEPT ![x] = NewRow]
      /\ UNCHANGED <<entry, flight, hosts, last, state, visited>>
  BY DEF subscriber_create
<1>3. \A s \in Site : db'[s] = IF s = x THEN NewRow ELSE db[s]
  BY <1>1, <1>2 DEF TypeOK
<1>4. NewRow \in Row /\ NewRow.vlr = NoVlr
  BY AgesAssumption DEF NewRow, Row, Age, TooOld
<1>5. TypeOK'
  BY <1>1, <1>2, <1>4 DEF TypeOK
<1>6. NewTooOld' /\ OneCurrent'
  BY <1>1, <1>2 DEF NewTooOld, OneCurrent, Origin
<1>7. \A s \in Site : /\ RowLocal(s)' <=> RowLocal(s)
                      /\ RowLocal(s) => db'[s] = db[s]
  BY <1>2, <1>3, <1>4 DEF RowLocal
<1>8. \A s \in Site : (EntryLocal(s)' <=> EntryLocal(s)) /\ entry'[s] = entry[s]
  BY <1>2 DEF EntryLocal
<1>9. last.site \in Site /\ state' \in {state, "mixed"} /\ last' = last
  BY <1>1, <1>2 DEF TypeOK
<1>10. /\ RowLocal(last.site) => RowLocal(last.site)'
       /\ EntryLocal(last.site) => EntryLocal(last.site)'
  BY <1>7, <1>8, <1>9
<1>11. Attached' /\ WhileBegun' /\ WhenDone'
  BY <1>2, <1>7, <1>8, <1>9, <1>10, QuietKeeps
<1> QED
  BY <1>5, <1>6, <1>11 DEF IInv

LEMMA DeleteKeeps ==
    ASSUME IInv, NEW x \in Site, subscriber_delete(x)
    PROVE  IInv'
<1>1. TypeOK /\ Attached /\ NewTooOld /\ OneCurrent
  BY DEF IInv
<1>2. /\ db' = [db EXCEPT ![x] = NoRow]
      /\ state' = IF x = last.site THEN "mixed" ELSE state
      /\ UNCHANGED <<entry, flight, hosts, last, visited>>
  BY DEF subscriber_delete
<1>3. \A s \in Site : db'[s] = IF s = x THEN NoRow ELSE db[s]
  BY <1>1, <1>2 DEF TypeOK
<1>4. TypeOK'
  BY <1>1, <1>2 DEF TypeOK
<1>5. NewTooOld' /\ OneCurrent'
  BY <1>1, <1>2 DEF NewTooOld, OneCurrent, Origin
<1>6. \A s \in Site : RowLocal(s)' => RowLocal(s) /\ db'[s] = db[s]
  BY <1>3 DEF RowLocal
<1>7. \A s \in Site : (EntryLocal(s)' <=> EntryLocal(s)) /\ entry'[s] = entry[s]
  BY <1>2 DEF EntryLocal
<1>8. last.site \in Site /\ state' \in {state, "mixed"} /\ last' = last
  BY <1>1, <1>2 DEF TypeOK
<1>9. state' = "done" => /\ RowLocal(last.site) => RowLocal(last.site)'
                         /\ EntryLocal(last.site) => EntryLocal(last.site)'
  BY <1>2, <1>3, <1>7, <1>8 DEF RowLocal
<1>10. Attached' /\ WhileBegun' /\ WhenDone'
  BY <1>2, <1>6, <1>7, <1>8, <1>9, QuietKeeps
<1> QED
  BY <1>4, <1>5, <1>10 DEF IInv

(* No service entry is left without an address. *)
LEMMA ServiceKeeps ==
    ASSUME IInv, NEW s \in Site, NEW v \in Vlr \cup {NoVlr}, NEW F \in SUBSET Family, F # {},
           \/ \E f \in F : mslookup_server_msc_service_set(s, v, f)
           \/ mslookup_server_msc_service_del(s, v, F)
    PROVE  IInv'
<1> DEFINE Hosts == ((SUBSET Family) \ {{}}) \cup {NoHost}
<1>1. hosts \in [Site -> [Vlr \cup {NoVlr} -> Hosts]]
  BY DEF IInv, TypeOK
<1>2. UNCHANGED <<db, entry, flight, last, state, visited>>
  BY DEF mslookup_server_msc_service_set, mslookup_server_msc_service_del
<1>3. PICK x \in Hosts : hosts' = [hosts EXCEPT ![s][v] = x]
  <2> DEFINE old == hosts[s][v]
  <2>1. old \in Hosts
    BY <1>1
  <2>2. ASSUME NEW f \in F, mslookup_server_msc_service_set(s, v, f)
        PROVE  \E x \in Hosts : hosts' = [hosts EXCEPT ![s][v] = x]
    <3> DEFINE x == IF old = NoHost THEN {f} ELSE old \cup {f}
    <3>1. hosts' = [hosts EXCEPT ![s][v] = x]
      BY <2>2 DEF mslookup_server_msc_service_set
    <3>2. x \in Hosts
      BY <2>1
    <3> QED
      BY <3>1, <3>2
  <2>3. ASSUME mslookup_server_msc_service_del(s, v, F)
        PROVE  \E x \in Hosts : hosts' = [hosts EXCEPT ![s][v] = x]
    <3> DEFINE x == Without(old, F)
    <3>1. hosts' = [hosts EXCEPT ![s][v] = x] /\ old # NoHost
      BY <2>3 DEF mslookup_server_msc_service_del
    <3>2. x \in Hosts
      BY <2>1, <3>1 DEF Without
    <3> QED
      BY <3>1, <3>2
  <2> QED
    BY <2>2, <2>3
<1>4. hosts' \in [Site -> [Vlr \cup {NoVlr} -> Hosts]]
  <2> HIDE DEF Hosts
  <2> QED
    BY <1>1, <1>3
<1> QED
  BY <1>2, <1>4, SameKeeps

-----------------------------------------------------------------------------
(* Time. *)

LEMMA OlderIs ==
    /\ \A a \in Age : Older(a) \in Age
    /\ \A a, b \in Age : a <= b => Older(a) <= Older(b)
    /\ \A a \in Age : Older(a) <= MaxAge => a <= MaxAge
    /\ Older(TooOld) = TooOld
BY AgesAssumption DEF Older, Age, TooOld

LEMMA TickKeeps ==
    ASSUME IInv, Tick
    PROVE  IInv'
<1>1. TypeOK /\ Attached /\ NewTooOld /\ OneCurrent /\ WhileBegun /\ WhenDone
  BY DEF IInv
<1>2. UNCHANGED <<flight, hosts, state, visited>>
  BY DEF Tick
<1>3. /\ last' \in [site: Site, vlr: Vlr, age: Age] /\ last.age \in Age
      /\ last'.site = last.site /\ last'.vlr = last.vlr /\ last'.age = Older(last.age)
  BY <1>1, OlderIs DEF Tick, TypeOK
<1>4. ASSUME NEW s \in Site
      PROVE  /\ db[s] = NoRow => db'[s] = NoRow
             /\ db[s] # NoRow =>
                   /\ db'[s] \in Row /\ db[s].age \in Age /\ db'[s].age = Older(db[s].age)
                   /\ db'[s].vlr = db[s].vlr /\ db'[s].via = db[s].via
  BY <1>1, OlderIs DEF Tick, TypeOK, Row
<1>5. ASSUME NEW s \in Site
      PROVE  /\ entry[s] = NoEntry => entry'[s] = NoEntry
             /\ entry[s] # NoEntry =>
                   /\ entry'[s] \in Entry /\ entry[s].age \in Age
                   /\ entry'[s].age = Older(entry[s].age)
                   /\ entry'[s].vlr = entry[s].vlr /\ entry'[s].via = entry[s].via
  BY <1>1, OlderIs DEF Tick, TypeOK, Entry
<1>6. \A s \in Site : (RowLocal(s)' <=> RowLocal(s)) /\ (EntryLocal(s)' <=> EntryLocal(s))
  BY <1>4, <1>5, MarkersAssumption DEF RowLocal, EntryLocal
<1>7. TypeOK'
  <2>1. db' \in [Site -> Row \cup {NoRow}]
    <3>1. db' = [s \in Site |-> db'[s]] /\ \A s \in Site : db'[s] \in Row \cup {NoRow}
      BY <1>4 DEF Tick
    <3> QED
      BY <3>1
  <2>2. entry' \in [Site -> Entry \cup {NoEntry}]
    <3>1. /\ entry' = [s \in Site |-> entry'[s]]
          /\ \A s \in Site : entry'[s] \in Entry \cup {NoEntry}
      BY <1>5 DEF Tick
    <3> QED
      BY <3>1
  <2> QED
    BY <1>1, <1>2, <1>3, <2>1, <2>2 DEF TypeOK
<1>8. Attached'
  <2>1. \A s \in Site : RowLocal(s)' => <<s, db'[s].vlr>> \in visited'
    BY <1>1, <1>2, <1>4, <1>6 DEF Attached, RowLocal
  <2>2. \A s \in Site : EntryLocal(s)' => <<s, entry'[s].vlr>> \in visited'
    BY <1>1, <1>2, <1>5, <1>6 DEF Attached, EntryLocal
  <2> QED
    BY <1>1, <1>2, <2>1, <2>2 DEF Attached, Origin
<1>9. NewTooOld'
  BY <1>1, <1>5, OlderIs DEF NewTooOld
<1>10. OneCurrent'
  BY <1>1, <1>2, <1>3 DEF OneCurrent, Origin
<1>11. \A s \in Site : NothingYounger(s) => NothingYounger(s)'
  BY <1>3, <1>4, <1>5, <1>6, OlderIs DEF NothingYounger, RowLocal, EntryLocal
<1>12. WhileBegun'
  BY <1>1, <1>2, <1>3, <1>6, <1>11 DEF WhileBegun
<1>13. WhenDone'
  <2> SUFFICES ASSUME state' = "done", last'.age <= MaxAge
               PROVE  WhenDone'
    BY DEF WhenDone
  <2> DEFINE L == last.site
  <2>1. state = "done" /\ last.age <= MaxAge /\ L \in Site
    BY <1>1, <1>2, <1>3, OlderIs DEF TypeOK
  <2>2. \A s \in Site \ {L} : NothingYounger(s)'
    BY <1>1, <1>11, <2>1 DEF WhenDone
  <2>3. \/ /\ RowLocal(L) /\ db[L].vlr = last.vlr /\ db[L].age <= last.age
           /\ EntryLocal(L) => last.age <= entry[L].age
        \/ /\ EntryLocal(L) /\ entry[L].vlr = last.vlr /\ entry[L].age <= last.age
           /\ ~RowLocal(L)
    BY <1>1, <2>1 DEF WhenDone
  <2>4. /\ RowLocal(L) => db'[L].vlr = db[L].vlr
        /\ RowLocal(L) /\ db[L].age <= last.age => db'[L].age <= last'.age
        /\ EntryLocal(L) => entry'[L].vlr = entry[L].vlr
        /\ EntryLocal(L) /\ entry[L].age <= last.age => entry'[L].age <= last'.age
        /\ EntryLocal(L) /\ last.age <= entry[L].age => last'.age <= entry'[L].age
    BY <1>3, <1>4, <1>5, <2>1, OlderIs DEF RowLocal, EntryLocal
  <2>5. (RowLocal(L)' <=> RowLocal(L)) /\ (EntryLocal(L)' <=> EntryLocal(L))
    BY <1>3, <1>6, <2>1
  <2>6. \/ /\ RowLocal(L)' /\ db'[L].vlr = last'.vlr /\ db'[L].age <= last'.age
           /\ EntryLocal(L)' => last'.age <= entry'[L].age
        \/ /\ EntryLocal(L)' /\ entry'[L].vlr = last'.vlr /\ entry'[L].age <= last'.age
           /\ ~RowLocal(L)'
    BY <1>3, <2>3, <2>4, <2>5
  <2> QED
    BY <1>3, <2>2, <2>6 DEF WhenDone
<1> QED
  BY <1>7, <1>8, <1>9, <1>10, <1>12, <1>13 DEF IInv

-----------------------------------------------------------------------------
(* Answers. *)

(* A site knows where the subscriber is from a VLR of its own that is not  *)
(* too old: from the row, or from the entry if that is younger.            *)
LEMMA HereIs ==
    ASSUME IInv, NEW s \in Site
    PROVE  LET row == RowLocal(s) /\ db[s].age <= MaxAge
               ent == EntryLocal(s) /\ entry[s].age <= MaxAge
               here == subscriber_has_done_lu_here(s)
           IN  /\ here.found <=> row \/ ent
               /\ here.found =>
                     IF ent /\ (~row \/ entry[s].age < db[s].age)
                     THEN here.vlr = entry[s].vlr /\ here.age = entry[s].age
                     ELSE row /\ here.vlr = db[s].vlr /\ here.age = db[s].age
<1> DEFINE row == RowLocal(s) /\ db[s].age <= MaxAge
           ent == EntryLocal(s) /\ entry[s].age <= MaxAge
           h == subscriber_has_done_lu_here_hlr(s)
           p == subscriber_has_done_lu_here_proxy(s)
           here == subscriber_has_done_lu_here(s)
<1>1. \A v, a : /\ NotHere.found = FALSE /\ Here(v, a).found = TRUE
                /\ Here(v, a).vlr = v /\ Here(v, a).age = a
  BY DEF NotHere, Here
<1>2. h = IF row THEN Here(db[s].vlr, db[s].age) ELSE NotHere
  BY DEF subscriber_has_done_lu_here_hlr, RowLocal
<1>3. entry[s] # NoEntry /\ entry[s].age <= MaxAge => entry[s].vlr # NoVlr
  <2>1. NewTooOld
    BY DEF IInv
  <2>2. ~(TooOld <= MaxAge)
    BY AgesAssumption DEF TooOld
  <2> QED
    BY <2>1, <2>2 DEF NewTooOld
<1>4. p = IF ent THEN Here(entry[s].vlr, entry[s].age) ELSE NotHere
  BY <1>3 DEF subscriber_has_done_lu_here_proxy, EntryLocal
<1>5. here = IF p.found /\ (~h.found \/ p.age < h.age) THEN p ELSE h
  BY DEF subscriber_has_done_lu_here
<1> HIDE DEF h, p, row, ent, here
<1>6. /\ row => h.found = TRUE /\ h.vlr = db[s].vlr /\ h.age = db[s].age
      /\ ~row => h.found = FALSE
      /\ ent => p.found = TRUE /\ p.vlr = entry[s].vlr /\ p.age = entry[s].age
      /\ ~ent => p.found = FALSE
  BY <1>1, <1>2, <1>4
<1>7. here.found <=> row \/ ent
  BY <1>5, <1>6
<1>8. here.found => IF ent /\ (~row \/ entry[s].age < db[s].age)
                    THEN here.vlr = entry[s].vlr /\ here.age = entry[s].age
                    ELSE row /\ here.vlr = db[s].vlr /\ here.age = db[s].age
  BY <1>5, <1>6
<1> QED
  BY <1>7, <1>8 DEF row, ent, here

(* What a site answers is what it knows. *)
LEMMA RxIs ==
    ASSUME NEW s \in Site
    PROVE  LET rx == mslookup_server_rx(s)  here == subscriber_has_done_lu_here(s)
           IN  /\ rx.found => here.found /\ rx = here
               /\ here.found /\ mslookup_server_service_get(s, here.vlr) \notin {NoHost, {}}
                     => rx = here
<1> DEFINE here == subscriber_has_done_lu_here(s)
           ok == here.found
                   /\ mslookup_server_service_get(s, here.vlr) \notin {NoHost, {}}
<1>1. mslookup_server_rx(s) = IF ok THEN here ELSE NotHere
  BY DEF mslookup_server_rx
<1>2. NotHere.found = FALSE
  BY DEF NotHere
<1>3. ok => here.found
  OBVIOUS
<1> HIDE DEF ok, here
<1>4. mslookup_server_rx(s).found => ok
  BY <1>1, <1>2
<1> QED
  BY <1>1, <1>3, <1>4 DEF ok, here

LEMMA AttachedAnswers == IInv => AnswersWhereAttached
<1> SUFFICES ASSUME IInv, NEW s \in Site, mslookup_server_rx(s).found
             PROVE  <<s, mslookup_server_rx(s).vlr>> \in visited
  BY DEF AnswersWhereAttached
<1> DEFINE here == subscriber_has_done_lu_here(s)
<1>1. here.found /\ mslookup_server_rx(s) = here
  BY RxIs
<1>2. \/ RowLocal(s) /\ here.vlr = db[s].vlr
      \/ EntryLocal(s) /\ here.vlr = entry[s].vlr
  BY <1>1, HereIs
<1>3. Attached
  BY DEF IInv
<1> QED
  BY <1>1, <1>2, <1>3 DEF Attached

LEMMA YoungestAnswers == IInv => YoungestWins
<1> DEFINE L == last.site
           v == last.vlr
<1> SUFFICES ASSUME IInv, state = "done", last.age <= MaxAge, Offered(L, v)
             PROVE  LET answer == mslookup_server_rx(L)
                    IN  /\ answer.found
                        /\ answer.vlr = v
                        /\ \A s \in Site : mslookup_server_rx(s).found
                                              => answer.age <= mslookup_server_rx(s).age
  BY DEF YoungestWins
<1>1. TypeOK /\ WhenDone
  BY DEF IInv
<1>2. L \in Site /\ v \in Vlr /\ last.age \in Nat
  BY <1>1, AgesAssumption DEF TypeOK, Age, TooOld
<1>3. \A s \in Site : /\ RowLocal(s) => db[s].age \in Nat
                      /\ EntryLocal(s) => entry[s].age \in Nat
  BY <1>1, SiteTypes, AgesAssumption DEF Row, Entry, Age, TooOld, RowLocal, EntryLocal
<1>4. \A s \in Site \ {L} : NothingYounger(s)
  BY <1>1 DEF WhenDone
<1>5. \/ /\ RowLocal(L) /\ db[L].vlr = v /\ db[L].age <= last.age
         /\ EntryLocal(L) => last.age <= entry[L].age
      \/ /\ EntryLocal(L) /\ entry[L].vlr = v /\ entry[L].age <= last.age
         /\ ~RowLocal(L)
  BY <1>1 DEF WhenDone
<1> DEFINE here == subscriber_has_done_lu_here(L)
<1>6. here.found /\ here.vlr = v /\ here.age <= last.age
  <2>1. here.found
    BY <1>2, <1>3, <1>5, HereIs, AgesAssumption
  <2>2. CASE RowLocal(L)
    <3>1. ~(entry[L].age < db[L].age) \/ ~EntryLocal(L)
      BY <1>2, <1>3, <1>5, <2>2
    <3>2. here.vlr = db[L].vlr /\ here.age = db[L].age
      BY <1>2, <1>3, <1>5, <2>1, <2>2, <3>1, HereIs, AgesAssumption
    <3> QED
      BY <1>5, <2>1, <2>2, <3>2
  <2>3. CASE ~RowLocal(L)
    <3>1. here.vlr = entry[L].vlr /\ here.age = entry[L].age
      BY <1>2, <1>3, <1>5, <2>1, <2>3, HereIs, AgesAssumption
    <3> QED
      BY <1>5, <2>1, <2>3, <3>1
  <2> QED
    BY <2>2, <2>3
<1>7. mslookup_server_service_get(L, v) \notin {NoHost, {}}
  <2>1. hosts[L][v] \in ((SUBSET Family) \ {{}}) \cup {NoHost}
    BY <1>1, <1>2 DEF TypeOK
  <2> QED
    BY <2>1, FamilyAssumption DEF Offered, mslookup_server_service_get
<1>8. mslookup_server_rx(L) = here
  BY <1>2, <1>6, <1>7, RxIs
<1> HIDE DEF here
<1>9. ASSUME NEW s \in Site, mslookup_server_rx(s).found
      PROVE  here.age <= mslookup_server_rx(s).age
  <2>1. CASE s = L
    <3>1. here.age \in Nat
      BY <1>2, <1>3, <1>6, HereIs DEF here
    <3> QED
      BY <1>8, <2>1, <3>1
  <2>2. CASE s # L
    <3> DEFINE there == subscriber_has_done_lu_here(s)
    <3>1. there.found /\ mslookup_server_rx(s) = there
      BY <1>9, RxIs
    <3>2. \/ RowLocal(s) /\ there.age = db[s].age
          \/ EntryLocal(s) /\ there.age = entry[s].age
      BY <3>1, HereIs
    <3> HIDE DEF there
    <3>3. last.age <= there.age /\ there.age \in Nat
      BY <1>3, <1>4, <2>2, <3>2 DEF NothingYounger
    <3>4. here.age \in Nat
      BY <1>2, <1>3, <1>6, HereIs DEF here
    <3> QED
      BY <1>2, <1>6, <3>1, <3>3, <3>4
  <2> QED
    BY <2>1, <2>2
<1> QED
  BY <1>6, <1>8, <1>9

-----------------------------------------------------------------------------
(* The theorems. *)

LEMMA InitOK == Init => IInv
<1> SUFFICES ASSUME Init PROVE IInv
  OBVIOUS
<1>1. TooOld \in Age
  BY AgesAssumption DEF TooOld, Age
<1>2. PICK home \in Site : db = [s \in Site |-> IF s = home THEN NewRow ELSE NoRow]
  BY DEF Init
<1>3. NewRow \in Row /\ NewRow.vlr = NoVlr
  BY <1>1 DEF NewRow, Row
<1>4. PICK s \in Site, v \in Vlr : last = [site |-> s, vlr |-> v, age |-> TooOld]
  BY DEF Init
<1>5. TypeOK
  <2>1. db \in [Site -> Row \cup {NoRow}]
    BY <1>2, <1>3
  <2>2. last \in [site: Site, vlr: Vlr, age: Age]
    BY <1>1, <1>4
  <2>3. hosts \in [Site -> [Vlr \cup {NoVlr} -> ((SUBSET Family) \ {{}}) \cup {NoHost}]]
    BY FamilyAssumption DEF Init
  <2> QED
    BY <2>1, <2>2, <2>3 DEF Init, TypeOK
<1>6. \A x \in Site : ~RowLocal(x) /\ ~EntryLocal(x)
  BY <1>2, <1>3 DEF Init, RowLocal, EntryLocal
<1>7. Attached /\ OneCurrent
  BY <1>6 DEF Init, Attached, OneCurrent
<1>8. NewTooOld
  BY DEF Init, NewTooOld
<1>9. WhileBegun /\ WhenDone
  BY DEF Init, WhileBegun, WhenDone
<1> QED
  BY <1>5, <1>7, <1>8, <1>9 DEF IInv

LEMMA NextKeeps == IInv /\ [Next]_vars => IInv'
<1> SUFFICES ASSUME IInv, [Next]_vars PROVE IInv'
  OBVIOUS
<1>1. ASSUME NEW s \in Site, NEW v \in Vlr, BeginLu(s, v) PROVE IInv'
  BY <1>1, BeginLuKeeps
<1>2. ASSUME NEW m \in flight, lu_start(m) PROVE IInv'
  BY <1>2, LuStartKeeps
<1>3. ASSUME NEW m \in flight, dgsm_check_forward_gsup_msg(m) PROVE IInv'
  BY <1>3, ForwardKeeps
<1>4. ASSUME NEW m \in flight, proxy_acknowledge_gsup_from_remote_hlr(m) PROVE IInv'
  BY <1>4, AcknowledgeKeeps
<1>5. ASSUME NEW m \in flight, MessageLost(m) PROVE IInv'
  BY <1>5, LostKeeps
<1>6. ASSUME NEW s \in Site, proxy_cleanup(s) PROVE IInv'
  BY <1>6, CleanupKeeps
<1>7. ASSUME NEW s \in Site, subscriber_create(s) PROVE IInv'
  BY <1>7, CreateKeeps
<1>8. ASSUME NEW s \in Site, subscriber_delete(s) PROVE IInv'
  BY <1>8, DeleteKeeps
<1>9. ASSUME NEW s \in Managed, NEW v \in Configured, NEW f \in Family,
             mslookup_server_msc_service_set(s, v, f)
      PROVE  IInv'
  <2>1. s \in Site /\ v \in Vlr \cup {NoVlr} /\ {f} \in SUBSET Family /\ {f} # {}
    BY ManagedAssumption
  <2>2. \E g \in {f} : mslookup_server_msc_service_set(s, v, g)
    BY <1>9
  <2> QED
    BY <2>1, <2>2, ServiceKeeps
<1>10. ASSUME NEW s \in Managed, NEW v \in Configured, NEW F \in (SUBSET Family) \ {{}},
              mslookup_server_msc_service_del(s, v, F)
       PROVE  IInv'
  <2>1. s \in Site /\ v \in Vlr \cup {NoVlr} /\ F \in SUBSET Family /\ F # {}
    BY ManagedAssumption
  <2> QED
    BY <1>10, <2>1, ServiceKeeps
<1>11. CASE Tick
  BY <1>11, TickKeeps
<1>12. CASE UNCHANGED vars
  <2>1. hosts' \in [Site -> [Vlr \cup {NoVlr} -> ((SUBSET Family) \ {{}}) \cup {NoHost}]]
    BY <1>12 DEF IInv, TypeOK, vars
  <2> QED
    BY <1>12, <2>1, SameKeeps DEF vars
<1> QED
  BY <1>1, <1>2, <1>3, <1>4, <1>5, <1>6, <1>7, <1>8, <1>9, <1>10, <1>11, <1>12 DEF Next

LEMMA Invariance == Spec => []IInv
BY InitOK, NextKeeps, PTL DEF Spec

(* Rows, proxy entries, messages and services of all sites keep their      *)
(* types; no service entry is left without an address.                     *)
THEOREM TypeCorrect == Spec => []TypeOK
<1>1. IInv => TypeOK
  BY DEF IInv
<1> QED
  BY <1>1, Invariance, PTL

(* Wherever the subscriber goes and whichever message is lost or late, the *)
(* site of its latest completed location update answers with its VLR, and  *)
(* no other site has a younger answer.                                     *)
THEOREM YoungestIsLatest == Spec => []YoungestWins
<1> QED
  BY YoungestAnswers, Invariance, PTL

(* vlr_via_proxy does its work: no site answers for a VLR of another one.  *)
THEOREM OnlyAttachedAnswer == Spec => []AnswersWhereAttached
<1> QED
  BY AttachedAnswers, Invariance, PTL

=============================================================================
