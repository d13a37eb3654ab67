-------------------------- MODULE WsConnectProofs --------------------------
(***************************************************************************)
(* Proofs about WsConnect for every list of zones, duplicates included,    *)
(* every set of zones with "-1." in their names, every set of proxies and  *)
(* every no_proxy: type correctness, the order of the zones, the flags a   *)
(* walk reports, the retries and the number of dials of every record.      *)
(***************************************************************************)
EXTENDS WsConnect, SequenceTheorems, FiniteSetTheorems, TLAPS

Attempt == [domain : Records, forced : BOOLEAN]

(* The list the walk began with.                                           *)
Full ==
  Unforced(IF walk = "cf" THEN cf_ws_domains(is_media) ELSE ws_domains(is_media))

(* 1 when a forced retry heads the queue.                                  *)
Lead == IF queue # <<>> /\ queue[1].forced THEN 1 ELSE 0

(* Behind it the queue is what is left of the list after n records, which  *)
(* are the ones tried.                                                     *)
ListAt(n) ==
  /\ Len(queue) = Lead + Len(Full) - n
  /\ \A i \in (Lead + 1)..Len(queue) : queue[i] = Full[n + i - Lead]
  /\ tried = {Full[m].domain : m \in 1..n}

ListOK == \E n \in 0..Len(Full) : ListAt(n)

Busy == result \in {"dialling", "upgrading"}

(* r is what a lookup that just failed makes the walk try next.            *)
Retries(r) ==
  /\ walk = "cf"
  /\ log # <<>> /\ log[Len(log)][2] = "dns"
  /\ HasBase(log[Len(log)][1])
  /\ r = base_cf_record(log[Len(log)][1])
  /\ proxy = "none" \/ should_bypass(log[Len(log)][1])

(* The record's own turn: what was dialled of it before was a retry.       *)
OwnTurn(r) ==
  /\ r \in tried /\ ~r.outside
  /\ \A i \in 1..Len(log) : log[i][1] = r => ForcedRetry(i) /\ is_media

TurnOK ==
  /\ Lead = 1 => /\ result = "next" /\ Retries(queue[1].domain)
                 /\ queue[1].domain \notin timed_out
  /\ Busy => \/ Retries(current) /\ current \notin timed_out
             \/ OwnTurn(current)

-----------------------------------------------------------------------------
(* Records and lists of records. *)

(* A record is a zone's base record, its -1 record, or what the cut of a   *)
(* zone's own "-1." leads to.                                              *)
LEMMA RecordFacts ==
  ASSUME NEW r \in Records
  PROVE  /\ r.dash_one \in BOOLEAN /\ r.outside \in BOOLEAN
         /\ r.dash_one => r = DashOne(r.zone) /\ ~r.outside
         /\ ~r.dash_one /\ ~r.outside => r = Base(r.zone)
         /\ r.outside => r = Outside(r.zone) /\ r.zone \in Dashed
         /\ r.zone \in ZoneSet \union {""}
<1>1. PICK z \in ZoneSet \union {""} :
        \/ r = Base(z) \/ r = DashOne(z) \/ (r = Outside(z) /\ z \in Dashed)
  BY ZonesAssumption DEF Records, CfRecords, ZoneSet
<1>2. CASE r = Base(z)
  BY <1>2 DEF Base, DashOne, Outside
<1>3. CASE r = DashOne(z)
  BY <1>3 DEF Base, DashOne, Outside
<1>4. CASE r = Outside(z) /\ z \in Dashed
  BY <1>4 DEF Base, DashOne, Outside
<1>5. QED
  BY <1>1, <1>2, <1>3, <1>4

(* base_cf_record stays with the zone and loses one "-1.".                 *)
LEMMA BaseFacts ==
  ASSUME NEW r \in Records, HasBase(r)
  PROVE  /\ base_cf_record(r) \in Records
         /\ base_cf_record(r).zone = r.zone
         /\ ~base_cf_record(r).dash_one
         /\ ~base_cf_record(r).outside =>
              r = DashOne(r.zone) /\ base_cf_record(r) = Base(r.zone)
         /\ base_cf_record(r).outside => r = Base(r.zone) /\ r.zone \in Dashed
<1>1. CASE r.dash_one
  <2>1. r = DashOne(r.zone) /\ r.zone \in ZoneSet \union {""}
    BY <1>1, RecordFacts
  <2>2. Base(r.zone) \in Records
    BY <2>1 DEF Records, CfRecords
  <2>3. QED
    BY <1>1, <2>1, <2>2 DEF base_cf_record, Base
<1>2. CASE ~r.dash_one
  <2>1. r.zone \in Dashed /\ ~r.outside
    BY <1>2 DEF HasBase
  <2>2. Outside(r.zone) \in Records
    BY <2>1 DEF Records, CfRecords
  <2>3. r = Base(r.zone)
    BY <1>2, <2>1, RecordFacts
  <2>4. QED
    BY <1>2, <2>1, <2>2, <2>3 DEF base_cf_record, Outside
<1>3. QED
  BY <1>1, <1>2

(* The records of the list, in their order.                                *)
ListFacts(full, cf, media) ==
  /\ full \in Seq(Attempt) /\ Len(full) \in Nat /\ Len(full) >= 1
  /\ \A m \in 1..Len(full) :
       /\ ~full[m].forced /\ full[m].domain \in Records /\ ~full[m].domain.outside
       /\ full[m].domain.dash_one /\ ~media =>
            m > 1 /\ full[m - 1].domain = Base(full[m].domain.zone)
  /\ cf =>
       /\ Len(full) = 2 * Len(Zones)
       /\ \A m \in 1..Len(full) :
            /\ (m + 1) \div 2 \in 1..Len(Zones)
            /\ full[m].domain.zone = Zones[(m + 1) \div 2]
       /\ \A m \in 1..Len(full), q \in 1..Len(Zones) :
            Zones[q] = full[m].domain.zone =>
              /\ 2 * q - (m % 2) \in 1..Len(full)
              /\ full[2 * q - (m % 2)].domain = full[m].domain
       /\ \A z \in ZoneSet :
            /\ \E m \in 1..Len(full) : full[m].domain = Base(z)
            /\ \E m \in 1..Len(full) : full[m].domain = DashOne(z)

(* cf_ws_domains: two records for each zone, zone after zone.              *)
LEMMA CfListFacts ==
  ASSUME NEW media \in BOOLEAN
  PROVE  ListFacts(Unforced(cf_ws_domains(media)), TRUE, media)
<1> DEFINE n == Len(Zones)
           list == cf_ws_domains(media)
           full == Unforced(list)
           zone(m) == Zones[(m + 1) \div 2]
           first(z) == IF media THEN DashOne(z) ELSE Base(z)
           second(z) == IF media THEN Base(z) ELSE DashOne(z)
<1>1. n \in Nat /\ n >= 1 /\ \A q \in 1..n : Zones[q] \in ZoneSet
  <2>1. Zones \in Seq(STRING) /\ Zones # <<>>
    BY ZonesAssumption
  <2>2. n \in Nat /\ n # 0
    BY <2>1
  <2>3. QED
    BY <2>2 DEF ZoneSet
<1>2. ASSUME NEW m \in 1..(2 * n)
      PROVE  /\ (m + 1) \div 2 \in 1..n
             /\ \/ m % 2 = 1 /\ m = 2 * ((m + 1) \div 2) - 1
                \/ m % 2 = 0 /\ m = 2 * ((m + 1) \div 2)
  BY <1>1
<1>3. ASSUME NEW m \in 1..(2 * n)
      PROVE  list[m] = IF m % 2 = 1 THEN first(zone(m)) ELSE second(zone(m))
  <2>1. list[m] = ordered_records(zone(m), media)[2 - (m % 2)]
    BY DEF cf_ws_domains
  <2>2. m % 2 = 1 \/ m % 2 = 0
    BY <1>2
  <2>3. 2 - 1 = 1 /\ 2 - 0 = 2
    OBVIOUS
  <2>4. QED
    BY <2>1, <2>2, <2>3 DEF ordered_records
<1>4. Len(list) = 2 * n /\ 2 * n \in Nat
  BY <1>1 DEF cf_ws_domains
<1> HIDE DEF list
<1>5. /\ Len(full) = 2 * n
      /\ \A m \in 1..(2 * n) : full[m] = [domain |-> list[m], forced |-> FALSE]
  BY <1>4 DEF Unforced
<1>6. ASSUME NEW z \in ZoneSet
      PROVE  /\ Base(z) \in Records /\ DashOne(z) \in Records
             /\ ~Base(z).outside /\ ~DashOne(z).outside
             /\ Base(z).zone = z /\ DashOne(z).zone = z
             /\ DashOne(z).dash_one /\ ~Base(z).dash_one
  BY <1>6 DEF Records, CfRecords, Base, DashOne
<1> DEFINE d(m) == full[m].domain
<1>7. ASSUME NEW m \in 1..(2 * n)
      PROVE  /\ zone(m) \in ZoneSet
             /\ d(m) = IF m % 2 = 1 THEN first(zone(m)) ELSE second(zone(m))
             /\ ~full[m].forced
             /\ d(m) \in Records /\ d(m).zone = zone(m) /\ ~d(m).outside
             /\ full[m] \in Attempt
  <2>1. zone(m) \in ZoneSet
    BY <1>1, <1>2
  <2> DEFINE r == list[m]
  <2>2. full[m] = [domain |-> r, forced |-> FALSE]
    BY <1>5
  <2>3. r = IF m % 2 = 1 THEN first(zone(m)) ELSE second(zone(m))
    BY <1>3
  <2>4. r \in Records /\ r.zone = zone(m) /\ ~r.outside
    <3> HIDE DEF zone
    <3>1. QED
      BY <1>6, <2>1, <2>3
  <2> HIDE DEF r, zone, first, second, full
  <2>5. QED
    BY <2>1, <2>2, <2>3, <2>4 DEF Attempt
<1>8. full \in Seq(Attempt)
  <2>1. full = [m \in 1..Len(list) |-> [domain |-> list[m], forced |-> FALSE]]
    BY DEF Unforced
  <2>2. \A m \in 1..Len(list) : [domain |-> list[m], forced |-> FALSE] \in Attempt
    BY <1>4, <1>5, <1>7
  <2>3. QED
    BY <1>4, <2>1, <2>2
<1> HIDE DEF full
<1>9. ASSUME NEW m \in 1..(2 * n), d(m).dash_one, ~media
      PROVE  m > 1 /\ d(m - 1) = Base(d(m).zone)
  <2>1. m % 2 = 0
    BY <1>6, <1>7, <1>9, <1>2
  <2>2. m - 1 \in 1..(2 * n) /\ (m - 1) % 2 = 1 /\ (m - 1 + 1) \div 2 = (m + 1) \div 2
    BY <1>1, <1>2, <2>1
  <2>3. zone(m - 1) = zone(m)
    BY <2>2
  <2> HIDE DEF zone
  <2>4. d(m - 1) = Base(zone(m))
    BY <1>7, <1>9, <2>2, <2>3
  <2>5. m > 1 /\ d(m).zone = zone(m)
    <3>1. m > 1
      BY <1>1, <2>2
    <3>2. d(m).zone = zone(m)
      BY <1>7
    <3>3. QED
      BY <3>1, <3>2
  <2>6. QED
    BY <2>4, <2>5
<1>10. ASSUME NEW m \in 1..(2 * n), NEW q \in 1..n, Zones[q] = d(m).zone
       PROVE  /\ 2 * q - (m % 2) \in 1..(2 * n)
              /\ d(2 * q - (m % 2)) = d(m)
  <2> DEFINE l == 2 * q - (m % 2)
  <2>1. l \in 1..(2 * n) /\ l % 2 = m % 2 /\ (l + 1) \div 2 = q
    BY <1>1, <1>2
  <2>2. zone(l) = zone(m)
    BY <1>7, <1>10, <2>1
  <2> HIDE DEF zone, l
  <2>3. d(l) = d(m)
    BY <1>7, <2>1, <2>2
  <2>4. QED
    BY <2>1, <2>3 DEF l
<1>11. ASSUME NEW z \in ZoneSet
       PROVE  /\ \E m \in 1..(2 * n) : d(m) = Base(z)
              /\ \E m \in 1..(2 * n) : d(m) = DashOne(z)
  <2>1. PICK q \in 1..n : Zones[q] = z
    BY DEF ZoneSet
  <2>2. /\ 2 * q - 1 \in 1..(2 * n) /\ (2 * q - 1) % 2 = 1 /\ (2 * q - 1 + 1) \div 2 = q
        /\ 2 * q \in 1..(2 * n) /\ (2 * q) % 2 = 0 /\ (2 * q + 1) \div 2 = q
    BY <1>1
  <2>3. zone(2 * q - 1) = z /\ zone(2 * q) = z
    BY <2>1, <2>2
  <2> HIDE DEF zone
  <2>4. d(2 * q - 1) = first(z) /\ d(2 * q) = second(z)
    BY <1>7, <2>2, <2>3
  <2>5. QED
    BY <2>2, <2>4
<1>12. /\ Len(full) \in Nat /\ Len(full) >= 1
       /\ \A m \in 1..Len(full) : m \in 1..(2 * n)
  BY <1>1, <1>5
<1>13. \A m \in 1..Len(full) :
        /\ ~full[m].forced /\ d(m) \in Records /\ ~d(m).outside
        /\ d(m).dash_one /\ ~media => m > 1 /\ d(m - 1) = Base(d(m).zone)
  BY <1>7, <1>9, <1>12
<1>14. /\ Len(full) = 2 * Len(Zones)
       /\ \A m \in 1..Len(full) :
            (m + 1) \div 2 \in 1..Len(Zones) /\ d(m).zone = Zones[(m + 1) \div 2]
       /\ \A m \in 1..Len(full), q \in 1..Len(Zones) :
            Zones[q] = d(m).zone =>
              2 * q - (m % 2) \in 1..Len(full) /\ d(2 * q - (m % 2)) = d(m)
       /\ \A z \in ZoneSet :
            /\ \E m \in 1..Len(full) : d(m) = Base(z)
            /\ \E m \in 1..Len(full) : d(m) = DashOne(z)
  <2>1. ASSUME NEW m \in 1..Len(full)
        PROVE  (m + 1) \div 2 \in 1..Len(Zones) /\ d(m).zone = Zones[(m + 1) \div 2]
    BY <1>2, <1>7, <1>12
  <2>2. ASSUME NEW m \in 1..Len(full), NEW q \in 1..Len(Zones), Zones[q] = d(m).zone
        PROVE  2 * q - (m % 2) \in 1..Len(full) /\ d(2 * q - (m % 2)) = d(m)
    BY <1>5, <1>10, <1>12, <2>2
  <2>3. ASSUME NEW z \in ZoneSet
        PROVE  /\ \E m \in 1..Len(full) : d(m) = Base(z)
               /\ \E m \in 1..Len(full) : d(m) = DashOne(z)
    BY <1>5, <1>11
  <2>4. QED
    BY <1>5, <2>1, <2>2, <2>3
<1>15. ListFacts(full, TRUE, media)
  BY <1>8, <1>12, <1>13, <1>14 DEF ListFacts
<1>16. QED
  BY <1>15 DEF full, list

(* ws_domains: two records.                                                *)
LEMMA DirectListFacts ==
  ASSUME NEW media \in BOOLEAN
  PROVE  ListFacts(Unforced(ws_domains(media)), FALSE, media)
<1> DEFINE list == ws_domains(media)
           full == Unforced(list)
<1>1. /\ Base("") \in Records /\ DashOne("") \in Records
      /\ ~Base("").outside /\ ~DashOne("").outside /\ DashOne("").zone = ""
      /\ ~Base("").dash_one
  BY DEF Records, Base, DashOne
<1>2. /\ list[1] = IF media THEN DashOne("") ELSE Base("")
      /\ list[2] = IF media THEN Base("") ELSE DashOne("")
      /\ Len(list) = 2
  BY DEF ws_domains, ordered_records
<1> HIDE DEF list
<1>3. full = [i \in 1..2 |-> [domain |-> list[i], forced |-> FALSE]]
  BY <1>2 DEF Unforced
<1>4. \A i \in 1..2 : i = 1 \/ i = 2
  OBVIOUS
<1>5. \A i \in 1..2 : list[i] \in Records /\ ~list[i].outside
  BY <1>1, <1>2, <1>4
<1>6. \A i \in 1..2 : full[i].domain = list[i] /\ ~full[i].forced
  BY <1>3
<1>7. \A i \in 1..2 : [domain |-> list[i], forced |-> FALSE] \in Attempt
  BY <1>5 DEF Attempt
<1>8. full \in Seq(Attempt) /\ Len(full) = 2
  BY <1>3, <1>7
<1> HIDE DEF full
<1>9. ASSUME NEW m \in 1..2, full[m].domain.dash_one, ~media
      PROVE  m > 1 /\ full[m - 1].domain = Base(full[m].domain.zone)
  <2>1. m = 2
    BY <1>1, <1>2, <1>4, <1>6, <1>9
  <2>2. m > 1 /\ m - 1 = 1 /\ 1 \in 1..2
    BY <2>1
  <2>3. full[m].domain = DashOne("") /\ full[1].domain = Base("")
    BY <1>2, <1>6, <1>9, <2>1, <2>2
  <2>4. QED
    BY <1>1, <2>2, <2>3
<1>10. \A m \in 1..2 :
         /\ ~full[m].forced /\ full[m].domain \in Records /\ ~full[m].domain.outside
         /\ full[m].domain.dash_one /\ ~media =>
              m > 1 /\ full[m - 1].domain = Base(full[m].domain.zone)
  BY <1>5, <1>6, <1>9
<1>11. ListFacts(full, FALSE, media)
  BY <1>8, <1>10 DEF ListFacts
<1>12. QED
  BY <1>11 DEF full, list

(* What is used of the list below.                                         *)
LEMMA FullFacts ==
  ASSUME walk \in {"cf", "direct"}, is_media \in BOOLEAN
  PROVE  ListFacts(Full, walk = "cf", is_media)
<1>1. CASE walk = "cf"
  <2>1. Full = Unforced(cf_ws_domains(is_media)) /\ (walk = "cf") = TRUE
    BY <1>1 DEF Full
  <2>2. QED
    BY <2>1, CfListFacts
<1>2. CASE walk # "cf"
  <2>1. Full = Unforced(ws_domains(is_media)) /\ (walk = "cf") = FALSE
    BY <1>2 DEF Full
  <2>2. QED
    BY <2>1, DirectListFacts
<1>3. QED
  BY <1>1, <1>2

-----------------------------------------------------------------------------
(* The steps of a walk. *)

(* What is left of the list is a list position.                            *)
LEMMA RestFacts ==
  ASSUME TypeOK, UNCHANGED <<walk, is_media>>,
         NEW m \in 0..Len(Full), queue' \in Seq(Attempt),
         Len(queue') = Len(Full) - m,
         \A j \in 1..Len(queue') : queue'[j] = Full[m + j],
         tried' = {Full[l].domain : l \in 1..m}
  PROVE  ListOK' /\ Lead' = 0
<1>1. ListFacts(Full, walk = "cf", is_media) /\ Full' = Full
  BY FullFacts DEF TypeOK, Full
<1>2. Len(Full) \in Nat /\ \A l \in 1..Len(Full) : ~Full[l].forced
  BY <1>1 DEF ListFacts
<1>3. Lead' = 0
  <2>1. CASE queue' = <<>>
    BY <2>1 DEF Lead
  <2>2. CASE Len(queue') >= 1
    <3>1. m + 1 \in 1..Len(Full) /\ 1 \in 1..Len(queue')
      BY <1>2, <2>2
    <3>2. ~queue'[1].forced
      BY <1>2, <3>1
    <3>3. QED
      BY <3>2 DEF Lead
  <2>3. QED
    BY <2>1, <2>2
<1>4. ListAt(m)'
  BY <1>1, <1>2, <1>3 DEF ListAt
<1>5. QED
  BY <1>1, <1>3, <1>4 DEF ListOK

(* The record's turn came, the m-th of the list, and it was not tried.      *)
Picked(n, m) ==
  /\ tried = {Full[l].domain : l \in 1..n}
  /\ current' = Full[m].domain /\ current' \notin tried
  /\ \A l \in 1..(m - 1) : Full[l].domain \in tried
  /\ tried' = tried \union {current'}

(* next_domain takes the forced retry or the next untried record.          *)
LEMMA NextFacts ==
  ASSUME TypeOK, ListOK, NextDomain
  PROVE  /\ TypeOK' /\ ListOK' /\ Lead' = 0
         /\ \/ Lead = 1 /\ current' = queue[1].domain /\ tried' = tried
            \/ /\ Lead = 0
               /\ \E n \in 0..Len(Full) : \E m \in (n + 1)..Len(Full) : Picked(n, m)
<1>1. /\ ListFacts(Full, walk = "cf", is_media) /\ queue \in Seq(Attempt)
      /\ Len(Full) \in Nat /\ Len(queue) \in Nat
      /\ \A l \in 1..Len(Full) : ~Full[l].forced
      /\ UNCHANGED <<walk, is_media>>
  BY FullFacts DEF TypeOK, ListFacts, NextDomain, Attempt
<1>2. PICK n \in 0..Len(Full) : ListAt(n)
  BY DEF ListOK
<1>3. PICK i \in 1..Len(queue) :
        /\ ~Skipped(queue[i])
        /\ \A j \in 1..(i - 1) : Skipped(queue[j])
        /\ queue' = SubSeq(queue, i + 1, Len(queue))
        /\ current' = queue[i].domain
        /\ tried' = IF queue[i].forced THEN tried ELSE tried \union {queue[i].domain}
  BY DEF NextDomain
<1>4. /\ queue' \in Seq(Attempt) /\ Len(queue') = Len(queue) - i
      /\ \A j \in 1..Len(queue') : queue'[j] = queue[i + j]
  BY <1>1, <1>3, SubSeqProperties
<1>5. queue[i] \in Attempt /\ queue[i].domain \in Records
  <2>1. queue[i] \in Attempt
    BY <1>1
  <2>2. QED
    BY <2>1 DEF Attempt
<1>6. TypeOK'
  BY <1>3, <1>4, <1>5 DEF NextDomain, TypeOK, Attempt
<1>7. CASE Lead = 1
  <2>1. queue # <<>> /\ queue[1].forced
    BY <1>7 DEF Lead
  <2>2. i = 1
    <3>1. ~Skipped(queue[1])
      BY <2>1 DEF Skipped
    <3>2. CASE i > 1
      <4>1. 1 \in 1..(i - 1)
        BY <3>2
      <4>2. QED
        BY <1>3, <3>1, <4>1
    <3>3. QED
      BY <3>2
  <2>3. current' = queue[1].domain /\ tried' = tried
    BY <1>3, <2>1, <2>2
  <2>4. Len(queue') = Len(Full) - n /\ \A j \in 1..Len(queue') : queue'[j] = Full[n + j]
    <3>1. Len(queue) = 1 + Len(Full) - n
      BY <1>2, <1>7 DEF ListAt
    <3>2. ASSUME NEW j \in 1..Len(queue') PROVE queue'[j] = Full[n + j]
      <4>1. 1 + j \in (1 + 1)..Len(queue) /\ n + (1 + j) - 1 = n + j
        BY <1>1, <1>4, <2>2
      <4>2. queue[1 + j] = Full[n + (1 + j) - 1]
        BY <1>2, <1>7, <4>1 DEF ListAt
      <4>3. QED
        BY <1>4, <2>2, <4>1, <4>2
    <3>3. Len(queue') = Len(queue) - 1
      BY <1>4, <2>2
    <3>4. Len(queue') = Len(Full) - n
      <4>1. n \in Nat /\ Len(Full) \in Nat
        BY <1>1
      <4>2. \A a, b, d : b = 1 + a - n /\ d = b - 1 /\ a \in Nat => d = a - n
        BY ONLY <4>1
      <4>3. QED
        BY ONLY <3>1, <3>3, <4>1, <4>2
    <3>5. QED
      BY ONLY <3>2, <3>4
  <2>5. tried' = {Full[l].domain : l \in 1..n}
    BY <1>2, <2>3 DEF ListAt
  <2>6. ListOK' /\ Lead' = 0
    BY <1>1, <1>4, <2>4, <2>5, RestFacts
  <2>7. QED
    BY <1>6, <1>7, <2>3, <2>6
<1>8. CASE Lead = 0
  <2> DEFINE m == n + i
  <2>1. /\ Len(queue) = Len(Full) - n
        /\ \A j \in 1..Len(queue) : queue[j] = Full[n + j]
        /\ tried = {Full[l].domain : l \in 1..n}
    <3>1. Len(queue) = 0 + Len(Full) - n
      BY <1>2, <1>8 DEF ListAt
    <3>2. ASSUME NEW j \in 1..Len(queue) PROVE queue[j] = Full[n + j]
      <4>1. j \in (0 + 1)..Len(queue) /\ n + j - 0 = n + j
        OBVIOUS
      <4>2. queue[j] = Full[n + j - 0]
        BY <1>2, <1>8, <4>1 DEF ListAt
      <4>3. QED
        BY <4>1, <4>2
    <3>3. Len(queue) = Len(Full) - n
      BY <1>1, <3>1
    <3>4. QED
      BY <1>2, <3>2, <3>3 DEF ListAt
  <2>2. m \in (n + 1)..Len(Full) /\ m \in 1..Len(Full)
    BY <1>1, <2>1
  <2>3. queue[i] = Full[m] /\ ~queue[i].forced
    BY <1>1, <2>1, <2>2
  <2>4. current' = Full[m].domain /\ current' \notin tried
        /\ tried' = tried \union {current'}
    BY <1>3, <2>3 DEF Skipped
  <2>5. ASSUME NEW l \in 1..(m - 1) PROVE Full[l].domain \in tried
    <3>1. CASE l \in 1..n
      BY <2>1, <3>1
    <3>2. CASE l - n \in 1..(i - 1)
      <4>1. l - n \in 1..Len(queue) /\ n + (l - n) = l
        BY <1>1, <3>2
      <4>2. Skipped(queue[l - n]) /\ queue[l - n] = Full[l]
        BY <1>3, <2>1, <3>2, <4>1
      <4>3. QED
        BY <4>2 DEF Skipped
    <3>3. QED
      BY <3>1, <3>2
  <2>6. Len(queue') = Len(Full) - m /\ \A j \in 1..Len(queue') : queue'[j] = Full[m + j]
    <3>1. ASSUME NEW j \in 1..Len(queue') PROVE queue'[j] = Full[m + j]
      <4>1. i + j \in 1..Len(queue) /\ n + (i + j) = m + j
        BY <1>1, <1>4
      <4>2. QED
        BY <1>4, <2>1, <4>1
    <3>2. QED
      BY <1>1, <1>4, <2>1, <3>1
  <2>7. tried' = {Full[l].domain : l \in 1..m}
    <3>1. \A l \in 1..n : l \in 1..m
      OBVIOUS
    <3>2. \A l \in 1..m : l = m \/ l \in 1..(m - 1)
      OBVIOUS
    <3>3. m \in 1..m
      OBVIOUS
    <3> HIDE DEF m
    <3>4. QED
      BY <2>1, <2>4, <2>5, <3>1, <3>2, <3>3
  <2>8. m \in 0..Len(Full)
    BY <2>2
  <2> HIDE DEF m
  <2>9. ListOK' /\ Lead' = 0
    BY <1>1, <1>4, <2>6, <2>7, <2>8, RestFacts
  <2>10. Picked(n, m)
    BY <2>1, <2>4, <2>5 DEF Picked
  <2>11. QED
    BY <1>6, <1>8, <2>2, <2>9, <2>10
<1>9. QED
  BY <1>7, <1>8 DEF Lead

(* A dial that ended with outcome o.                                       *)
Queued ==
  queue' = <<[domain |-> base_cf_record(current), forced |-> TRUE]>> \o queue

Ends(o) ==
  /\ Busy /\ result' = IF o = "connected" THEN "connected" ELSE "next"
  /\ log' = Append(log, <<current, o>>)
  /\ UNCHANGED <<walk, is_media, proxy, tried, current>>
  /\ timed_out' = IF walk = "cf" /\ o \in {"connect", "upgrade"}
                  THEN timed_out \union {current} ELSE timed_out
  /\ o = "dns" => walk = "cf" /\ Unproxied
  /\ IF o = "dns" /\ HasBase(current) /\ base_cf_record(current) \notin timed_out
     THEN Queued /\ flags' = flags
     ELSE queue' = queue /\ IF o = "redirect" THEN flags' = flags
                            ELSE ~flags'.all_redirects
  /\ walk = "direct" /\ o # "connected" =>
       /\ flags'.connect <=> flags.connect \/ o = "connect"
       /\ flags'.upgrade <=> flags.upgrade \/ o = "upgrade"

(* How a dial may end, by action.                                          *)
Ending ==
  \/ Connected \/ Redirect \/ Failed \/ Missing
  \/ \E phase \in {"connect", "upgrade"} : TimedOut(phase)

(* Each of those actions ends the dial with one outcome.                   *)
LEMMA EndFacts ==
  ASSUME TypeOK, Ending
  PROVE  \E o \in Outcomes : Ends(o)
<1> USE DEF Dialled, Busy, Outcomes
<1>0. flags.connect \in BOOLEAN /\ flags.upgrade \in BOOLEAN
  BY DEF TypeOK
<1>1. CASE Connected
  <2>1. Ends("connected")
    BY <1>1 DEF Connected, Ends, NoFlags
  <2>2. QED
    BY <2>1
<1>2. CASE Redirect
  <2>1. Ends("redirect")
    BY <1>0, <1>2 DEF Redirect, Ends
  <2>2. QED
    BY <2>1
<1>3. CASE Failed
  <2>1. Ends("failed")
    BY <1>0, <1>3 DEF Failed, Ends, TypeOK
  <2>2. QED
    BY <2>1
<1>4. CASE Missing
  <2>1. Ends("dns")
    BY <1>0, <1>4 DEF Missing, Ends, TypeOK, Queued
  <2>2. QED
    BY <2>1
<1>5. CASE TimedOut("connect")
  <2>1. Ends("connect")
    BY <1>0, <1>5 DEF TimedOut, Ends, TypeOK
  <2>2. QED
    BY <2>1
<1>6. CASE TimedOut("upgrade")
  <2>1. Ends("upgrade")
    BY <1>0, <1>6 DEF TimedOut, Ends, TypeOK
  <2>2. QED
    BY <2>1
<1>7. QED
  BY <1>1, <1>2, <1>3, <1>4, <1>5, <1>6 DEF Ending

(* The log after a dial, entry by entry.                                   *)
LEMMA GrownLog ==
  ASSUME TypeOK, NEW o \in Outcomes, Ends(o)
  PROVE  /\ Len(log) \in Nat /\ Len(log') = Len(log) + 1
         /\ log'[Len(log) + 1] = <<current, o>>
         /\ \A i \in 1..Len(log) : log'[i] = log[i]
         /\ \A i \in 1..Len(log') : i \in 1..Len(log) \/ i = Len(log) + 1
         /\ \A i \in 1..Len(log) : ForcedRetry(i)' <=> ForcedRetry(i)
         /\ \A n \in {Len(log) + 1} : ForcedRetry(n)' <=>
              /\ log # <<>> /\ log[Len(log)][2] = "dns"
              /\ HasBase(log[Len(log)][1])
              /\ current = base_cf_record(log[Len(log)][1])
<1> DEFINE S == Records \X Outcomes
<1>1. log \in Seq(S) /\ <<current, o>> \in S /\ log' = Append(log, <<current, o>>)
  BY DEF TypeOK, Ends
<1> HIDE DEF S
<1>2. /\ Len(log) \in Nat /\ Len(log') = Len(log) + 1
      /\ log'[Len(log) + 1] = <<current, o>>
      /\ \A i \in 1..Len(log) : log'[i] = log[i]
  BY <1>1
<1>3. \A i \in 1..Len(log') : i \in 1..Len(log) \/ i = Len(log) + 1
  BY <1>2
<1>4. ASSUME NEW i \in 1..Len(log) PROVE ForcedRetry(i)' <=> ForcedRetry(i)
  <2>1. i > 1 => i - 1 \in 1..Len(log)
    BY <1>2
  <2>2. log'[i] = log[i] /\ (i > 1 => log'[i - 1] = log[i - 1])
    BY <1>2, <2>1
  <2>3. QED
    BY <2>2 DEF ForcedRetry
<1>5. ASSUME NEW n, n = Len(log) + 1
      PROVE  ForcedRetry(n)' <=>
               /\ log # <<>> /\ log[Len(log)][2] = "dns"
               /\ HasBase(log[Len(log)][1])
               /\ current = base_cf_record(log[Len(log)][1])
  <2>1. log # <<>> <=> n > 1
    BY <1>1, <1>2, <1>5
  <2>2. n - 1 = Len(log) /\ (log # <<>> => log'[Len(log)] = log[Len(log)])
    BY <1>1, <1>2, <1>5
  <2>3. log'[n][1] = current
    BY <1>2, <1>5
  <2>4. QED
    BY <2>1, <2>2, <2>3 DEF ForcedRetry
<1>6. QED
  BY <1>2, <1>3, <1>4, <1>5

(* An entry of the log.                                                    *)
LEMMA LogFacts ==
  ASSUME TypeOK
  PROVE  /\ Len(log) \in Nat
         /\ \A i \in 1..Len(log) : log[i][1] \in Records /\ log[i][2] \in Outcomes
         /\ log # <<>> => Len(log) \in 1..Len(log)
         /\ \A i \in 1..Len(log) : log # <<>>
<1> DEFINE S == Records \X Outcomes
<1>1. log \in Seq(S)
  BY DEF TypeOK
<1>2. \A e \in S : e[1] \in Records /\ e[2] \in Outcomes
  OBVIOUS
<1> HIDE DEF S
<1>3. Len(log) \in Nat /\ (log # <<>> => Len(log) \in 1..Len(log))
      /\ \A i \in 1..Len(log) : log[i] \in S /\ log # <<>>
  BY <1>1
<1>4. QED
  BY <1>2, <1>3

(* A retry is of a base record, after its -1 record, or of a name outside, *)
(* after the base record.                                                  *)
LEMMA RetryFacts ==
  ASSUME TypeOK, NEW i \in 1..Len(log), ForcedRetry(i)
  PROVE  /\ i - 1 \in 1..Len(log) /\ ~log[i][1].dash_one
         /\ log[i - 1][1].zone = log[i][1].zone
         /\ ~log[i][1].outside =>
              /\ log[i - 1] = <<DashOne(log[i][1].zone), "dns">>
              /\ log[i][1] = Base(log[i][1].zone)
<1>1. i > 1 /\ log[i - 1][2] = "dns" /\ HasBase(log[i - 1][1])
      /\ log[i][1] = base_cf_record(log[i - 1][1])
  BY DEF ForcedRetry
<1>2. i - 1 \in 1..Len(log)
  BY <1>1, LogFacts
<1>3. log[i - 1][1] \in Records
  BY <1>2, LogFacts
<1>4. log[i - 1] = <<log[i - 1][1], log[i - 1][2]>>
  <2>1. log[i - 1] \in Records \X Outcomes
    BY <1>2 DEF TypeOK
  <2>2. QED
    BY <2>1
<1>5. QED
  BY <1>1, <1>2, <1>3, <1>4, BaseFacts

(* The end of a dial keeps the types and the list.                         *)
LEMMA EndType ==
  ASSUME TypeOK, ListOK, TurnOK, Ending, NEW o \in Outcomes, Ends(o)
  PROVE  /\ TypeOK' /\ ListOK' /\ Lead = 0
         /\ IF o = "dns" /\ HasBase(current)
                 /\ base_cf_record(current) \notin timed_out
            THEN Lead' = 1 /\ queue'[1].domain = base_cf_record(current)
            ELSE Lead' = 0
<1>1. current \in Records /\ queue \in Seq(Attempt) /\ Len(queue) \in Nat
      /\ UNCHANGED <<walk, is_media, tried>>
  BY DEF TypeOK, Attempt, Ends
<1>2. Lead = 0
  BY DEF TurnOK, Lead, Ends, Busy
<1>3. PICK n \in 0..Len(Full) : ListAt(n)
  BY DEF ListOK
<1>4. Full' = Full /\ Len(Full) \in Nat
  BY <1>1, FullFacts DEF Full, TypeOK, ListFacts
<1>5. ASSUME queue' = queue PROVE ListOK' /\ Lead' = 0 /\ queue' \in Seq(Attempt)
  <2>1. Lead' = 0
    BY <1>2, <1>5 DEF Lead
  <2>2. ListAt(n)'
    BY <1>1, <1>2, <1>3, <1>4, <1>5, <2>1 DEF ListAt
  <2>3. QED
    BY <1>1, <1>4, <1>5, <2>1, <2>2 DEF ListOK
<1>6. ASSUME o = "dns", HasBase(current), base_cf_record(current) \notin timed_out
      PROVE  /\ ListOK' /\ Lead' = 1 /\ queue' \in Seq(Attempt)
             /\ queue'[1].domain = base_cf_record(current)
  <2> DEFINE e == [domain |-> base_cf_record(current), forced |-> TRUE]
  <2>1. queue' = <<e>> \o queue
    BY <1>6 DEF Ends, Queued
  <2>2. e \in Attempt
    BY <1>1, <1>6, BaseFacts DEF Attempt
  <2>3. e.forced /\ e.domain = base_cf_record(current)
    OBVIOUS
  <2> HIDE DEF e
  <2>4. /\ <<e>> \o queue \in Seq(Attempt) /\ Len(<<e>> \o queue) = 1 + Len(queue)
        /\ (<<e>> \o queue)[1] = e
        /\ \A i \in 2..(1 + Len(queue)) : (<<e>> \o queue)[i] = queue[i - 1]
    <3>1. <<e>> \in Seq(Attempt) /\ Len(<<e>>) = 1 /\ <<e>>[1] = e
      BY <2>2
    <3>2. QED
      BY <1>1, <3>1
  <2>5. /\ queue' \in Seq(Attempt) /\ Len(queue') = 1 + Len(queue)
        /\ queue'[1] = e
        /\ \A i \in 2..Len(queue') : queue'[i] = queue[i - 1]
    BY <2>1, <2>4
  <2>6. queue' # <<>>
    BY <1>1, <2>5
  <2>7. Lead' = 1 /\ queue'[1].domain = base_cf_record(current)
    BY <2>3, <2>5, <2>6 DEF Lead
  <2>8. ListAt(n)'
    <3>1. Len(queue') = 1 + Len(Full) - n
      BY <1>1, <1>2, <1>3, <1>4, <2>5 DEF ListAt
    <3>2. ASSUME NEW i \in 2..Len(queue') PROVE queue'[i] = Full[n + i - 1]
      <4>1. i - 1 \in (0 + 1)..Len(queue) /\ n + (i - 1) - 0 = n + i - 1
        BY <1>1, <2>5
      <4>2. queue[i - 1] = Full[n + (i - 1) - 0]
        BY <1>2, <1>3, <4>1 DEF ListAt
      <4>3. QED
        BY <2>5, <4>1, <4>2
    <3>3. tried' = {Full[l].domain : l \in 1..n}
      BY <1>1, <1>3 DEF ListAt
    <3>4. 1 + 1 = 2
      OBVIOUS
    <3>5. QED
      BY <1>4, <2>7, <3>1, <3>2, <3>3, <3>4 DEF ListAt
  <2>9. QED
    BY <1>4, <2>5, <2>7, <2>8 DEF ListOK
<1>7. /\ ListOK' /\ queue' \in Seq(Attempt)
      /\ IF o = "dns" /\ HasBase(current)
                 /\ base_cf_record(current) \notin timed_out
         THEN Lead' = 1 /\ queue'[1].domain = base_cf_record(current)
         ELSE Lead' = 0
  BY <1>5, <1>6 DEF Ends
<1>8. flags' \in [all_redirects : BOOLEAN, upgrade : BOOLEAN, connect : BOOLEAN]
  <2>1. ASSUME NEW phase \in {"connect", "upgrade"}, TimedOut(phase)
        PROVE  flags' \in [all_redirects : BOOLEAN, upgrade : BOOLEAN, connect : BOOLEAN]
    BY <2>1 DEF TimedOut, TypeOK
  <2>2. QED
    BY <2>1 DEF Ending, Connected, NoFlags, Redirect, Failed, Missing, TypeOK
<1>9. log' \in Seq(Records \X Outcomes)
  BY <1>1 DEF TypeOK, Ends
<1>10. timed_out' \subseteq Records /\ result' \in {"next", "connected"}
  BY <1>1 DEF TypeOK, Ends
<1>11. TypeOK'
  BY <1>7, <1>8, <1>9, <1>10 DEF TypeOK, Ends, Attempt
<1>12. QED
  BY <1>2, <1>7, <1>11

-----------------------------------------------------------------------------
(* The inductive invariant. *)

(* Every zone that was dialled has a record that had its turn.             *)
ZonesOpened ==
  /\ \A i \in 1..Len(log) : \E r \in tried : r.zone = log[i][1].zone
  /\ Busy => \E r \in tried : r.zone = current.zone

(* What was dialled had its turn or was a retry, a -1 record once.         *)
TurnsTaken ==
  /\ \A i \in 1..Len(log) : log[i][1] \in tried \/ ForcedRetry(i)
  /\ \A i, j \in 1..Len(log) :
       i < j /\ log[i][1].dash_one => log[i][1] # log[j][1]
  /\ \A r \in tried :
       (\E i \in 1..Len(log) : log[i][1] = r) \/ (Busy /\ current = r)

(* timed_out is what ran out the clock, on the walk that keeps it.         *)
TimesKept ==
  /\ walk = "cf" => \A i \in 1..Len(log) :
       log[i][2] \in {"connect", "upgrade"} => log[i][1] \in timed_out
  /\ \A r \in timed_out : RanOut(r)

IInv == TypeOK /\ ListOK /\ TurnOK /\ ZonesOpened /\ TurnsTaken /\ TimesKept

(* A retry keeps the zone of the failed lookup and is no -1 record.        *)
LEMMA RetriesFacts ==
  ASSUME TypeOK, NEW r, Retries(r)
  PROVE  /\ Len(log) \in 1..Len(log) /\ r.zone = log[Len(log)][1].zone
         /\ ~r.dash_one
         /\ r.outside => /\ log[Len(log)] = <<Base(r.zone), "dns">>
                         /\ r.zone \in Dashed
                         /\ proxy = "none" \/ r.zone \in NoProxy
         /\ ~r.outside => /\ log[Len(log)] = <<DashOne(r.zone), "dns">>
                          /\ r = Base(r.zone)
<1>1. Len(log) \in 1..Len(log)
  BY LogFacts DEF Retries
<1> DEFINE d == log[Len(log)][1]
<1>2. /\ d \in Records /\ HasBase(d) /\ r = base_cf_record(d)
      /\ proxy = "none" \/ should_bypass(d)
  BY <1>1, LogFacts DEF Retries
<1>3. log[Len(log)] = <<d, "dns">>
  <2>1. log[Len(log)] \in Records \X Outcomes
    BY <1>1 DEF TypeOK
  <2>2. QED
    BY <2>1 DEF Retries
<1>4. QED
  BY <1>1, <1>2, <1>3, BaseFacts DEF should_bypass

(* The invariant holds when a walk begins.                                 *)
LEMMA InitIInv == Init => IInv
<1> SUFFICES ASSUME Init PROVE IInv
  OBVIOUS
<1>1. walk \in {"cf", "direct"} /\ is_media \in BOOLEAN /\ queue = Full
  BY DEF Init, Full
<1>2. ListFacts(Full, walk = "cf", is_media)
  BY <1>1, FullFacts
<1>3. /\ Full \in Seq(Attempt) /\ Len(Full) \in Nat /\ Len(Full) >= 1
      /\ \A l \in 1..Len(Full) : ~Full[l].forced
  BY <1>2 DEF ListFacts
<1>4. TypeOK
  <2>1. NoRecord \in Records
    BY DEF NoRecord, Records
  <2>2. NoFlags \in [all_redirects : BOOLEAN, upgrade : BOOLEAN, connect : BOOLEAN]
    BY DEF NoFlags
  <2>3. QED
    BY <1>1, <1>3, <2>1, <2>2 DEF Init, TypeOK, Attempt
<1>5. Lead = 0
  BY <1>1, <1>3 DEF Lead
<1>6. ListAt(0)
  <2>1. \A i \in (0 + 1)..Len(queue) : queue[i] = Full[0 + i - 0]
    BY <1>1
  <2>2. tried = {Full[l].domain : l \in 1..0}
    BY DEF Init
  <2>3. QED
    BY <1>1, <1>3, <1>5, <2>1, <2>2 DEF ListAt
<1>7. ListOK
  BY <1>3, <1>6 DEF ListOK
<1>8. TurnOK /\ ZonesOpened /\ TurnsTaken /\ TimesKept
  BY <1>5 DEF Init, TurnOK, ZonesOpened, TurnsTaken, TimesKept, Busy
<1>9. QED
  BY <1>4, <1>7, <1>8 DEF IInv

(* A base record whose -1 record was dialled and that is yet to have its   *)
(* turn is one of a media DC.                                              *)
LEMMA MediaFacts ==
  ASSUME IInv, NEW n \in 0..Len(Full), tried = {Full[l].domain : l \in 1..n},
         NEW i \in 1..Len(log), ForcedRetry(i), ~log[i][1].outside,
         log[i][1] \notin tried
  PROVE  is_media
<1> USE DEF IInv
<1>1. /\ i - 1 \in 1..Len(log) /\ log[i - 1][1] = DashOne(log[i][1].zone)
      /\ log[i][1] = Base(log[i][1].zone)
  BY RetryFacts
<1>2. log[i - 1][1].dash_one /\ log[i - 1][1].zone = log[i][1].zone
  BY <1>1 DEF DashOne
<1>3. ~ForcedRetry(i - 1)
  BY <1>1, <1>2, RetryFacts
<1>4. log[i - 1][1] \in tried
  BY <1>1, <1>3 DEF TurnsTaken
<1>5. PICK l \in 1..n : Full[l].domain = log[i - 1][1]
  BY <1>4
<1>6. ListFacts(Full, walk = "cf", is_media) /\ is_media \in BOOLEAN
  BY FullFacts DEF TypeOK
<1>7. l \in 1..Len(Full) /\ Len(Full) \in Nat
  BY <1>6 DEF ListFacts
<1>8. ASSUME ~is_media PROVE FALSE
  <2>1. l > 1 /\ Full[l - 1].domain = Base(log[i][1].zone)
    BY <1>2, <1>5, <1>6, <1>7, <1>8 DEF ListFacts
  <2>2. l - 1 \in 1..n
    BY <2>1
  <2>3. QED
    BY <1>1, <2>1, <2>2
<1>9. QED
  BY <1>8

(* next_domain keeps the invariant.                                        *)
LEMMA NextStep ==
  ASSUME IInv, NextDomain
  PROVE  IInv'
<1> USE DEF IInv
<1>1. /\ TypeOK' /\ ListOK' /\ Lead' = 0
      /\ \/ Lead = 1 /\ current' = queue[1].domain /\ tried' = tried
         \/ /\ Lead = 0
            /\ \E n \in 0..Len(Full) : \E m \in (n + 1)..Len(Full) : Picked(n, m)
  BY NextFacts
<1>2. /\ UNCHANGED <<walk, is_media, proxy, timed_out, log>>
      /\ result = "next" /\ result' = "dialling" /\ ~Busy /\ Busy'
  BY DEF NextDomain, Busy
<1>3. \A i \in 1..Len(log) : ForcedRetry(i)' <=> ForcedRetry(i)
  BY <1>2 DEF ForcedRetry
<1>4. CASE Lead = 1 /\ current' = queue[1].domain /\ tried' = tried
  <2>1. Retries(current') /\ current' \notin timed_out
    BY <1>4 DEF TurnOK
  <2>2. Retries(current)'
    BY <1>2, <2>1 DEF Retries
  <2>3. TurnOK'
    BY <1>1, <1>2, <2>1, <2>2 DEF TurnOK
  <2>4. ZonesOpened'
    BY <1>2, <1>4, <2>1, RetriesFacts DEF ZonesOpened
  <2>5. TurnsTaken'
    BY <1>2, <1>3, <1>4 DEF TurnsTaken
  <2>6. QED
    BY <1>1, <1>2, <2>3, <2>4, <2>5 DEF TimesKept, RanOut
<1>5. ASSUME NEW n \in 0..Len(Full), NEW m \in (n + 1)..Len(Full), Picked(n, m)
      PROVE  IInv'
  <2>1. /\ current' \notin tried /\ tried' = tried \union {current'}
        /\ tried = {Full[l].domain : l \in 1..n} /\ current' = Full[m].domain
    BY <1>5 DEF Picked
  <2>2. ~current'.outside
    <3>1. ListFacts(Full, walk = "cf", is_media)
      BY FullFacts DEF TypeOK
    <3>2. m \in 1..Len(Full)
      BY <3>1 DEF ListFacts
    <3>3. QED
      BY <2>1, <3>1, <3>2 DEF ListFacts
  <2>3. ASSUME NEW i \in 1..Len(log), log[i][1] = current'
        PROVE  ForcedRetry(i) /\ is_media
    <3>1. ForcedRetry(i)
      BY <2>1, <2>3 DEF TurnsTaken
    <3>2. QED
      BY <2>1, <2>2, <2>3, <3>1, MediaFacts
  <2>4. OwnTurn(current)'
    BY <1>2, <1>3, <2>1, <2>2, <2>3 DEF OwnTurn
  <2>5. TurnOK'
    BY <1>1, <1>2, <2>4 DEF TurnOK
  <2>6. ZonesOpened'
    BY <1>2, <2>1 DEF ZonesOpened
  <2>7. TurnsTaken'
    BY <1>2, <1>3, <2>1 DEF TurnsTaken
  <2>8. QED
    BY <1>1, <1>2, <2>5, <2>6, <2>7 DEF TimesKept, RanOut
<1>6. QED
  BY <1>1, <1>4, <1>5

(* The end of a dial keeps the invariant.                                  *)
LEMMA EndStep ==
  ASSUME IInv, Ending, NEW o \in Outcomes, Ends(o)
  PROVE  IInv'
<1> USE DEF IInv
<1>1. /\ TypeOK' /\ ListOK'
      /\ IF o = "dns" /\ HasBase(current)
             /\ base_cf_record(current) \notin timed_out
         THEN Lead' = 1 /\ queue'[1].domain = base_cf_record(current)
         ELSE Lead' = 0
  BY EndType
<1>2. PICK n : n = Len(log) + 1
  OBVIOUS
<1>3. /\ n \in Nat /\ Len(log') = n /\ log'[n] = <<current, o>>
      /\ \A i \in 1..Len(log) : log'[i] = log[i] /\ i < n
      /\ \A i \in 1..n : i \in 1..Len(log) \/ i = n
      /\ \A i \in 1..Len(log) : ForcedRetry(i)' <=> ForcedRetry(i)
      /\ Retries(current) => ForcedRetry(n)'
      /\ n \in 1..n /\ \A i \in 1..Len(log) : i \in 1..n
  BY <1>2, GrownLog DEF Retries
<1>4. /\ UNCHANGED <<walk, is_media, proxy, tried, current>>
      /\ Busy /\ ~Busy' /\ current \in Records
  BY DEF Ends, Busy, TypeOK
<1>5. log'[n][1] = current /\ log'[n][2] = o
  BY <1>3
<1>6. TurnOK'
  <2>1. CASE Lead' = 0
    BY <1>4, <2>1 DEF TurnOK
  <2>2. CASE Lead' # 0
    <3>1. /\ o = "dns" /\ HasBase(current) /\ Lead' = 1
          /\ base_cf_record(current) \notin timed_out
          /\ queue'[1].domain = base_cf_record(current)
      BY <1>1, <2>2
    <3>2. result' = "next" /\ walk = "cf" /\ Unproxied /\ timed_out' = timed_out
      BY <3>1 DEF Ends
    <3>3. log' # <<>>
      BY <1>1, <1>3, LogFacts
    <3>4. Retries(queue[1].domain)'
      BY <1>3, <1>4, <1>5, <3>1, <3>2, <3>3 DEF Retries, Unproxied
    <3>5. QED
      BY <1>4, <3>1, <3>2, <3>4 DEF TurnOK
  <2>3. QED
    BY <2>1, <2>2
<1>7. ZonesOpened'
  BY <1>3, <1>4, <1>5 DEF ZonesOpened
<1>8. TurnsTaken'
  <2>1. ASSUME NEW i \in 1..n PROVE log'[i][1] \in tried \/ ForcedRetry(i)'
    <3>1. CASE i \in 1..Len(log)
      BY <1>3, <3>1 DEF TurnsTaken
    <3>2. CASE i = n
      BY <1>3, <1>4, <1>5, <3>2 DEF TurnOK, OwnTurn
    <3>3. QED
      BY <1>3, <3>1, <3>2
  <2>2. ASSUME NEW i \in 1..n, NEW j \in 1..n, i < j, log'[i][1].dash_one
        PROVE  log'[i][1] # log'[j][1]
    <3>0. i \in 1..Len(log)
      BY <1>2, <1>3, <2>2, LogFacts
    <3>1. CASE j \in 1..Len(log)
      BY <1>3, <2>2, <3>0, <3>1 DEF TurnsTaken
    <3>2. CASE j = n /\ log[i][1] = current
      <4>1. ~Retries(current)
        BY <1>3, <2>2, <3>0, <3>2, RetriesFacts
      <4>2. ForcedRetry(i)
        BY <1>4, <3>0, <3>2, <4>1 DEF TurnOK, OwnTurn
      <4>3. QED
        BY <1>3, <2>2, <3>0, <4>2, RetryFacts
    <3>3. QED
      BY <1>3, <1>5, <3>0, <3>1, <3>2
  <2>3. ASSUME NEW r \in tried PROVE \E i \in 1..n : log'[i][1] = r
    <3>1. CASE r = current
      BY <1>3, <1>5, <3>1
    <3>2. CASE r # current
      <4>1. PICK i \in 1..Len(log) : log[i][1] = r
        BY <3>2 DEF TurnsTaken
      <4>2. QED
        BY <1>3, <4>1
    <3>3. QED
      BY <3>1, <3>2
  <2>4. QED
    BY <1>3, <1>4, <2>1, <2>2, <2>3 DEF TurnsTaken
<1>9. TimesKept'
  <2>1. /\ timed_out' = IF walk = "cf" /\ o \in {"connect", "upgrade"}
                       THEN timed_out \union {current} ELSE timed_out
        /\ walk' = walk
    BY DEF Ends
  <2>2. ASSUME walk = "cf", NEW i \in 1..n, log'[i][2] \in {"connect", "upgrade"}
        PROVE  log'[i][1] \in timed_out'
    BY <1>3, <1>5, <2>1, <2>2 DEF TimesKept
  <2>3. ASSUME NEW r \in timed_out'
        PROVE  \E i \in 1..n : log'[i] \in {r} \X {"connect", "upgrade"}
    <3>1. CASE r \in timed_out
      <4>1. PICK i \in 1..Len(log) : log[i] \in {r} \X {"connect", "upgrade"}
        BY <3>1 DEF TimesKept, RanOut
      <4>2. QED
        BY <1>3, <4>1
    <3>2. CASE r \notin timed_out
      <4>1. r = current /\ o \in {"connect", "upgrade"}
        BY <2>1, <2>3, <3>2
      <4>2. <<current, o>> \in {r} \X {"connect", "upgrade"}
        BY <4>1
      <4>3. QED
        BY <1>3, <4>2
    <3>3. QED
      BY <3>1, <3>2
  <2>4. QED
    BY <1>3, <2>1, <2>2, <2>3 DEF TimesKept, RanOut
<1>10. QED
  BY <1>1, <1>6, <1>7, <1>8, <1>9

(* Giving up means that everything listed had its turn.                    *)
LEMMA GiveUpFacts ==
  ASSUME TypeOK, ListOK, GiveUp
  PROVE  /\ ListOK' /\ Lead' = 0 /\ Lead = 0
         /\ \A l \in 1..Len(Full) : Full[l].domain \in tried
<1>1. ListFacts(Full, walk = "cf", is_media) /\ queue \in Seq(Attempt)
  BY FullFacts DEF TypeOK, Attempt
<1>2. Len(Full) \in Nat /\ Len(queue) \in Nat
  BY <1>1 DEF ListFacts
<1>3. PICK n \in 0..Len(Full) : ListAt(n)
  BY DEF ListOK
<1>4. \A i \in 1..Len(queue) : ~queue[i].forced /\ queue[i].domain \in tried
  BY DEF GiveUp, Skipped
<1>5. Lead = 0
  <2>1. queue # <<>> => 1 \in 1..Len(queue)
    BY <1>1
  <2>2. QED
    BY <1>4, <2>1 DEF Lead
<1>6. ASSUME NEW l \in 1..Len(Full) PROVE Full[l].domain \in tried
  <2>1. CASE l \in 1..n
    BY <1>3, <2>1 DEF ListAt
  <2>2. CASE l > n
    <3>1. Len(queue) = 0 + Len(Full) - n
      BY <1>3, <1>5 DEF ListAt
    <3>2. l - n \in (0 + 1)..Len(queue) /\ n + (l - n) - 0 = l /\ l - n \in 1..Len(queue)
      BY <1>2, <2>2, <3>1
    <3>3. queue[l - n] = Full[n + (l - n) - 0]
      BY <1>3, <1>5, <3>2 DEF ListAt
    <3>4. QED
      BY <1>4, <3>2, <3>3
  <2>3. QED
    BY <1>2, <2>1, <2>2
<1>7. tried' = {Full[l].domain : l \in 1..Len(Full)}
  <2>1. \A l \in 1..n : l \in 1..Len(Full)
    BY <1>2
  <2>2. tried' = tried /\ tried = {Full[l].domain : l \in 1..n}
    BY <1>3 DEF ListAt, GiveUp
  <2>3. QED
    BY <1>6, <2>1, <2>2
<1>8. /\ queue' \in Seq(Attempt) /\ Len(queue') = Len(Full) - Len(Full)
      /\ \A j \in 1..Len(queue') : queue'[j] = Full[Len(Full) + j]
  BY <1>2 DEF GiveUp
<1>9. Len(Full) \in 0..Len(Full) /\ UNCHANGED <<walk, is_media>>
  BY <1>2 DEF GiveUp
<1>10. ListOK' /\ Lead' = 0
  BY <1>7, <1>8, <1>9, RestFacts
<1>11. QED
  BY <1>5, <1>6, <1>10

(* The other steps keep the invariant.                                     *)
LEMMA StillStep ==
  ASSUME IInv, GiveUp \/ TcpConnected \/ UNCHANGED vars
  PROVE  IInv'
<1> USE DEF IInv
<1>1. /\ UNCHANGED <<walk, is_media, proxy, tried, timed_out, current, log>>
      /\ UNCHANGED flags
  BY DEF GiveUp, TcpConnected, vars
<1>2. \A i \in 1..Len(log) : ForcedRetry(i)' <=> ForcedRetry(i)
  BY <1>1 DEF ForcedRetry
<1>3. CASE GiveUp
  <2>1. ListOK' /\ Lead' = 0
    BY <1>3, GiveUpFacts
  <2>2. TypeOK'
    BY <1>1, <1>3 DEF TypeOK, GiveUp
  <2>3. ~Busy /\ ~Busy'
    BY <1>3 DEF GiveUp, Busy
  <2>4. QED
    BY <1>1, <1>2, <2>1, <2>2, <2>3
       DEF TurnOK, ZonesOpened, TurnsTaken, TimesKept, RanOut
<1>4. CASE TcpConnected \/ UNCHANGED vars
  <2>1. queue' = queue /\ (Busy' <=> Busy) /\ (result = "next" => result' = "next")
    BY <1>4 DEF TcpConnected, vars, Busy
  <2>2. TypeOK'
    BY <1>4 DEF TcpConnected, vars, TypeOK
  <2>3. Lead' = Lead /\ Full' = Full
    BY <1>1, <2>1 DEF Lead, Full
  <2>4. ListOK'
    BY <1>1, <2>1, <2>3 DEF ListOK, ListAt
  <2>5. TurnOK'
    BY <1>1, <1>2, <2>1, <2>3 DEF TurnOK, Retries, OwnTurn
  <2>6. QED
    BY <1>1, <1>2, <2>1, <2>2, <2>4, <2>5
       DEF ZonesOpened, TurnsTaken, TimesKept, RanOut
<1>5. QED
  BY <1>3, <1>4

(* A step of the walk, by kind.                                            *)
LEMMA StepKinds ==
  ASSUME [Next]_vars
  PROVE  NextDomain \/ Ending \/ GiveUp \/ TcpConnected \/ UNCHANGED vars
  BY DEF Next, Ending

(* The inductive invariant holds in every reachable state.                 *)
THEOREM WalkInvariance == Spec => []IInv
<1>1. IInv /\ [Next]_vars => IInv'
  <2> SUFFICES ASSUME IInv, [Next]_vars PROVE IInv'
    OBVIOUS
  <2>1. CASE Ending
    <3>1. PICK o \in Outcomes : Ends(o)
      BY <2>1, EndFacts DEF IInv
    <3>2. QED
      BY <2>1, <3>1, EndStep
  <2>2. QED
    BY <2>1, StepKinds, NextStep, StillStep
<1>2. QED
  BY InitIInv, <1>1, PTL DEF Spec

(* ws_client.rs keeps its queue, its sets and its flags well formed.       *)
THEOREM WalkTypeCorrect == Spec => []TypeOK
<1>1. IInv => TypeOK
  BY DEF IInv
<1>2. QED
  BY WalkInvariance, <1>1, PTL

-----------------------------------------------------------------------------
(* What may be dialled again, and when a name outside the zones is. *)

(* The log grows by the current record, and only when a dial ends.         *)
LEMMA LogSteps ==
  ASSUME IInv, [Next]_vars
  PROVE  \/ log' = log /\ UNCHANGED <<walk, is_media, proxy>>
         \/ \E o \in Outcomes : Ends(o)
<1>1. CASE Ending
  BY <1>1, EndFacts DEF IInv
<1>2. CASE ~Ending
  BY <1>2, StepKinds DEF NextDomain, GiveUp, TcpConnected, vars
<1>3. QED
  BY <1>1, <1>2

(* base_cf_record leads outside the configured zones only from the base    *)
(* record of a zone with "-1." in its name, after a failed lookup of it,   *)
(* and never behind a proxy.  The count of attempts below needs it.        *)
OutsideOnlyAfterBase ==
  \A i \in 1..Len(log) :
    log[i][1].outside =>
      /\ i > 1 /\ log[i - 1] = <<Base(log[i][1].zone), "dns">>
      /\ log[i][1].zone \in Dashed
      /\ proxy = "none" \/ log[i][1].zone \in NoProxy

(* A host outside the zones is dialled only then.                          *)
LEMMA OutsideAfterBase == Spec => []OutsideOnlyAfterBase
<1>1. Init => OutsideOnlyAfterBase
  BY DEF Init, OutsideOnlyAfterBase
<1>2. IInv /\ OutsideOnlyAfterBase /\ [Next]_vars => OutsideOnlyAfterBase'
  <2> SUFFICES ASSUME IInv, OutsideOnlyAfterBase, [Next]_vars
               PROVE  OutsideOnlyAfterBase'
    OBVIOUS
  <2> USE DEF IInv
  <2>1. CASE log' = log /\ UNCHANGED <<walk, is_media, proxy>>
    BY <2>1 DEF OutsideOnlyAfterBase
  <2>2. ASSUME NEW o \in Outcomes, Ends(o) PROVE OutsideOnlyAfterBase'
    <3>1. PICK n : n = Len(log) + 1
      OBVIOUS
    <3>2. /\ n \in Nat /\ Len(log') = n /\ log'[n] = <<current, o>>
          /\ \A i \in 1..Len(log) : log'[i] = log[i]
          /\ \A i \in 1..n : i \in 1..Len(log) \/ i = n
      BY <2>2, <3>1, GrownLog
    <3>3. proxy' = proxy /\ Busy
      BY <2>2 DEF Ends
    <3>4. ASSUME NEW i \in 1..n, log'[i][1].outside
          PROVE  /\ i > 1 /\ log'[i - 1] = <<Base(log'[i][1].zone), "dns">>
                 /\ log'[i][1].zone \in Dashed
                 /\ proxy = "none" \/ log'[i][1].zone \in NoProxy
      <4>1. CASE i \in 1..Len(log)
        <5>0. log[i][1].outside
          BY <3>2, <3>4, <4>1
        <5>1. /\ i > 1 /\ log[i - 1] = <<Base(log[i][1].zone), "dns">>
              /\ log[i][1].zone \in Dashed
              /\ proxy = "none" \/ log[i][1].zone \in NoProxy
          BY <4>1, <5>0 DEF OutsideOnlyAfterBase
        <5>2. i - 1 \in 1..Len(log)
          BY <4>1, <5>1, LogFacts
        <5>3. QED
          BY <3>2, <4>1, <5>1, <5>2
      <4>2. CASE i = n
        <5>1. log'[n][1] = current /\ current.outside
          BY <3>2, <3>4, <4>2
        <5>2. Retries(current)
          BY <3>3, <5>1 DEF TurnOK, OwnTurn
        <5>3. /\ Len(log) \in 1..Len(log)
              /\ log[Len(log)] = <<Base(current.zone), "dns">>
              /\ current.zone \in Dashed
              /\ proxy = "none" \/ current.zone \in NoProxy
          BY <5>1, <5>2, RetriesFacts
        <5>4. i > 1 /\ i - 1 = Len(log)
          BY <3>1, <4>2, <5>3, LogFacts
        <5>5. QED
          BY <3>2, <4>2, <5>1, <5>3, <5>4
      <4>3. QED
        BY <3>2, <4>1, <4>2
    <3>5. QED
      BY <3>2, <3>3, <3>4 DEF OutsideOnlyAfterBase
  <2>3. QED
    BY <2>1, <2>2, LogSteps
<1>3. QED
  BY WalkInvariance, <1>1, <1>2, PTL DEF Spec

(* "Retrying a record that ran out the clock just buys another full        *)
(* connect timeout": retry_base_of consults timed_out, so the one second   *)
(* dial is a media DC's base record that was forced before its turn.       *)
THEOREM TimedOutIsNotForced == Spec => []TimedOutNotForced
<1>1. Init => TimedOutNotForced
  BY DEF Init, TimedOutNotForced
<1>2. IInv /\ TimedOutNotForced /\ [Next]_vars => TimedOutNotForced'
  <2> SUFFICES ASSUME IInv, TimedOutNotForced, [Next]_vars
               PROVE  TimedOutNotForced'
    OBVIOUS
  <2> USE DEF IInv
  <2>1. CASE log' = log /\ UNCHANGED <<walk, is_media, proxy>>
    BY <2>1 DEF TimedOutNotForced, ForcedRetry
  <2>2. ASSUME NEW o \in Outcomes, Ends(o) PROVE TimedOutNotForced'
    <3>1. PICK n : n = Len(log) + 1
      OBVIOUS
    <3>2. /\ n \in Nat /\ Len(log') = n /\ log'[n] = <<current, o>>
          /\ \A i \in 1..Len(log) : log'[i] = log[i] /\ (ForcedRetry(i)' <=> ForcedRetry(i))
          /\ \A i \in 1..n : i \in 1..Len(log) \/ i = n
          /\ ForcedRetry(n)' <=> /\ log # <<>> /\ log[Len(log)][2] = "dns"
                                /\ HasBase(log[Len(log)][1])
                                /\ current = base_cf_record(log[Len(log)][1])
      BY <2>2, <3>1, GrownLog
    <3>3. is_media' = is_media /\ Busy
      BY <2>2 DEF Ends
    <3>4. ASSUME NEW i \in 1..n, NEW j \in 1..n, i < j, log'[i][1] = log'[j][1],
                 log'[i][2] \in {"connect", "upgrade"}
          PROVE  ForcedRetry(i)' /\ ~ForcedRetry(j)' /\ is_media
      <4>0. i \in 1..Len(log) /\ log'[i] = log[i] /\ (ForcedRetry(i)' <=> ForcedRetry(i))
        BY <3>1, <3>2, <3>4, LogFacts
      <4>1. CASE j \in 1..Len(log)
        BY <3>2, <3>4, <4>0, <4>1 DEF TimedOutNotForced
      <4>2. CASE j = n
        <5>1. log[i][1] = current
          BY <3>2, <3>4, <4>0, <4>2
        <5>2. OwnTurn(current)
          <6>1. walk = "cf" => current \in timed_out
            BY <3>4, <4>0, <5>1 DEF TimesKept
          <6>2. QED
            BY <3>3, <6>1 DEF TurnOK, Retries
        <5>3. ForcedRetry(i) /\ is_media /\ ~current.outside
          BY <4>0, <5>1, <5>2 DEF OwnTurn
        <5>4. /\ i - 1 \in 1..Len(log)
              /\ log[i - 1] = <<DashOne(current.zone), "dns">>
          BY <4>0, <5>1, <5>3, RetryFacts
        <5>5. ASSUME ForcedRetry(n)' PROVE FALSE
          <6>1. /\ Len(log) \in 1..Len(log) /\ HasBase(log[Len(log)][1])
                /\ current = base_cf_record(log[Len(log)][1])
                /\ log[Len(log)][1] \in Records
            BY <3>2, <5>5, LogFacts
          <6>2. log[Len(log)][1] = DashOne(current.zone)
            BY <5>3, <6>1, BaseFacts
          <6>3. i - 1 < Len(log)
            BY <3>1, <4>0, <6>1, LogFacts
          <6>4. log[i - 1][1] = log[Len(log)][1] /\ log[i - 1][1].dash_one
            BY <5>4, <6>2 DEF DashOne
          <6>5. QED
            BY <5>4, <6>1, <6>3, <6>4 DEF TurnsTaken
        <5>6. QED
          BY <4>0, <4>2, <5>3, <5>5
      <4>3. QED
        BY <3>2, <4>1, <4>2
    <3>5. QED
      BY <3>2, <3>3, <3>4 DEF TimedOutNotForced
  <2>3. QED
    BY <2>1, <2>2, LogSteps
<1>3. QED
  BY WalkInvariance, <1>1, <1>2, PTL DEF Spec

-----------------------------------------------------------------------------
(* The order of the zones. *)

(* The record being dialled is of no earlier zone than any before it.      *)
ZonesInOrder ==
  /\ ZoneByZone
  /\ walk = "cf" /\ Busy =>
       \A i \in 1..Len(log) : NotAfter(log[i][1].zone, current.zone)

(* A zone does not come after itself.                                      *)
LEMMA NotAfterSelf == \A z : NotAfter(z, z)
<1>1. ASSUME NEW q \in 1..Len(Zones) PROVE q \in 1..q
  OBVIOUS
<1>2. QED
  BY <1>1 DEF NotAfter

(* A record taken from the list is of no earlier zone than those tried.    *)
LEMMA PickedInOrder ==
  ASSUME IInv, walk = "cf", NEW n \in 0..Len(Full), NEW m \in (n + 1)..Len(Full),
         Picked(n, m), NEW i \in 1..Len(log)
  PROVE  NotAfter(log[i][1].zone, current'.zone)
<1> USE DEF IInv
<1>1. ListFacts(Full, TRUE, is_media) /\ Len(Full) \in Nat
  <2>1. (walk = "cf") = TRUE /\ ListFacts(Full, walk = "cf", is_media)
    BY FullFacts DEF TypeOK
  <2>2. QED
    BY <2>1 DEF ListFacts
<1>2. PICK r \in tried : r.zone = log[i][1].zone
  BY DEF ZonesOpened
<1>3. PICK l \in 1..n : Full[l].domain = r
  BY <1>2 DEF Picked
<1>4. l \in 1..Len(Full) /\ m \in 1..Len(Full) /\ l < m
  BY <1>1
<1>5. (l + 1) \div 2 \in 1..Len(Zones) /\ Zones[(l + 1) \div 2] = log[i][1].zone
  BY <1>1, <1>2, <1>3, <1>4 DEF ListFacts
<1>6. ASSUME NEW q \in 1..Len(Zones), Zones[q] = current'.zone
      PROVE  (l + 1) \div 2 \in 1..q
  <2>1. current' = Full[m].domain /\ current' \notin tried
        /\ \A k \in 1..(m - 1) : Full[k].domain \in tried
    BY DEF Picked
  <2>2. /\ 2 * q - (m % 2) \in 1..Len(Full)
        /\ Full[2 * q - (m % 2)].domain = current'
    BY <1>1, <1>4, <1>6, <2>1 DEF ListFacts
  <2>3. 2 * q - (m % 2) \notin 1..(m - 1)
    BY <2>1, <2>2
  <2>4. m % 2 \in 0..1 /\ m \in Nat /\ l \in Nat /\ q \in Nat
    BY <1>4
  <2>5. m <= 2 * q - (m % 2)
    BY <1>1, <2>2, <2>3, <2>4
  <2>6. l + 1 <= 2 * q
    BY <1>4, <2>4, <2>5
  <2>7. QED
    BY <1>5, <2>4, <2>6
<1>7. QED
  BY <1>5, <1>6 DEF NotAfter

(* "The first domain has highest priority": the zones are dialled in the   *)
(* order configured, the forced retries of cf_attempts included.           *)
THEOREM ZonesAreDialledInOrder == Spec => []ZoneByZone
<1>1. Init => ZonesInOrder
  BY DEF Init, ZonesInOrder, ZoneByZone
<1>2. IInv /\ ZonesInOrder /\ [Next]_vars => ZonesInOrder'
  <2> SUFFICES ASSUME IInv, ZonesInOrder, [Next]_vars
               PROVE  ZonesInOrder'
    OBVIOUS
  <2> USE DEF IInv
  <2>1. CASE NextDomain
    <3>1. UNCHANGED <<walk, log>> /\ Len(log) \in Nat
      BY <2>1, LogFacts DEF NextDomain
    <3>2. ASSUME walk = "cf", NEW i \in 1..Len(log)
          PROVE  NotAfter(log[i][1].zone, current'.zone)
      <4>1. CASE Lead = 1 /\ current' = queue[1].domain
        <5>1. Len(log) \in 1..Len(log) /\ current'.zone = log[Len(log)][1].zone
          BY <4>1, RetriesFacts DEF TurnOK
        <5>2. i < Len(log) \/ i = Len(log)
          BY <3>1
        <5>3. QED
          BY <3>2, <5>1, <5>2, NotAfterSelf DEF ZonesInOrder, ZoneByZone
      <4>2. CASE \E n \in 0..Len(Full) : \E m \in (n + 1)..Len(Full) : Picked(n, m)
        BY <3>2, <4>2, PickedInOrder
      <4>3. QED
        BY <2>1, <4>1, <4>2, NextFacts
    <3>3. ZoneByZone'
      BY <3>1 DEF ZonesInOrder, ZoneByZone, NotAfter
    <3>4. walk' = "cf" => \A i \in 1..Len(log') : NotAfter(log'[i][1].zone, current'.zone)
      BY <3>1, <3>2
    <3>5. QED
      BY <3>3, <3>4 DEF ZonesInOrder, NotAfter
  <2>2. CASE Ending
    <3>1. PICK o \in Outcomes : Ends(o)
      BY <2>2, EndFacts
    <3>2. PICK n : n = Len(log) + 1
      OBVIOUS
    <3>3. /\ n \in Nat /\ Len(log') = n /\ log'[n] = <<current, o>>
          /\ \A i \in 1..Len(log) : log'[i] = log[i]
          /\ \A i \in 1..n : i \in 1..Len(log) \/ i = n
      BY <3>1, <3>2, GrownLog
    <3>4. walk' = walk /\ Busy /\ ~Busy'
      BY <3>1 DEF Ends, Busy
    <3>5. ASSUME walk = "cf", NEW i \in 1..n, NEW j \in 1..n, i < j
          PROVE  NotAfter(log'[i][1].zone, log'[j][1].zone)
      <4>1. i \in 1..Len(log) /\ log'[i] = log[i]
        BY <3>2, <3>3, <3>5, LogFacts
      <4>2. CASE j \in 1..Len(log)
        BY <3>3, <3>5, <4>1, <4>2 DEF ZonesInOrder, ZoneByZone
      <4>3. CASE j = n
        <5>1. log'[n][1] = current
          BY <3>3
        <5>2. QED
          BY <3>4, <3>5, <4>1, <4>3, <5>1 DEF ZonesInOrder
      <4>4. QED
        BY <3>3, <4>2, <4>3
    <3>6. QED
      BY <3>3, <3>4, <3>5 DEF ZonesInOrder, ZoneByZone, NotAfter
  <2>3. CASE GiveUp \/ TcpConnected \/ UNCHANGED vars
    <3>1. UNCHANGED <<walk, log, current>> /\ (Busy' => Busy)
      BY <2>3 DEF GiveUp, TcpConnected, vars, Busy
    <3>2. QED
      BY <3>1 DEF ZonesInOrder, ZoneByZone, NotAfter
  <2>4. QED
    BY <2>1, <2>2, <2>3, StepKinds
<1>3. ZonesInOrder => ZoneByZone
  BY DEF ZonesInOrder
<1>4. QED
  BY WalkInvariance, <1>1, <1>2, <1>3, PTL DEF Spec

-----------------------------------------------------------------------------
(* What the walk reports. *)

(* all_redirects survives redirects, and failed lookups with a retry.      *)
FlagsOK ==
  /\ flags.all_redirects => \A i \in 1..Len(log) : log[i][2] \in {"redirect", "dns"}
  /\ flags.all_redirects \/ \E i \in 1..Len(log) : log[i][2] # "redirect"
  /\ flags.all_redirects /\ result = "next" =>
       Ended("redirect") \/ Lead = 1 \/ log = <<>>
  /\ flags.all_redirects /\ result = "failed" => Ended("redirect")
  /\ walk = "direct" /\ result # "connected" =>
       /\ flags.connect <=> Ended("connect")
       /\ flags.upgrade <=> Ended("upgrade")

(* A dial that ends keeps what the flags say.                              *)
LEMMA EndFlags ==
  ASSUME IInv, FlagsOK, Ending, NEW o \in Outcomes, Ends(o)
  PROVE  FlagsOK'
<1> USE DEF IInv
<1>1. PICK n : n = Len(log) + 1
  OBVIOUS
<1>2. /\ n \in Nat /\ Len(log') = n /\ log'[n] = <<current, o>>
      /\ \A i \in 1..Len(log) : log'[i] = log[i] /\ i \in 1..n
      /\ \A i \in 1..n : i \in 1..Len(log) \/ i = n
      /\ n \in 1..n
  BY <1>1, GrownLog
<1>3. log'[n][2] = o
  BY <1>2
<1>4. ASSUME NEW x PROVE Ended(x)' <=> Ended(x) \/ o = x
  BY <1>2, <1>3 DEF Ended
<1>5. walk' = walk /\ result # "connected" /\ result' # "failed"
      /\ (result' = "connected" <=> o = "connected")
  BY DEF Ends, Busy
<1>6. IF o = "dns" /\ Lead' = 1 THEN flags' = flags
      ELSE IF o = "redirect" THEN flags' = flags ELSE ~flags'.all_redirects
  BY EndType DEF Ends
<1>7. flags'.all_redirects => flags' = flags /\ o \in {"redirect", "dns"}
                              /\ (o = "dns" => Lead' = 1)
  BY <1>6
<1>8. flags'.all_redirects => \A i \in 1..n : log'[i][2] \in {"redirect", "dns"}
  BY <1>2, <1>3, <1>7 DEF FlagsOK
<1>9. flags'.all_redirects \/ \E i \in 1..n : log'[i][2] # "redirect"
  <2>1. CASE o = "redirect"
    BY <1>2, <1>6, <2>1 DEF FlagsOK
  <2>2. CASE o # "redirect"
    BY <1>2, <1>3, <2>2
  <2>3. QED
    BY <2>1, <2>2
<1>10. flags'.all_redirects => Ended("redirect")' \/ Lead' = 1
  BY <1>4, <1>7
<1>11. walk = "direct" /\ o # "connected" =>
         /\ flags'.connect <=> Ended("connect")'
         /\ flags'.upgrade <=> Ended("upgrade")'
  <2>1. SUFFICES ASSUME walk = "direct", o # "connected"
                 PROVE  /\ flags'.connect <=> Ended("connect")'
                        /\ flags'.upgrade <=> Ended("upgrade")'
    OBVIOUS
  <2>2. /\ flags'.connect <=> flags.connect \/ o = "connect"
        /\ flags'.upgrade <=> flags.upgrade \/ o = "upgrade"
    BY <2>1 DEF Ends
  <2>3. (flags.connect <=> Ended("connect")) /\ (flags.upgrade <=> Ended("upgrade"))
    BY <1>5, <2>1 DEF FlagsOK
  <2>4. QED
    BY <1>4, <2>2, <2>3
<1>12. QED
  BY <1>2, <1>5, <1>8, <1>9, <1>10, <1>11 DEF FlagsOK

(* A walk that gives up dialled something.                                 *)
LEMMA SomethingDialled ==
  ASSUME IInv, GiveUp
  PROVE  log # <<>>
<1> USE DEF IInv
<1>1. 1 \in 1..Len(Full)
  <2>1. ListFacts(Full, walk = "cf", is_media)
    BY FullFacts DEF TypeOK
  <2>2. QED
    BY <2>1 DEF ListFacts
<1>2. Full[1].domain \in tried /\ ~Busy
  BY <1>1, GiveUpFacts DEF GiveUp, Busy
<1>3. \E i \in 1..Len(log) : log[i][1] = Full[1].domain
  BY <1>2 DEF TurnsTaken
<1>4. QED
  BY <1>3, LogFacts

(* The flags that select_upstream backs off on say how the dials ended.    *)
THEOREM FlagsAreHonest == Spec => []FlagsTellHow
<1>1. Init => FlagsOK
  BY DEF Init, NoFlags, FlagsOK, Ended
<1>2. IInv /\ FlagsOK /\ [Next]_vars => FlagsOK'
  <2> SUFFICES ASSUME IInv, FlagsOK, [Next]_vars
               PROVE  FlagsOK'
    OBVIOUS
  <2> USE DEF IInv
  <2>1. CASE Ending
    BY <2>1, EndFacts, EndFlags
  <2>2. CASE ~Ending
    <3>1. UNCHANGED <<walk, flags, log>>
      BY <2>2, StepKinds DEF NextDomain, GiveUp, TcpConnected, vars
    <3>2. ASSUME NEW x PROVE Ended(x)' <=> Ended(x)
      BY <3>1 DEF Ended
    <3>3. result' = "connected" <=> result = "connected"
      BY <2>2, StepKinds DEF NextDomain, GiveUp, TcpConnected, vars
    <3>4. flags.all_redirects /\ result' = "next" =>
            Ended("redirect") \/ Lead' = 1 \/ log = <<>>
      <4>1. result' = "next" => result = "next" /\ Lead' = Lead
        BY <2>2, StepKinds DEF NextDomain, GiveUp, TcpConnected, vars, Lead
      <4>2. QED
        BY <4>1 DEF FlagsOK
    <3>5. flags.all_redirects /\ result' = "failed" => Ended("redirect")
      <4>1. CASE GiveUp
        <5>1. result = "next" /\ Lead = 0 /\ log # <<>>
          BY <4>1, GiveUpFacts, SomethingDialled DEF GiveUp
        <5>2. QED
          BY <5>1 DEF FlagsOK
      <4>2. CASE ~GiveUp
        <5>1. result' = "failed" => result = "failed"
          BY <2>2, <4>2, StepKinds DEF NextDomain, TcpConnected, vars
        <5>2. QED
          BY <5>1 DEF FlagsOK
      <4>3. QED
        BY <4>1, <4>2
    <3>6. QED
      BY <3>1, <3>2, <3>3, <3>4, <3>5 DEF FlagsOK
  <2>3. QED
    BY <2>1, <2>2
<1>3. FlagsOK => FlagsTellHow
  BY DEF FlagsOK, FlagsTellHow, Ended
<1>4. QED
  BY WalkInvariance, <1>1, <1>2, <1>3, PTL DEF Spec

-----------------------------------------------------------------------------
(* How often each record is dialled. *)

(* The next dial would count as a forced retry.                            *)
AfterMissing(r) ==
  /\ log # <<>> /\ log[Len(log)][2] = "dns"
  /\ HasBase(log[Len(log)][1]) /\ r = base_cf_record(log[Len(log)][1])

(* A listed record has one turn; its other dial is a forced retry.         *)
OneTurn ==
  \A i, j \in 1..Len(log) :
    i < j /\ log[i][1] = log[j][1] /\ ~log[i][1].outside =>
      ForcedRetry(i) \/ ForcedRetry(j)

(* A retry does not use up the record's turn.                              *)
TurnKept ==
  \A r \in tried :
    \/ \E i \in 1..Len(log) : log[i][1] = r /\ ~ForcedRetry(i)
    \/ Busy /\ current = r /\ ~AfterMissing(r)

(* A failed lookup is followed by its retry, unless the clock ran out on   *)
(* that record.                                                            *)
RetryFollows ==
  \A k \in 1..Len(log) :
    /\ log[k][2] = "dns" /\ HasBase(log[k][1])
    /\ base_cf_record(log[k][1]) \notin timed_out
    => \/ k < Len(log) /\ log[k + 1][1] = base_cf_record(log[k][1])
       \/ /\ k = Len(log)
          /\ \/ result = "next" /\ Lead = 1
             \/ Busy /\ current = base_cf_record(log[k][1])

(* A walk that gave up has nothing left to dial.                           *)
Exhausted ==
  result = "failed" => \A l \in 1..Len(Full) : Full[l].domain \in tried

DialsOK == OneTurn /\ TurnKept /\ RetryFollows /\ Exhausted

(* A base record is never taken from the list right after its -1 record    *)
(* was not found: the forced retry comes between them.                     *)
LEMMA OwnTurnComesLater ==
  ASSUME IInv, RetryFollows, result = "next", Lead = 0, NEW r, ~r.outside,
         \A i \in 1..Len(log) : log[i][1] = r => ForcedRetry(i)
  PROVE  ~AfterMissing(r)
<1> USE DEF IInv
<1>1. SUFFICES ASSUME AfterMissing(r) PROVE FALSE
  OBVIOUS
<1> DEFINE d == log[Len(log)][1]
<1>2. /\ Len(log) \in 1..Len(log) /\ Len(log) \in Nat /\ d \in Records
      /\ HasBase(d) /\ r = base_cf_record(d) /\ log[Len(log)][2] = "dns"
  BY <1>1, LogFacts DEF AfterMissing
<1>3. d = DashOne(r.zone) /\ d.dash_one
  <2>1. d = DashOne(r.zone)
    <3> HIDE DEF d
    <3>1. QED
      BY <1>2, BaseFacts
  <2>2. DashOne(r.zone).dash_one
    BY DEF DashOne
  <2>3. QED
    BY <2>1, <2>2
<1>4. ~Busy /\ ~(Len(log) < Len(log))
  BY <1>2 DEF Busy
<1>5. r \in timed_out
  BY <1>2, <1>4 DEF RetryFollows
<1>6. PICK i \in 1..Len(log) : log[i][1] = r
  <2>1. PICK i \in 1..Len(log) : log[i] \in {r} \X {"connect", "upgrade"}
    BY <1>5 DEF TimesKept, RanOut
  <2>2. QED
    BY <2>1
<1>7. i - 1 \in 1..Len(log) /\ log[i - 1][1] = DashOne(r.zone) /\ i - 1 < Len(log)
  BY <1>2, <1>6, RetryFacts
<1>8. QED
  BY <1>2, <1>3, <1>7 DEF TurnsTaken

(* next_domain keeps the account of the dials.                             *)
LEMMA NextDials ==
  ASSUME IInv, DialsOK, NextDomain
  PROVE  DialsOK'
<1> USE DEF IInv
<1>1. /\ UNCHANGED <<walk, is_media, timed_out, log>>
      /\ result = "next" /\ result' = "dialling" /\ ~Busy /\ Busy'
  BY DEF NextDomain, Busy
<1>2. \A i \in 1..Len(log) : ForcedRetry(i)' <=> ForcedRetry(i)
  BY <1>1 DEF ForcedRetry
<1>3. OneTurn'
  BY <1>1, <1>2 DEF DialsOK, OneTurn
<1>4. Exhausted'
  BY <1>1 DEF Exhausted
<1>5. \A r \in tried : \E i \in 1..Len(log) : log[i][1] = r /\ ~ForcedRetry(i)
  BY <1>1 DEF DialsOK, TurnKept
<1>6. CASE Lead = 1 /\ current' = queue[1].domain /\ tried' = tried
  <2>1. TurnKept'
    BY <1>1, <1>2, <1>5, <1>6 DEF TurnKept
  <2>2. current' = base_cf_record(log[Len(log)][1])
    BY <1>6 DEF TurnOK, Retries
  <2>3. RetryFollows'
    BY <1>1, <2>2 DEF DialsOK, RetryFollows
  <2>4. QED
    BY <1>3, <1>4, <2>1, <2>3 DEF DialsOK
<1>7. ASSUME Lead = 0, NEW n \in 0..Len(Full), NEW m \in (n + 1)..Len(Full), Picked(n, m)
      PROVE  DialsOK'
  <2>1. current' \notin tried /\ tried' = tried \union {current'}
        /\ current' = Full[m].domain
    BY <1>7 DEF Picked
  <2>2. ~current'.outside
    <3>1. ListFacts(Full, walk = "cf", is_media)
      BY FullFacts DEF TypeOK
    <3>2. m \in 1..Len(Full)
      BY <3>1 DEF ListFacts
    <3>3. QED
      BY <2>1, <3>1, <3>2 DEF ListFacts
  <2>3. \A i \in 1..Len(log) : log[i][1] = current' => ForcedRetry(i)
    BY <2>1 DEF TurnsTaken
  <2>4. ~AfterMissing(current')
    BY <1>1, <1>7, <2>2, <2>3, OwnTurnComesLater DEF DialsOK
  <2>5. ~AfterMissing(current)'
    BY <1>1, <2>4 DEF AfterMissing
  <2>6. TurnKept'
    BY <1>1, <1>2, <1>5, <2>1, <2>5 DEF TurnKept
  <2>7. RetryFollows'
    BY <1>1, <1>7 DEF DialsOK, RetryFollows
  <2>8. QED
    BY <1>3, <1>4, <2>6, <2>7 DEF DialsOK
<1>8. QED
  BY <1>6, <1>7, NextFacts

(* The end of a dial keeps the account of the dials.                       *)
LEMMA EndDials ==
  ASSUME IInv, DialsOK, Ending, NEW o \in Outcomes, Ends(o)
  PROVE  DialsOK'
<1> USE DEF IInv
<1>1. PICK n : n = Len(log) + 1
  OBVIOUS
<1>2. /\ n \in Nat /\ Len(log) \in Nat /\ Len(log') = n /\ log'[n] = <<current, o>>
      /\ \A i \in 1..Len(log) : log'[i] = log[i] /\ i < n /\ i \in 1..n
      /\ \A i \in 1..n : i \in 1..Len(log) \/ i = n
      /\ n \in 1..n
      /\ \A i \in 1..Len(log) : ForcedRetry(i)' <=> ForcedRetry(i)
      /\ ForcedRetry(n)' <=> AfterMissing(current)
  BY <1>1, GrownLog DEF AfterMissing
<1>3. log'[n][1] = current /\ log'[n][2] = o
  BY <1>2
<1>4. /\ UNCHANGED <<walk, is_media, tried, current>> /\ Busy /\ ~Busy'
      /\ timed_out \subseteq timed_out' /\ (o = "dns" => timed_out' = timed_out)
      /\ result # "next" /\ result' # "failed"
      /\ (o = "dns" => result' = "next")
  BY DEF Ends, Busy
<1>5. OneTurn'
  <2>1. ASSUME NEW i \in 1..n, NEW j \in 1..n, i < j, log'[i][1] = log'[j][1],
               ~log'[i][1].outside
        PROVE  ForcedRetry(i)' \/ ForcedRetry(j)'
    <3>1. i \in 1..Len(log) /\ log'[i] = log[i]
      BY <1>1, <1>2, <2>1
    <3>2. CASE j \in 1..Len(log)
      BY <1>2, <2>1, <3>1, <3>2 DEF DialsOK, OneTurn
    <3>3. CASE j = n
      <4>1. log[i][1] = current
        BY <1>3, <2>1, <3>1, <3>3
      <4>2. CASE Retries(current)
        BY <1>2, <3>3, <4>2 DEF Retries, AfterMissing
      <4>3. CASE OwnTurn(current)
        BY <1>2, <3>1, <4>1, <4>3 DEF OwnTurn
      <4>4. QED
        BY <1>4, <4>2, <4>3 DEF TurnOK
    <3>4. QED
      BY <1>2, <3>2, <3>3
  <2>2. QED
    BY <1>2, <2>1 DEF OneTurn
<1>6. TurnKept'
  <2>1. ASSUME NEW r \in tried
        PROVE  \E i \in 1..n : log'[i][1] = r /\ ~ForcedRetry(i)'
    <3>1. CASE \E i \in 1..Len(log) : log[i][1] = r /\ ~ForcedRetry(i)
      BY <1>2, <3>1
    <3>2. CASE current = r /\ ~AfterMissing(r)
      BY <1>2, <1>3, <3>2
    <3>3. QED
      BY <3>1, <3>2 DEF DialsOK, TurnKept
  <2>2. QED
    BY <1>2, <1>4, <2>1 DEF TurnKept
<1>7. RetryFollows'
  <2>1. ASSUME NEW k \in 1..n, log'[k][2] = "dns", HasBase(log'[k][1]),
               base_cf_record(log'[k][1]) \notin timed_out'
        PROVE  \/ k < n /\ log'[k + 1][1] = base_cf_record(log'[k][1])
               \/ k = n /\ result' = "next" /\ Lead' = 1
    <3>1. CASE k \in 1..Len(log)
      <4>1. log'[k] = log[k] /\ k < n
        BY <1>2, <3>1
      <4>2. \/ k < Len(log) /\ log[k + 1][1] = base_cf_record(log[k][1])
            \/ k = Len(log) /\ current = base_cf_record(log[k][1])
        BY <1>4, <2>1, <3>1, <4>1 DEF DialsOK, RetryFollows
      <4>3. k < Len(log) => log'[k + 1] = log[k + 1]
        BY <1>2, <3>1
      <4>4. k = Len(log) => log'[k + 1][1] = current
        BY <1>1, <1>3
      <4>5. QED
        BY <4>1, <4>2, <4>3, <4>4
    <3>2. CASE k = n
      <4>1. o = "dns" /\ HasBase(current) /\ base_cf_record(current) \notin timed_out
        BY <1>3, <1>4, <2>1, <3>2
      <4>2. QED
        BY <1>4, <3>2, <4>1, EndType
    <3>3. QED
      BY <1>2, <3>1, <3>2
  <2>2. QED
    BY <1>2, <2>1 DEF RetryFollows
<1>8. Exhausted'
  BY <1>4 DEF Exhausted
<1>9. QED
  BY <1>5, <1>6, <1>7, <1>8 DEF DialsOK

(* The other steps keep the account of the dials.                          *)
LEMMA StillDials ==
  ASSUME IInv, DialsOK, GiveUp \/ TcpConnected \/ UNCHANGED vars
  PROVE  DialsOK'
<1> USE DEF IInv
<1>1. UNCHANGED <<walk, is_media, tried, timed_out, current, log>>
  BY DEF GiveUp, TcpConnected, vars
<1>2. /\ \A i \in 1..Len(log) : ForcedRetry(i)' <=> ForcedRetry(i)
      /\ Full' = Full
  BY <1>1 DEF ForcedRetry, Full
<1>3. Busy' <=> Busy
  BY DEF GiveUp, TcpConnected, vars, Busy
<1>4. OneTurn' /\ TurnKept'
  BY <1>1, <1>2, <1>3 DEF DialsOK, OneTurn, TurnKept, AfterMissing
<1>5. RetryFollows' /\ Exhausted'
  <2>1. CASE GiveUp
    <3>1. Lead = 0 /\ ~Busy /\ \A l \in 1..Len(Full) : Full[l].domain \in tried
      BY <2>1, GiveUpFacts DEF GiveUp, Busy
    <3>2. RetryFollows'
      BY <1>1, <3>1 DEF DialsOK, RetryFollows
    <3>3. QED
      BY <1>1, <1>2, <3>1, <3>2 DEF Exhausted
  <2>2. CASE TcpConnected \/ UNCHANGED vars
    <3>1. /\ Lead' = Lead /\ (result' = "failed" => result = "failed")
          /\ (result = "next" => result' = "next")
      BY <2>2 DEF TcpConnected, vars, Lead
    <3>2. QED
      BY <1>1, <1>2, <1>3, <3>1 DEF DialsOK, RetryFollows, Exhausted
  <2>3. QED
    BY <2>1, <2>2
<1>6. QED
  BY <1>4, <1>5 DEF DialsOK

(* Counting: no three members, exactly one, exactly two.                   *)
LEMMA AtMostTwo ==
  ASSUME NEW S, \A i, j, k \in S : i = j \/ j = k \/ i = k
  PROVE  /\ Cardinality(S) <= 2
         /\ \A a, b \in S : a # b => Cardinality(S) = 2
<1>1. ASSUME NEW a \in S, NEW b \in S, a # b PROVE Cardinality(S) = 2
  <2>1. S = {a} \union {b}
    BY <1>1
  <2>2. IsFiniteSet({a}) /\ Cardinality({a}) = 1 /\ b \notin {a}
    BY <1>1, FS_Singleton
  <2>3. QED
    BY <2>1, <2>2, FS_AddElement
<1>2. CASE S = {}
  BY <1>2, FS_EmptySet
<1>3. ASSUME NEW a \in S, S = {a} PROVE Cardinality(S) = 1
  BY <1>3, FS_Singleton
<1>4. Cardinality(S) \in {0, 1, 2}
  <2>1. CASE \E a \in S : S = {a}
    BY <1>3, <2>1
  <2>2. CASE \E a, b \in S : a # b
    BY <1>1, <2>2
  <2>3. QED
    BY <1>2, <2>1, <2>2, FS_EmptySet
<1>5. QED
  BY <1>1, <1>4

(* A set with a member and no two of them has one.                         *)
LEMMA ExactlyOne ==
  ASSUME NEW S, NEW a \in S, \A i, j \in S : i = j
  PROVE  Cardinality(S) = 1
<1>1. S = {a}
  OBVIOUS
<1>2. QED
  BY <1>1, FS_Singleton

(* A base record is forced at most once.                                   *)
LEMMA ForcedOnce ==
  ASSUME IInv, NEW i \in 1..Len(log), NEW j \in 1..Len(log),
         ForcedRetry(i), ForcedRetry(j), log[i][1] = log[j][1], ~log[i][1].outside
  PROVE  i = j
<1> USE DEF IInv
<1>1. /\ i - 1 \in 1..Len(log) /\ j - 1 \in 1..Len(log)
      /\ log[i - 1][1] = DashOne(log[i][1].zone)
      /\ log[j - 1][1] = DashOne(log[i][1].zone)
  BY RetryFacts
<1>2. DashOne(log[i][1].zone).dash_one
  BY DEF DashOne
<1>3. ~(i - 1 < j - 1) /\ ~(j - 1 < i - 1)
  BY <1>1, <1>2 DEF TurnsTaken
<1>4. QED
  BY <1>3

(* A listed record is dialled at most twice.                               *)
LEMMA NoThreeDials ==
  ASSUME IInv, OneTurn, NEW r, ~r.outside,
         NEW i \in 1..Len(log), NEW j \in 1..Len(log), NEW k \in 1..Len(log),
         log[i][1] = r, log[j][1] = r, log[k][1] = r
  PROVE  i = j \/ j = k \/ i = k
<1>1. ASSUME NEW a \in 1..Len(log), NEW b \in 1..Len(log), a # b,
             log[a][1] = r, log[b][1] = r
      PROVE  ForcedRetry(a) \/ ForcedRetry(b)
  <2>1. a < b \/ b < a
    BY <1>1
  <2>2. QED
    BY <1>1, <2>1 DEF OneTurn
<1>2. ASSUME NEW a \in 1..Len(log), NEW b \in 1..Len(log), a # b,
             log[a][1] = r, log[b][1] = r
      PROVE  ~ForcedRetry(a) \/ ~ForcedRetry(b)
  BY <1>2, ForcedOnce
<1>3. QED
  BY <1>1, <1>2

(* The bound holds of every record, the names outside the zones included.  *)
LEMMA DialsBounded ==
  ASSUME IInv, OneTurn, OutsideOnlyAfterBase, NEW r \in Records
  PROVE  /\ Dials(r) <= 2
         /\ \A a, b \in 1..Len(log) :
              a # b /\ log[a][1] = r /\ log[b][1] = r => Dials(r) = 2
<1> DEFINE S == {i \in 1..Len(log) : log[i][1] = r}
<1>1. ASSUME NEW i \in S, NEW j \in S, NEW k \in S PROVE i = j \/ j = k \/ i = k
  <2>1. CASE ~r.outside
    BY <2>1, NoThreeDials
  <2>2. CASE r.outside
    <3>1. ASSUME NEW a \in S
          PROVE  /\ a - 1 \in 1..Len(log) /\ log[a - 1][1] = Base(r.zone)
      <4>1. a \in 1..Len(log) /\ log[a][1] = r /\ Len(log) \in Nat
        BY LogFacts DEF IInv
      <4>2. a > 1 /\ log[a - 1] = <<Base(r.zone), "dns">>
        BY <2>2, <4>1 DEF OutsideOnlyAfterBase
      <4>3. QED
        BY <4>1, <4>2
    <3>2. ~Base(r.zone).outside
      BY DEF Base
    <3>3. i - 1 = j - 1 \/ j - 1 = k - 1 \/ i - 1 = k - 1
      BY <3>1, <3>2, NoThreeDials
    <3>4. QED
      BY <3>3
  <2>3. QED
    BY <2>1, <2>2, RecordFacts
<1>2. Dials(r) = Cardinality(S)
  BY DEF Dials
<1>3. \A a, b \in 1..Len(log) :
        a # b /\ log[a][1] = r /\ log[b][1] = r => a \in S /\ b \in S
  OBVIOUS
<1> HIDE DEF S
<1>4. QED
  BY <1>1, <1>2, <1>3, AtMostTwo

(* The account of a zone when a walk gives up.                             *)
LEMMA ZoneAccount ==
  ASSUME IInv, DialsOK, OutsideOnlyAfterBase, result = "failed", walk = "cf",
         NEW z \in ZoneSet
  PROVE  /\ Dials(DashOne(z)) = 1
         /\ ~NotFound(DashOne(z)) => Dials(Base(z)) = 1
         /\ NotFound(DashOne(z)) /\ ~RanOut(Base(z)) => Dials(Base(z)) = 2
<1> USE DEF IInv
<1>1. Base(z) \in tried /\ DashOne(z) \in tried
  <2>1. (walk = "cf") = TRUE /\ ListFacts(Full, walk = "cf", is_media)
    BY FullFacts DEF TypeOK
  <2>2. QED
    BY <2>1 DEF ListFacts, DialsOK, Exhausted
<1>2. /\ Base(z) \in Records /\ DashOne(z) \in Records
      /\ DashOne(z).dash_one /\ ~Base(z).outside
      /\ HasBase(DashOne(z)) /\ base_cf_record(DashOne(z)) = Base(z)
      /\ Base(z).zone = z
  BY DEF Records, CfRecords, Base, DashOne, HasBase, base_cf_record
<1>3. ~Busy
  BY DEF Busy
<1>4. PICK b \in 1..Len(log) : log[b][1] = Base(z) /\ ~ForcedRetry(b)
  BY <1>1, <1>3 DEF DialsOK, TurnKept
<1>5. PICK d \in 1..Len(log) : log[d][1] = DashOne(z)
  BY <1>1, <1>3 DEF DialsOK, TurnKept
<1>6. Dials(DashOne(z)) = 1
  <2> DEFINE S == {i \in 1..Len(log) : log[i][1] = DashOne(z)}
  <2>1. d \in S
    BY <1>5
  <2>2. ASSUME NEW i \in S, NEW j \in S PROVE i = j
    <3>1. ~(i < j) /\ ~(j < i)
      BY <1>2 DEF TurnsTaken
    <3>2. QED
      BY <3>1
  <2>3. Dials(DashOne(z)) = Cardinality(S)
    BY DEF Dials
  <2> HIDE DEF S
  <2>4. QED
    BY <2>1, <2>2, <2>3, ExactlyOne
<1>7. ASSUME ~NotFound(DashOne(z)) PROVE Dials(Base(z)) = 1
  <2> DEFINE S == {i \in 1..Len(log) : log[i][1] = Base(z)}
  <2>1. b \in S
    BY <1>4
  <2>2. ASSUME NEW i \in S, ForcedRetry(i) PROVE FALSE
    <3>1. i - 1 \in 1..Len(log) /\ log[i - 1] = <<DashOne(z), "dns">>
      BY <1>2, <2>2, RetryFacts
    <3>2. QED
      BY <1>7, <3>1 DEF NotFound
  <2>3. ASSUME NEW i \in S, NEW j \in S PROVE i = j
    <3>1. ~(i < j) /\ ~(j < i)
      BY <1>2, <2>2 DEF DialsOK, OneTurn
    <3>2. QED
      BY <3>1
  <2>4. Dials(Base(z)) = Cardinality(S)
    BY DEF Dials
  <2> HIDE DEF S
  <2>5. QED
    BY <2>1, <2>3, <2>4, ExactlyOne
<1>8. ASSUME NotFound(DashOne(z)), ~RanOut(Base(z)) PROVE Dials(Base(z)) = 2
  <2>1. PICK k \in 1..Len(log) : log[k] = <<DashOne(z), "dns">>
    BY <1>8 DEF NotFound
  <2>2. log[k][1] = DashOne(z) /\ log[k][2] = "dns" /\ Base(z) \notin timed_out
    BY <1>8, <2>1 DEF TimesKept
  <2>3. k < Len(log) /\ log[k + 1][1] = Base(z)
    BY <1>2, <1>3, <2>2 DEF DialsOK, RetryFollows
  <2>4. k + 1 \in 1..Len(log) /\ k + 1 > 1 /\ (k + 1) - 1 = k
    BY <2>3, LogFacts
  <2>5. ForcedRetry(k + 1)
    BY <1>2, <2>2, <2>3, <2>4 DEF ForcedRetry
  <2>6. k + 1 # b
    BY <1>4, <2>5
  <2>7. QED
    BY <1>2, <1>4, <2>3, <2>4, <2>6, DialsBounded DEF DialsOK
<1>9. QED
  BY <1>6, <1>7, <1>8

(* "That second attempt is load-bearing": a failed walk dialled each -1    *)
(* record once and its base record a second time when the -1 record was    *)
(* not found; no walk dials a record more than twice.                      *)
THEOREM AttemptsAreCounted == Spec => []AttemptsPerRecord
<1>1. Init => DialsOK
  BY DEF Init, DialsOK, OneTurn, TurnKept, RetryFollows, Exhausted
<1>2. IInv /\ DialsOK /\ [Next]_vars => DialsOK'
  <2> SUFFICES ASSUME IInv, DialsOK, [Next]_vars PROVE DialsOK'
    OBVIOUS
  <2>1. CASE Ending
    <3>1. PICK o \in Outcomes : Ends(o)
      BY <2>1, EndFacts DEF IInv
    <3>2. QED
      BY <2>1, <3>1, EndDials
  <2>2. QED
    BY <2>1, StepKinds, NextDials, StillDials
<1>3. IInv /\ DialsOK /\ OutsideOnlyAfterBase => AttemptsPerRecord
  <2> SUFFICES ASSUME IInv, DialsOK, OutsideOnlyAfterBase PROVE AttemptsPerRecord
    OBVIOUS
  <2>1. \A r \in Records : Dials(r) <= 2
    BY DialsBounded DEF DialsOK
  <2>2. QED
    BY <2>1, ZoneAccount DEF AttemptsPerRecord
<1>4. QED
  BY WalkInvariance, OutsideAfterBase, <1>1, <1>2, <1>3, PTL DEF Spec

=============================================================================
