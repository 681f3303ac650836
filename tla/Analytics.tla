------------------------------ MODULE Analytics ------------------------------
(***************************************************************************)
(* Counting visitors: POST /hit and GET /stats (routes/analytics.ts), the    *)
(* beacon that reports a page view (web/src/lib/beacon.ts) and the poll job's*)
(* pruning of salts (workers/db/analytics.py).  A hash is the pair it is made*)
(* of; a fresh salt is the number of the request that drew it.               *)
(***************************************************************************)
EXTENDS Api

CONSTANTS
  Views,                 \* page views: each reports itself once
  VisitorOf,             \* VisitorOf[h]: the address and user agent behind a view
  SALT_RETENTION_DAYS,
  MaxDay                 \* bound

ASSUME AnalyticsAssumption ==
  SALT_RETENTION_DAYS \in Nat \ {0} /\ MaxDay \in Nat /\ Views \subseteq Nat /\ Null \notin Nat

VARIABLES
  today,          \* the UTC day
  visitor_salt,   \* day -> salt
  page_hit,       \* rows [view, day, visitor]
  hit             \* hit[h]: where the view's request is
analyticsVars == <<today, visitor_salt, page_hit, hit>>

Days == 0..MaxDay

AnalyticsInit ==
  /\ today = 0
  /\ visitor_salt = [d \in {} |-> Null]
  /\ page_hit = {}
  /\ hit = [h \in Views |-> [pc |-> "unsent", day |-> Null, salt |-> Null, status |-> Null]]

HitGoes(h, fields) == hit' = [hit EXCEPT ![h] = Updated(hit[h], fields)]

-----------------------------------------------------------------------------
(* reportPageView sends JSON as text by sendBeacon, and where that throws as JSON by fetch. *)

KNOWN_PATHS == {"/", "/about/data", "/stats"}

\* The path is the canonical one of a route (lib/route.ts).
Bodies == [type : {"text", "object"}, json : {TRUE}, path : {"/", "/about/data", "/stats"}]

\* pathFromBody: what can be read out of a body.
pathFromBody(body) == IF body.type = "object" \/ body.json THEN body.path ELSE Null

\* The request arrives: the day is the one of this moment.
Hit(h) ==
  /\ hit[h].pc = "unsent"
  /\ \E body \in Bodies :
       IF pathFromBody(body) \in KNOWN_PATHS THEN HitGoes(h, [pc |-> "salt", day |-> today])
       ELSE HitGoes(h, [pc |-> "answered", day |-> today, status |-> StatusOf(badRequest)])
  /\ UNCHANGED <<today, visitor_salt, page_hit, faults>>

SaltOf(day) == IF day \in DOMAIN visitor_salt THEN visitor_salt[day] ELSE Null

\* saltFor: the day's salt, if there is one.
SelectSalt(h) ==
  /\ hit[h].pc = "salt"
  /\ LET salt == SaltOf(hit[h].day)
     IN  IF salt # Null THEN HitGoes(h, [pc |-> "insert", salt |-> salt])
         ELSE HitGoes(h, [pc |-> "offer"])
  /\ UNCHANGED <<today, visitor_salt, page_hit, faults>>

\* INSERT ... ON CONFLICT DO NOTHING.
Offered(h) ==
  [d \in DOMAIN visitor_salt \cup {hit[h].day} |-> IF d \in DOMAIN visitor_salt THEN visitor_salt[d] ELSE h]

OfferSalt(h) ==
  /\ hit[h].pc = "offer"
  /\ visitor_salt' = Offered(h)
  /\ HitGoes(h, [pc |-> "settle"])
  /\ UNCHANGED <<today, page_hit, faults>>

\* Variant: the salt that was drawn is used, whichever was there first.
SettleOwnSalt(h) ==
  /\ hit[h].pc = "settle"
  /\ HitGoes(h, [pc |-> "insert", salt |-> h])
  /\ UNCHANGED <<today, visitor_salt, page_hit, faults>>

\* And what is there now, whoever offered it.
SettleSalt(h) ==
  /\ hit[h].pc = "settle"
  /\ LET salt == SaltOf(hit[h].day)
     IN  IF salt = Null
         THEN HitGoes(h, [pc |-> "answered", status |-> StatusOf(unavailable)])
         ELSE HitGoes(h, [pc |-> "insert", salt |-> salt])
  /\ UNCHANGED <<today, visitor_salt, page_hit, faults>>

visitorHash(salt, visitor) == <<salt, visitor>>

Inserted(h) ==
  page_hit \cup {[view |-> h, day |-> hit[h].day, visitor |-> visitorHash(hit[h].salt, VisitorOf[h])]}

InsertHit(h) ==
  /\ hit[h].pc = "insert"
  /\ page_hit' = Inserted(h)
  /\ HitGoes(h, [pc |-> "answered", status |-> 204])
  /\ UNCHANGED <<today, visitor_salt, faults>>

\* A statement is cut off or refused, or the connection breaks over an INSERT that is committed
\* all the same: the error ends the handler.
HitThrows(h, error) == Faulty /\ HitGoes(h, [pc |-> "answered", status |-> StatusOf(error)])

HitFails(h) ==
  /\ \/ /\ hit[h].pc \in {"salt", "offer", "settle", "insert"}
        /\ \E error \in {timedOut, dbError} : HitThrows(h, error)
        /\ UNCHANGED <<visitor_salt, page_hit>>
     \/ hit[h].pc = "offer" /\ HitThrows(h, dbError) /\ visitor_salt' = Offered(h) /\ UNCHANGED page_hit
     \/ hit[h].pc = "insert" /\ HitThrows(h, dbError) /\ page_hit' = Inserted(h) /\ UNCHANGED visitor_salt
  /\ UNCHANGED today

\* A request does not last a day.
Midnight ==
  /\ today < MaxDay
  /\ \A h \in Views : hit[h].pc \notin {"unsent", "answered"} => hit[h].day = today
  /\ today' = today + 1
  /\ UNCHANGED <<visitor_salt, page_hit, hit, faults>>

\* prune_visitor_salts, in a poll's transaction.
Prune ==
  /\ visitor_salt' = [d \in {d \in DOMAIN visitor_salt : d >= today - SALT_RETENTION_DAYS} |-> visitor_salt[d]]
  /\ UNCHANGED <<today, page_hit, hit, faults>>

HandleHit(h) == Hit(h) \/ SelectSalt(h) \/ OfferSalt(h) \/ SettleSalt(h) \/ InsertHit(h) \/ HitFails(h)

AnalyticsNext == Midnight \/ Prune \/ \E h \in Views : HandleHit(h)

-----------------------------------------------------------------------------
(* GET /stats. *)

DailyRows ==
  [d \in {row.day : row \in page_hit} |->
     LET rows == {row \in page_hit : row.day = d}
     IN  [views |-> Cardinality(rows), visitors |-> Cardinality({row.visitor : row \in rows})]]

Stats ==
  LET sum(days, field) == SumFunction([d \in days \cap DOMAIN DailyRows |-> DailyRows[d][field]])
      spans == [today |-> {today}, week |-> (today - 6)..today, all |-> Days]
  IN  [views    |-> [s \in DOMAIN spans |-> sum(spans[s], "views")],
       visitors |-> [s \in DOMAIN spans |-> sum(spans[s], "visitors")]]

\* A view that was accepted is counted, once, and its visitor once on each day of a view, however
\* many requests of a day draw a salt at once, around midnight, and where a statement fails
\* between two others; no two days share a hash.  No more views are refused than statements
\* failed: what a handler before it left undone refuses none (analytics.ts:49,
\* 0007_analytics.up.sql:13).
VisitorsAreCountedOnce ==
  LET answered == {h \in Views : hit[h].pc = "answered"}
      accepted == {h \in answered : hit[h].status = 204}
      counted  == {row.view : row \in page_hit}
      VisitorsOn(d) == {VisitorOf[h] : h \in {h \in counted : hit[h].day = d}}
  IN  /\ accepted \subseteq counted /\ counted \subseteq answered
      /\ Cardinality(answered \ accepted) <= faults
      /\ Stats.views.all = Cardinality(counted)
      /\ Stats.visitors.all = SumFunction([d \in Days |-> Cardinality(VisitorsOn(d))])
      /\ Stats.visitors.today = Cardinality(VisitorsOn(today))
      /\ \A r1, r2 \in page_hit : r1.day # r2.day => r1.visitor # r2.visitor
=============================================================================
