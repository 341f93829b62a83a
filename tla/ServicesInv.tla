----------------------------- MODULE ServicesInv -----------------------------
(***************************************************************************)
(* The inductive invariants of SourceCache and AlertJobs, beside that of   *)
(* AiRouter (AiRouterInv).  TLC checks them on the run of the services and *)
(* ServicesProofs proves them inductive.                                   *)
(***************************************************************************)
EXTENDS AiRouterInv, SourceCache, AlertJobs

-----------------------------------------------------------------------------
(* SourceCache *)

\* The limiter's line: everyone who waits for it, once.
LineSound ==
  /\ queue \in Seq(Callers)
  /\ \A i, j \in DOMAIN queue : queue[i] = queue[j] => i = j

\* How old what a caller carries can be at each await, and that the upstream
\* has answered since.
CarriedSound ==
  \A c \in Callers :
    /\ pc[c] = "log-load" => value[c] <= held[c]
    /\ pc[c] = "store" => value[c] <= Lag + held[c]
    /\ pc[c] = "log-hit" => value[c] <= 2 * Lag + Ttl + held[c]
    /\ Carries(c) => sinceAnswer <= value[c]

\* A row gains in age what it loses of its time to live.
CacheSound ==
  \A k \in Keys : Fresh(k) =>
    row[k].age + row[k].left <= 2 * Lag + Ttl /\ sinceAnswer <= row[k].age

ProbeSound ==
  /\ sinceProbe \in 0 .. 3 /\ sinceAnswer \in 0 .. Never
  /\ status \in {"ok", "degraded"} /\ health # "assumed" =>
       sinceAnswer <= sinceProbe + MaxAge

\* Loads let through in the last t periods of a token, paid for with a full
\* bucket and what it has regained, are no longer in the bucket.
RateSound ==
  /\ grants \in [0 .. Period - 1 -> Nat]
  /\ \A t \in 0 .. Period - 1 :
       Period * SumFunctionOnSet(grants, 0 .. t) + Refilled <= Full + t * MaxCalls

SourceInv ==
  /\ SourceTypeOK
  /\ LineSound /\ CarriedSound /\ CacheSound /\ ProbeSound /\ RateSound

-----------------------------------------------------------------------------
(* AlertJobs *)

Fates == {"none", "open", "committed", "lost"}

RowsTyped ==
  /\ alert \in [Alerts -> AlertStates] /\ sent \in [Subjects -> 0 .. Window]
  /\ processed \subseteq ProcessedRows /\ faults \in 0 .. MaxFaults

RunsTyped ==
  /\ price \in [at : {"idle", "fetch", "fire"}, todo : SUBSET Alerts, done : SUBSET Alerts]
  /\ watch \in [at : {"idle", "fetch", "send"}, todo : SUBSET Subjects, done : SUBSET Subjects]
  /\ news \in [at : {"idle", "ticker", "item", "model", "send"}, left : SUBSET Tickers,
               ticker : Tickers \cup {"none"}, items : SUBSET Urls,
               url : Urls \cup {"none"}, todo : SUBSET {w.user : w \in Watched},
               seen : SUBSET ProcessedRows, done : SUBSET Subjects]

ToldTyped ==
  last \in [Subjects -> [age : 0 .. Window, run : Fates]] /\ asked \in [Urls -> Fates]

\* Whoever has the write lock has something to write.
LockSound ==
  /\ writer = "watch" => watch.done # {}
  /\ writer = "news" => NewsPending
  /\ writer # "price"

\* A run of the price job has sent exactly what is open, and still has to send
\* only what nobody was told; an alert that is still to fire was told to nobody.
PriceSound ==
  /\ price.at # "fire" => price.done = {}
  /\ price.at = "idle" => price.todo = {}
  /\ price.done \cap price.todo = {}
  /\ \A a \in Alerts :
       LET run == last[PriceSubject(a)].run IN
       /\ run = "open" <=> a \in price.done
       /\ alert[a] = "fired" => run = "committed" /\ a \notin price.todo
       /\ a \in price.todo \/ alert[a] \in {"unborn", "active"} =>
            run \in {"none", "open", "lost"}

\* A run of the watchlist sends each subject once.
WatchSound ==
  /\ watch.at # "send" => watch.todo = {} /\ watch.done = {}
  /\ watch.todo \cap watch.done = {}
  /\ \A x \in watch.todo \cup watch.done : x.job = "watch"
  /\ \A x \in Subjects : x.job = "watch" /\ last[x].run = "open" => x \in watch.done

\* A run of the news job comes to each user, ticker and url once.
NewsSound ==
  /\ news.at = "idle" => news = NoNews
  /\ news.at \in {"item", "model", "send"} => news.ticker \in Tickers \ news.left
  /\ news.at \in {"model", "send"} => news.url \in Urls \ news.items
  /\ news.at = "send" => news.todo \subseteq Watchers(news.ticker)
  /\ news.at = "model" => Known(news.url) = {}
  /\ \A x \in news.done :
       /\ x.job = "news" /\ x.ticker \notin news.left
       /\ x.ticker = news.ticker =>
            /\ news.at \in {"item", "model", "send"} => x.url \notin news.items
            /\ x.url = news.url => /\ news.at # "model"
                                   /\ news.at = "send" => x.user \notin news.todo
  /\ \A x \in Subjects : x.job = "news" /\ last[x].run = "open" => x \in news.done

\* What was told and committed is in its row: the row is no older.
AgesSound ==
  \A x \in Subjects :
    x.job # "price" /\ last[x].run = "committed" => sent[x] <= last[x].age

\* What the model was asked is in the session's rows, or in the table's.
AskedSound ==
  \A url \in Urls :
    /\ asked[url] = "open" => \E p \in news.seen : p.url = url
    /\ asked[url] = "committed" => \E p \in processed : p.url = url

JobsInv ==
  /\ RowsTyped /\ RunsTyped /\ ToldTyped /\ LockSound
  /\ PriceSound /\ WatchSound /\ NewsSound /\ AgesSound /\ AskedSound

=============================================================================
