------------------------------ MODULE AlertJobs ------------------------------
(***************************************************************************)
(* The three jobs that message users (telegram/jobs/): price alerts, the   *)
(* watchlist monitor and the news monitor, with the /watch handlers that   *)
(* create and delete alerts beside them.                                   *)
(*                                                                         *)
(* Each job does a whole run in one database session: it sends as it goes  *)
(* and commits once, at the end.  The first flush of a session takes       *)
(* SQLite's write lock (variable writer) and keeps it until then, across   *)
(* the sends and the model calls of the rest of the run; whoever else      *)
(* writes waits for it, 30 seconds at most, and then fails, and a run that *)
(* fails rolls back what it has already sent.  A run takes minutes, the    *)
(* windows are days: time passes between runs.                             *)
(***************************************************************************)
EXTENDS Integers, FiniteSets

CONSTANTS
  Alerts,      \* price alerts: [ticker, op, target]
  Prices,      \* the prices a ticker can have
  Watched,     \* watchlist items: [user, ticker]
  Snapshots,   \* what the market can show of a ticker: [rsi, change]
  Urls,        \* the news a feed can carry
  Sentiments,  \* what the model can make of them
  Window,      \* the 24 hours of _DEDUP_WINDOW
  MaxFaults    \* restarts, and model replies that raise

ASSUME AlertAssumption == Window \in Nat \ {0} /\ MaxFaults \in Nat

VARIABLES
  alert,      \* the price_alerts rows: "unborn", "active", "fired", "deleted"
  sent,       \* the sent_alerts rows: the age of each subject's latest
  processed,  \* the processed_news rows: url and sentiment
  writer,     \* who holds SQLite's write lock
  price,      \* the price job: what it awaits, what is left, what it has sent
  watch,      \* the watchlist job, likewise
  news,       \* the news job: also where it is and what it has classified
  last,       \* the last message that arrived about each subject: its age
              \* and what has become of the run that sent it
  asked,      \* what has become of the run that last classified each url
  faults

jobVars == <<alert, sent, processed, writer, price, watch, news, last, asked, faults>>

None == -1     \* a price or an indicator that could not be had
Kinds == {"rsi_oversold", "rsi_overbought", "big_move"}
Tickers == {w.ticker : w \in Watched}
Watchers(t) == {w.user : w \in {v \in Watched : v.ticker = t}}

\* What a user can be messaged about: the alert_type of a sent_alerts row.
PriceSubject(a) == [job |-> "price", ticker |-> a.ticker, alert |-> a]
WatchSubject(u, t, k) == [job |-> "watch", user |-> u, ticker |-> t, kind |-> k]
NewsSubject(u, t, url) == [job |-> "news", user |-> u, ticker |-> t, url |-> url]
Subjects ==
  {PriceSubject(a) : a \in Alerts}
    \cup {WatchSubject(w.user, w.ticker, k) : w \in Watched, k \in Kinds}
    \cup {NewsSubject(w.user, w.ticker, url) : w \in Watched, url \in Urls}

AlertStates == {"unborn", "active", "fired", "deleted"}
ProcessedRows == [url : Urls, sentiment : Sentiments]

NoRun == [at |-> "idle", todo |-> {}, done |-> {}]
NoNews == [at |-> "idle", left |-> {}, ticker |-> "none", items |-> {}, url |-> "none",
           todo |-> {}, seen |-> {}, done |-> {}]

JobsInit ==
  /\ alert = [a \in Alerts |-> "unborn"]
  /\ sent = [x \in Subjects |-> Window]
  /\ processed = {}
  /\ writer = "none"
  /\ price = NoRun /\ watch = NoRun /\ news = NoNews
  /\ last = [x \in Subjects |-> [age |-> Window, run |-> "none"]]
  /\ asked = [url \in Urls |-> "none"]
  /\ faults = 0

-----------------------------------------------------------------------------
(* Sessions *)

CanWrite(job) == writer \in {"none", job}

\* What the code has added to its session is flushed before its next query,
\* which takes the write lock.
Flush(job, pending) ==
  IF pending THEN CanWrite(job) /\ writer' = job ELSE UNCHANGED writer

Release(job) == writer' = IF writer = job THEN "none" ELSE writer

Settle(job, outcome) ==
  [x \in Subjects |-> IF x.job = job /\ last[x].run = "open"
                      THEN [last[x] EXCEPT !.run = outcome] ELSE last[x]]

\* A message is tried; whether it arrives the job may or may not care.
Message(x, arrives) ==
  last' = IF arrives THEN [last EXCEPT ![x] = [age |-> 0, run |-> "open"]] ELSE last

\* Mutant of WasRecentlySent: the window is cut short by a unit.
WasJustSent(x) == sent[x] < Window - 1

WasRecentlySent(x) == sent[x] < Window

Stamp(done) == [x \in Subjects |-> IF x \in done THEN 0 ELSE sent[x]]

-----------------------------------------------------------------------------
(* Price alerts *)

ConditionMet(a, p) == IF a.op = ">" THEN p > a.target ELSE p < a.target

PriceStart ==
  LET active == {a \in Alerts : alert[a] = "active"} IN
  /\ price.at = "idle" /\ active # {}
  /\ price' = [NoRun EXCEPT !.at = "fetch", !.todo = active]
  /\ UNCHANGED <<alert, sent, processed, writer, watch, news, last, asked, faults>>

AlertTickers == {a.ticker : a \in Alerts}
Quotes == [AlertTickers -> Prices \cup {None}]

\* Mutant of FetchPrices: one ticker's failed fetch ends the run.
FetchAllPrices(p) ==
  /\ price.at = "fetch"
  /\ price' = [price EXCEPT !.at = "fire",
       !.todo = {a \in @ : \A t \in AlertTickers : p[t] # None /\ ConditionMet(a, p[a.ticker])}]
  /\ UNCHANGED <<alert, sent, processed, writer, watch, news, last, asked, faults>>

\* One price for each ticker; a ticker that fails is left out.
FetchPrices(p) ==
  /\ price.at = "fetch"
  /\ price' = [price EXCEPT !.at = "fire",
       !.todo = {a \in @ : p[a.ticker] # None /\ ConditionMet(a, p[a.ticker])}]
  /\ UNCHANGED <<alert, sent, processed, writer, watch, news, last, asked, faults>>

\* Mutant of Fire: _fire goes on after a send that failed.
FireAnyway(a, arrives) ==
  /\ price.at = "fire" /\ a \in price.todo
  /\ Message(PriceSubject(a), arrives)
  /\ price' = [price EXCEPT !.todo = @ \ {a}, !.done = @ \cup {a}]
  /\ UNCHANGED <<alert, sent, processed, writer, watch, news, asked, faults>>

\* A message that fails leaves its alert active.
Fire(a, arrives) ==
  /\ price.at = "fire" /\ a \in price.todo
  /\ Message(PriceSubject(a), arrives)
  /\ price' = [price EXCEPT !.todo = @ \ {a}, !.done = IF arrives THEN @ \cup {a} ELSE @]
  /\ UNCHANGED <<alert, sent, processed, writer, watch, news, asked, faults>>

PriceCommit ==
  /\ price.at = "fire" /\ price.todo = {}
  /\ price.done # {} => writer = "none"
  /\ alert' = [a \in Alerts |-> IF a \in price.done THEN "fired" ELSE alert[a]]
  /\ last' = Settle("price", "committed")
  /\ price' = NoRun
  /\ UNCHANGED <<sent, processed, writer, watch, news, asked, faults>>

PriceCommitFails ==
  /\ price.at = "fire" /\ price.todo = {} /\ price.done # {}
  /\ writer # "none"
  /\ last' = Settle("price", "lost")
  /\ price' = NoRun
  /\ UNCHANGED <<alert, sent, processed, writer, watch, news, asked, faults>>

\* /watch and the delete button: a session each, committed at once.
CreateAlert(a) ==
  /\ alert[a] = "unborn" /\ writer = "none"
  /\ alert' = [alert EXCEPT ![a] = "active"]
  /\ UNCHANGED <<sent, processed, writer, price, watch, news, last, asked, faults>>

DeleteAlert(a) ==
  /\ alert[a] = "active" /\ writer = "none"
  /\ alert' = [alert EXCEPT ![a] = "deleted"]
  /\ UNCHANGED <<sent, processed, writer, price, watch, news, last, asked, faults>>

-----------------------------------------------------------------------------
(* Watchlist *)

DetectAnomalies(s) ==
  {k \in Kinds :
     \/ k = "rsi_oversold" /\ s.rsi # None /\ s.rsi < 30
     \/ k = "rsi_overbought" /\ s.rsi > 70
     \/ k = "big_move" /\ s.change # None /\ (s.change >= 5 \/ -s.change >= 5)}

\* _fetch_snapshots: a ticker whose fetch fails shows nothing.
Shown == [Tickers -> Snapshots \cup {[rsi |-> None, change |-> None]}]

WatchStart ==
  /\ watch.at = "idle" /\ Watched # {}
  /\ watch' = [NoRun EXCEPT !.at = "fetch"]
  /\ UNCHANGED <<alert, sent, processed, writer, price, news, last, asked, faults>>

FetchSnapshots ==
  /\ watch.at = "fetch"
  /\ \E s \in Shown :
       watch' = [watch EXCEPT !.at = "send",
         !.todo = UNION {{WatchSubject(w.user, w.ticker, k) : k \in DetectAnomalies(s[w.ticker])} :
                           w \in Watched}]
  /\ UNCHANGED <<alert, sent, processed, writer, price, news, last, asked, faults>>

\* The message that fails is recorded as sent like the one that arrives.
WatchSend(x, arrives) ==
  /\ watch.at = "send" /\ x \in watch.todo
  /\ Flush("watch", watch.done # {})
  /\ IF WasRecentlySent(x)
     THEN /\ watch' = [watch EXCEPT !.todo = @ \ {x}]
          /\ UNCHANGED last
     ELSE /\ watch' = [watch EXCEPT !.todo = @ \ {x}, !.done = @ \cup {x}]
          /\ Message(x, arrives)
  /\ UNCHANGED <<alert, sent, processed, price, news, asked, faults>>

WatchCommit ==
  /\ watch.at = "send" /\ watch.todo = {}
  /\ watch.done # {} => CanWrite("watch")
  /\ sent' = Stamp(watch.done)
  /\ last' = Settle("watch", "committed")
  /\ watch' = NoRun /\ Release("watch")
  /\ UNCHANGED <<alert, processed, price, news, asked, faults>>

WatchFails ==
  /\ watch.at = "send" /\ watch.done # {} /\ ~CanWrite("watch")
  /\ last' = Settle("watch", "lost")
  /\ watch' = NoRun
  /\ UNCHANGED <<alert, sent, processed, writer, price, news, asked, faults>>

-----------------------------------------------------------------------------
(* News *)

Known(url) == {p \in processed \cup news.seen : p.url = url}
NewsPending == news.seen # {} \/ news.done # {}

NewsStart ==
  /\ news.at = "idle" /\ Watched # {}
  /\ news' = [NoNews EXCEPT !.at = "ticker", !.left = Tickers]
  /\ UNCHANGED <<alert, sent, processed, writer, price, watch, last, asked, faults>>

\* What the service finds of a ticker: Finnhub's news, else the feeds' items
\* that name it; nothing when both fail.
Found == SUBSET Urls

\* The feed may fail, and it does whenever it has to store what it has
\* fetched while this run holds the lock.
FetchNews(t) ==
  /\ news.at = "ticker" /\ t \in news.left
  /\ \E got \in Found :
       news' = [news EXCEPT !.left = @ \ {t}, !.ticker = t, !.items = got,
                            !.at = IF got = {} THEN "ticker" ELSE "item"]
  /\ UNCHANGED <<alert, sent, processed, writer, price, watch, last, asked, faults>>

Pushed(s) == s \in {"bullish", "bearish"}

\* After an item: its watchers if it is worth a message, else the next one.
Proceed(n, s) ==
  IF Pushed(s) THEN [n EXCEPT !.at = "send", !.todo = Watchers(n.ticker)]
  ELSE [n EXCEPT !.at = IF n.items = {} THEN "ticker" ELSE "item"]

TakeItem(url) ==
  /\ news.at = "item" /\ url \in news.items
  /\ Flush("news", NewsPending)
  /\ LET n == [news EXCEPT !.items = @ \ {url}, !.url = url] IN
     IF Known(url) = {} THEN news' = [n EXCEPT !.at = "model"]
     ELSE \E p \in Known(url) : news' = Proceed(n, p.sentiment)
  /\ UNCHANGED <<alert, sent, processed, price, watch, last, asked, faults>>

\* The router logs each attempt in a session of its own.  Once this run has
\* the lock that cannot succeed: it ends well only if no provider was tried.
Classify(s) ==
  /\ news.at = "model"
  /\ CanWrite("news") /\ (writer = "news" => s = "neutral")
  /\ news' = Proceed([news EXCEPT !.seen = @ \cup {[url |-> news.url, sentiment |-> s]}], s)
  /\ writer' = "news"
  /\ asked' = [asked EXCEPT ![news.url] = "open"]
  /\ UNCHANGED <<alert, sent, processed, price, watch, last, faults>>

NewsSend(u, arrives) ==
  LET x == NewsSubject(u, news.ticker, news.url)
      n == [news EXCEPT !.todo = @ \ {u}] IN
  /\ news.at = "send" /\ u \in news.todo
  /\ Flush("news", NewsPending)
  /\ IF WasRecentlySent(x)
     THEN /\ news' = n
          /\ UNCHANGED last
     ELSE /\ news' = [n EXCEPT !.done = @ \cup {x}]
          /\ Message(x, arrives)
  /\ UNCHANGED <<alert, sent, processed, price, watch, asked, faults>>

ItemDone ==
  /\ news.at = "send" /\ news.todo = {}
  /\ news' = [news EXCEPT !.at = IF news.items = {} THEN "ticker" ELSE "item"]
  /\ UNCHANGED <<alert, sent, processed, writer, price, watch, last, asked, faults>>

SettleUrls(outcome) ==
  [url \in Urls |-> IF asked[url] = "open" THEN outcome ELSE asked[url]]

NewsCommit ==
  /\ news.at = "ticker" /\ news.left = {}
  /\ NewsPending => CanWrite("news")
  /\ processed' = processed \cup news.seen
  /\ sent' = Stamp(news.done)
  /\ last' = Settle("news", "committed")
  /\ asked' = SettleUrls("committed")
  /\ news' = NoNews /\ Release("news")
  /\ UNCHANGED <<alert, price, watch, faults>>

\* The session is rolled back, and the messages stay sent.
NewsAborts ==
  /\ last' = Settle("news", "lost")
  /\ asked' = SettleUrls("lost")
  /\ news' = NoNews /\ Release("news")

\* Where the session is about to query or to commit.
AtStatement ==
  \/ news.at = "item"
  \/ news.at = "send" /\ news.todo # {}
  \/ news.at = "ticker" /\ news.left = {}

\* "database is locked": another run has the lock, or this one has it and
\* the router's row waits for it.
NewsFails ==
  /\ \/ news.at = "model" /\ writer # "none"
     \/ AtStatement /\ NewsPending /\ ~CanWrite("news")
  /\ NewsAborts
  /\ UNCHANGED <<alert, sent, processed, price, watch, faults>>

\* A provider's reply without choices raises through the router.
ModelRaises ==
  /\ news.at = "model" /\ faults < MaxFaults
  /\ faults' = faults + 1
  /\ NewsAborts
  /\ UNCHANGED <<alert, sent, processed, price, watch>>

-----------------------------------------------------------------------------

Restart ==
  /\ faults < MaxFaults
  /\ faults' = faults + 1
  /\ price' = NoRun /\ watch' = NoRun /\ news' = NoNews
  /\ writer' = "none"
  /\ last' = [x \in Subjects |-> IF last[x].run = "open" THEN [last[x] EXCEPT !.run = "lost"] ELSE last[x]]
  /\ asked' = SettleUrls("lost")
  /\ UNCHANGED <<alert, sent, processed>>

Aged(n) == IF n = Window THEN Window ELSE n + 1

TimePasses ==
  /\ price.at = "idle" /\ watch.at = "idle" /\ news.at = "idle"
  /\ sent' = [x \in Subjects |-> Aged(sent[x])]
  /\ last' = [x \in Subjects |-> [last[x] EXCEPT !.age = Aged(@)]]
  /\ UNCHANGED <<alert, processed, writer, price, watch, news, asked, faults>>

PriceStep ==
  \/ PriceStart \/ PriceCommit \/ PriceCommitFails
  \/ \E p \in Quotes : FetchPrices(p)
  \/ \E a \in Alerts, arrives \in BOOLEAN : Fire(a, arrives)

WatchStep ==
  \/ WatchStart \/ FetchSnapshots \/ WatchCommit \/ WatchFails
  \/ \E x \in Subjects, arrives \in BOOLEAN : WatchSend(x, arrives)

NewsStep ==
  \/ NewsStart \/ ItemDone \/ NewsCommit \/ NewsFails \/ ModelRaises
  \/ \E t \in Tickers : FetchNews(t)
  \/ \E url \in Urls : TakeItem(url)
  \/ \E s \in Sentiments : Classify(s)
  \/ \E w \in Watched, arrives \in BOOLEAN : NewsSend(w.user, arrives)

JobsNext ==
  \/ PriceStep \/ WatchStep \/ NewsStep
  \/ \E a \in Alerts : CreateAlert(a) \/ DeleteAlert(a)
  \/ Restart
  \/ TimePasses

-----------------------------------------------------------------------------
(* Properties *)

JobsTypeOK ==
  /\ alert \in [Alerts -> AlertStates]
  /\ sent \in [Subjects -> 0..Window]
  /\ processed \cup news.seen \subseteq ProcessedRows
  /\ price.at \in {"idle", "fetch", "fire"} /\ price.todo \cup price.done \subseteq Alerts
  /\ watch.at \in {"idle", "fetch", "send"} /\ watch.todo \cup watch.done \subseteq Subjects
  /\ news.at \in {"idle", "ticker", "item", "model", "send"} /\ news.done \subseteq Subjects
  /\ writer = "watch" => watch.done # {}
  /\ writer = "news" => NewsPending
  /\ writer # "price"
  /\ faults \in 0..MaxFaults

\* An alert is switched off by a run only when its message has arrived
\* (telegram/jobs/price_alerts.py:107): a send that fails is made up for,
\* whatever else the same run sends, and whoever else writes meanwhile.
AlertEndsDelivered ==
  JobsTypeOK /\ \A a \in Alerts : alert[a] = "fired" => last[PriceSubject(a)].run = "committed"

Arrives(x) == last'[x] # last[x] /\ last'[x] = [age |-> 0, run |-> "open"]

\* A user hears of the same thing again, within the window or, of a price
\* alert, ever, only if the run that told them was lost before its commit
\* (price_alerts.py:55, watchlist_monitor.py:63, news_monitor.py:117): by a
\* restart, or because another run had the write lock for too long.  Nor is
\* the model asked about a url again for any other reason: the row outlives
\* the run, and other tickers carry the url too (news_monitor.py:85).
RepeatsNeedALostRun ==
  [][/\ \A x \in Subjects : Arrives(x) =>
          \/ last[x].run \in {"none", "lost"}
          \/ x.job # "price" /\ last[x].age >= Window
     /\ \A url \in Urls : asked'[url] = "open" /\ asked[url] # "open" =>
          asked[url] \in {"none", "lost"}]_jobVars

\* news_monitor.py:7-8: "a URL is processed at most once across all watchers".
UrlIsProcessedOnce ==
  [][\A url \in Urls : asked'[url] = "open" /\ asked[url] # "open" =>
        asked[url] = "none"]_jobVars

\* The alerts whose condition every price meets.
Due == {a \in Alerts : \A p \in Prices : ConditionMet(a, p)}

\* An alert that stays due is sent unless it is deleted, although sends fail
\* now and then, other tickers' prices may never be had
\* (price_alerts.py:69-75) and runs are lost to the lock.
EveryDueAlertIsSent ==
  \A a \in Due :
    alert[a] = "active" ~> (last[PriceSubject(a)].run # "none" \/ alert[a] = "deleted")

\* The scheduler starts the job again and again, a price is had again and
\* again, and a user is reached again and again.  The lock needs no fairness:
\* who waits for it gives up after its 30 seconds.
JobsFairness ==
  /\ WF_jobVars(PriceStep)
  /\ \A a \in Due : SF_jobVars(Fire(a, TRUE))
  /\ \A a \in Due : SF_jobVars(\E p \in Quotes : p[a.ticker] # None /\ FetchPrices(p))

JobsSpec == JobsInit /\ [][JobsNext]_jobVars /\ JobsFairness

=============================================================================
