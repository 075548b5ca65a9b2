----------------------------- MODULE MarketFeed -----------------------------
(* The market feed and the threads around it: the poll loop keeps at most one *)
(* refresh of every channel in the air, the handlers that open and edit a     *)
(* trade move the feed to another instrument and refresh it themselves, and a *)
(* tick prices the active trade.  A refresh works on a private copy and is    *)
(* published only to the instrument and the generation that asked for it; a   *)
(* price refresh is published the same way, but appends to the day's bars on  *)
(* the live object.                                                           *)
EXTENDS Naturals, FiniteSets

CONSTANTS
  Codes,            \* instruments
  None,             \* no observation, no trade
  Channels,         \* the channels that are refreshed
  Polled,           \* the jobs the poll loop runs: channels, "price" and "tick"
  Requests,         \* requests that open or edit a trade; each is sent once
  HeavyLock,        \* the resource guard is installed: one heavy refresh at a time
  MaxRefreshes,     \* bound: refreshes of a channel the poll loop starts
  MaxObservations   \* bound: observations the providers return

Poll == "poll"
Callers == Requests \union {Poll}
Fields == {"proxy", "daily", "chain", "iv"}
Kept == {"daily", "chain"}

\* An observation: what it is of, the revision it was asked under, when it was
\* made, and whether it is a tick (a stream's, or a quote) or an indication.
Observation == [code : Codes, revision : Nat, at : Nat, live : BOOLEAN]
Seen == Observation \union {None}

ASSUME FeedAssumption ==
  /\ Channels \subseteq Fields \union {"intraday"}
  /\ Polled \subseteq Channels \union {"price", "tick"}
  /\ None \notin Codes \union Observation /\ Poll \notin Requests
  /\ HeavyLock \in BOOLEAN
  /\ MaxRefreshes \in Nat /\ MaxObservations \in Nat

VARIABLES
  code,         \* instrument_code
  revision,     \* _price_revision, moved by every switch
  price,        \* _published_price
  field,        \* the other published observations
  intraday,     \* instruments whose observations the day's bars hold
  disk,         \* DiskCache: the newest copy of a channel, by instrument
  clock,        \* history: number of observations made, the time of the newest
  generation,   \* _instrument_refresh_generations
  refresh,      \* a refresh, by channel and caller
  quote,        \* the one price refresh
  trade,        \* instrument of the active trade, in the journal
  request,      \* handlers of POST /api/trade and /api/trade/edit
  tick,         \* instrument of the trade a tick has read
  point         \* the newest market point: its trade's instrument and its price's

feedVars == <<code, revision, price, field, intraday>>
refreshVars == <<disk, generation, refresh>>
deskVars == <<trade, request, tick, point>>
vars == <<feedVars, refreshVars, clock, quote, deskVars>>

Tasks == Channels \X Callers

Dimmed(o) == IF o = None THEN None ELSE [o EXCEPT !.live = FALSE]

NoRefresh == [pc |-> "idle", code |-> None, revision |-> 0, generation |-> 0,
              item |-> None, proxy |-> None, original |-> None, bars |-> {}, stores |-> FALSE]
NoQuote == [pc |-> "idle", who |-> None, revision |-> 0, code |-> None, item |-> None, bars |-> {}]
NoRequest == [pc |-> "idle", kind |-> "open", code |-> None, todo |-> {}]

Init ==
  /\ code \in Codes /\ trade \in {None, code}
  /\ revision = 0 /\ price = None /\ intraday = {}
  /\ field = [f \in Fields |-> None]
  /\ disk = [ch \in Kept |-> [c \in Codes |-> None]]
  /\ clock = 0 /\ generation = [ch \in Channels |-> 0]
  /\ refresh = [t \in Tasks |-> NoRefresh] /\ quote = NoQuote
  /\ request = [r \in Requests |-> NoRequest]
  /\ tick = None /\ point = None

-----------------------------------------------------------------------------

\* set_instrument: everything that belonged to the old instrument goes.
SetInstrument(c) ==
  IF c = code THEN UNCHANGED feedVars
  ELSE /\ code' = c /\ revision' = revision + 1
       /\ price' = None /\ intraday' = {}
       /\ field' = [f \in Fields |-> None]

\* A refresh that the resource guard serialises.
Heavy(ch) == ch # "proxy"

HeavyFree(ch) ==
  HeavyLock /\ Heavy(ch) => \A t \in Tasks : Heavy(t[1]) => refresh[t].pc = "idle"

\* The private copy, taken under _intraday_lock.
Capture(ch, who) ==
  /\ refresh[<<ch, who>>].pc = "idle" /\ HeavyFree(ch)
  /\ generation' = [generation EXCEPT ![ch] = @ + 1]
  /\ refresh' = [refresh EXCEPT ![<<ch, who>>] =
       [pc |-> "asked", code |-> code, revision |-> revision, generation |-> generation[ch] + 1,
        item |-> IF ch \in Fields THEN field[ch] ELSE None,
        proxy |-> field["proxy"], original |-> field["proxy"],
        bars |-> intraday, stores |-> FALSE]]
  /\ UNCHANGED <<feedVars, disk, clock, quote>>

PollCaptures(ch) ==
  /\ ch \in Polled /\ generation[ch] < MaxRefreshes
  /\ Capture(ch, Poll)
  /\ UNCHANGED deskVars

\* What a provider says now, of the instrument the refresh asked about.
Fresh(t, live) ==
  [code |-> refresh[t].code, revision |-> refresh[t].revision, at |-> clock + 1, live |-> live]

Observe == clock < MaxObservations /\ clock' = clock + 1

Answer(t, with) ==
  /\ refresh' = [refresh EXCEPT ![t] = with]
  /\ UNCHANGED <<feedVars, disk, generation, quote, deskVars>>

Asked(t, ch) == t[1] = ch /\ refresh[t].pc = "asked"
Answered(t) == [refresh[t] EXCEPT !.pc = "answered"]

\* refresh_proxy_price: the stream's tick, else a REST price; throttled or
\* failed, it keeps what it copied, no longer live, until that is too old.
ProxyAnswers(t) ==
  /\ Asked(t, "proxy")
  /\ \/ \E live \in BOOLEAN :
          Observe /\ Answer(t, [Answered(t) EXCEPT !.item = Fresh(t, live)])
     \/ \E kept \in {Dimmed(refresh[t].item), None} :
          UNCHANGED clock /\ Answer(t, [Answered(t) EXCEPT !.item = kept])

\* What the disk has for a failed fetch, unless it is too old.
FromDisk(t) ==
  {None} \union {IF o = None THEN None ELSE [o EXCEPT !.revision = refresh[t].revision, !.live = FALSE] :
                   o \in {disk[t[1]][refresh[t].code]}}

DailyAnswers(t) ==
  /\ Asked(t, "daily")
  /\ \/ Observe /\ Answer(t, [Answered(t) EXCEPT !.item = Fresh(t, TRUE), !.stores = TRUE])
     \/ \E old \in FromDisk(t) :
          UNCHANGED clock /\ Answer(t, [Answered(t) EXCEPT !.item = old])

\* The chain's spot stands in for the proxy unless the stream is live.
ChainSpot(t) ==
  IF refresh[t].proxy # None /\ refresh[t].proxy.live THEN refresh[t].proxy ELSE Fresh(t, FALSE)

\* refresh_chain: the spot comes first, the chain may still fail after it.
ChainAnswers(t) ==
  /\ Asked(t, "chain")
  /\ \/ /\ Observe
        /\ \/ Answer(t, [Answered(t) EXCEPT !.item = Fresh(t, FALSE), !.stores = TRUE, !.proxy = ChainSpot(t)])
           \/ \E old \in FromDisk(t) :
                Answer(t, [Answered(t) EXCEPT !.item = old, !.proxy = ChainSpot(t)])
     \/ \E old \in FromDisk(t) :
          UNCHANGED clock /\ Answer(t, [Answered(t) EXCEPT !.item = old])

IvAnswers(t) ==
  /\ Asked(t, "iv")
  /\ \/ Observe /\ Answer(t, [Answered(t) EXCEPT !.item = Fresh(t, FALSE)])
     \/ \E kept \in {Dimmed(refresh[t].item), None} :
          UNCHANGED clock /\ Answer(t, [Answered(t) EXCEPT !.item = kept])

\* refresh_intraday replaces the bars; failed, it hands its copy back.
IntradayAnswers(t) ==
  /\ Asked(t, "intraday")
  /\ \/ Observe /\ Answer(t, [Answered(t) EXCEPT !.bars = {refresh[t].code}])
     \/ UNCHANGED clock /\ Answer(t, Answered(t))

\* Mutant: the instrument's name is enough.
CurrentByName(t) ==
  refresh[t].code = code /\ refresh[t].generation = generation[t[1]]

\* Mutant: any refresh of this revision may publish.
CurrentByRevision(t) ==
  refresh[t].code = code /\ refresh[t].revision = revision

Current(t) ==
  /\ refresh[t].code = code /\ refresh[t].revision = revision
  /\ refresh[t].generation = generation[t[1]]

\* Mutant: publications of a channel are not serialised.
AnyPublication(ch) == TRUE

\* The channel's publication lock, held from the first check to the last.
PublicationFree(ch) ==
  \A who \in Callers : refresh[<<ch, who>>].pc \notin {"admitted", "stored"}

Admit(t) ==
  /\ refresh[t].pc = "answered" /\ PublicationFree(t[1])
  /\ refresh' = [refresh EXCEPT ![t] = IF Current(t) THEN [@ EXCEPT !.pc = "admitted"] ELSE NoRefresh]
  /\ UNCHANGED <<feedVars, disk, generation, clock, quote, deskVars>>

\* The row of the daily bars is replaced; of the chains the newest by time is used.
Stored(t) ==
  LET kept == disk[t[1]][refresh[t].code] IN
  IF t[1] = "chain" /\ kept # None /\ kept.at > refresh[t].item.at THEN kept ELSE refresh[t].item

\* The staged writes, outside _intraday_lock: a switch may come before or after.
Store(t) ==
  /\ refresh[t].pc = "admitted"
  /\ disk' = IF refresh[t].stores
             THEN [disk EXCEPT ![t[1]] = [@ EXCEPT ![refresh[t].code] = Stored(t)]]
             ELSE disk
  /\ refresh' = [refresh EXCEPT ![t].pc = "stored"]
  /\ UNCHANGED <<feedVars, generation, clock, quote, deskVars>>

\* Mutant: the chain's spot always goes out with the chain.
ProxyAlways(t) == refresh[t].proxy

\* A chain's spot gives way to whatever was published since.
ProxyWith(t) == IF field["proxy"] = refresh[t].original THEN refresh[t].proxy ELSE field["proxy"]

Published(t) ==
  CASE t[1] = "chain" -> [field EXCEPT !["chain"] = refresh[t].item, !["proxy"] = ProxyWith(t)]
    [] t[1] = "intraday" -> field
    [] OTHER -> [field EXCEPT ![t[1]] = refresh[t].item]

Publish(t) ==
  /\ refresh[t].pc = "stored"
  /\ IF Current(t)
     THEN /\ field' = Published(t)
          /\ intraday' = IF t[1] = "intraday" THEN refresh[t].bars ELSE intraday
     ELSE UNCHANGED <<field, intraday>>
  /\ refresh' = [refresh EXCEPT ![t] = NoRefresh]
  /\ UNCHANGED <<code, revision, price, disk, generation, clock, quote, deskVars>>

-----------------------------------------------------------------------------
\* refresh_price: one owner; whoever finds it taken returns at once.
StartPrice(who) ==
  /\ quote.pc = "idle"
  /\ quote' = [NoQuote EXCEPT !.pc = "started", !.who = who, !.revision = revision, !.item = price]

PollPrices ==
  /\ "price" \in Polled /\ StartPrice(Poll)
  /\ UNCHANGED <<feedVars, refreshVars, clock, deskVars>>

\* The instrument is read when the provider is asked; throttled, nobody is.
AskQuote ==
  /\ quote.pc = "started"
  /\ quote' = [quote EXCEPT !.pc = "asked", !.code = code] \/ quote' = [quote EXCEPT !.pc = "answered"]
  /\ UNCHANGED <<feedVars, refreshVars, clock, deskVars>>

Quoted(live) == [code |-> quote.code, revision |-> quote.revision, at |-> clock + 1, live |-> live]

\* A broker's, spot or stream tick joins the day's bars of the live object.
TickArrives ==
  /\ quote.pc = "asked" /\ Observe
  /\ intraday' = intraday \union {quote.code}
  /\ quote' = [quote EXCEPT !.pc = "trimming", !.item = Quoted(TRUE), !.bars = intraday']
  /\ UNCHANGED <<code, revision, price, field, refreshVars, deskVars>>

\* The list without its old rows, built from the list read before.
TrimBars ==
  /\ quote.pc = "trimming"
  /\ intraday' = quote.bars
  /\ quote' = [quote EXCEPT !.pc = "answered", !.bars = {}]
  /\ UNCHANGED <<code, revision, price, field, refreshVars, clock, deskVars>>

\* An indicative close is no tick; a failure keeps the quote while it is young.
IndicationArrives ==
  /\ quote.pc = "asked"
  /\ \/ Observe /\ quote' = [quote EXCEPT !.pc = "answered", !.item = Quoted(FALSE)]
     \/ \E kept \in {quote.item, Dimmed(quote.item), None} :
          UNCHANGED clock /\ quote' = [quote EXCEPT !.pc = "answered", !.item = kept]
  /\ UNCHANGED <<feedVars, refreshVars, deskVars>>

PublishPrice ==
  /\ quote.pc = "answered"
  /\ price' = IF quote.revision = revision THEN quote.item ELSE price
  /\ quote' = NoQuote
  /\ UNCHANGED <<code, revision, field, intraday, refreshVars, clock, deskVars>>

-----------------------------------------------------------------------------
Goes(r, pc) == request' = [request EXCEPT ![r].pc = pc]

\* POST /api/trade for a setup of instrument c: the feed moves first.
OpenArrives(r) ==
  /\ request[r].pc = "idle"
  /\ \E c \in Codes :
       /\ SetInstrument(c)
       /\ request' = [request EXCEPT ![r] =
            [pc |-> IF c = code THEN "journal" ELSE "quote", kind |-> "open", code |-> c, todo |-> {}]]
  /\ UNCHANGED <<refreshVars, clock, quote, trade, tick, point>>

\* POST /api/trade/edit: the trade's instrument is its setup's.
EditCommits(r) ==
  /\ request[r].pc = "idle" /\ trade # None
  /\ \E c \in Codes :
       /\ trade' = c
       /\ request' = [request EXCEPT ![r] = [pc |-> "follow", kind |-> "edit", code |-> c, todo |-> {}]]
  /\ UNCHANGED <<feedVars, refreshVars, clock, quote, tick, point>>

AfterPrice(r) == IF request[r].kind = "open" THEN "journal" ELSE "refresh"

RequestPrice(r) ==
  /\ request[r].pc = "quote"
  /\ IF quote.pc = "idle" THEN StartPrice(r) /\ Goes(r, "pricing")
     ELSE UNCHANGED quote /\ Goes(r, AfterPrice(r))
  /\ UNCHANGED <<feedVars, refreshVars, clock, trade, tick, point>>

PriceReturns(r) ==
  /\ request[r].pc = "pricing"
  /\ quote.pc = "idle" \/ quote.who # r
  /\ Goes(r, AfterPrice(r))
  /\ UNCHANGED <<feedVars, refreshVars, clock, quote, trade, tick, point>>

\* One trade is open at a time.  A request refused for that, for its levels or
\* for want of a quote leaves the feed where it put it.
JournalOpens(r) ==
  /\ request[r].pc = "journal"
  /\ \/ trade = None /\ trade' = request[r].code /\ Goes(r, "follow")
     \/ UNCHANGED trade /\ Goes(r, "done")
  /\ UNCHANGED <<feedVars, refreshVars, clock, quote, tick, point>>

\* The channels a handler refreshes itself, in this order.
FollowUps == Channels \ {"intraday"}
Rank == [proxy |-> 1, daily |-> 2, chain |-> 3, iv |-> 4]
First(todo) == CHOOSE ch \in todo : \A other \in todo : Rank[ch] <= Rank[other]

\* on_trade_opened and on_trade_edited.
Follow(r) ==
  LET opened == request[r].kind = "open"
      moved == request[r].code # code
  IN
  /\ request[r].pc = "follow"
  /\ SetInstrument(request[r].code)
  /\ request' = [request EXCEPT
       ![r].pc = IF opened THEN "refresh" ELSE IF moved THEN "quote" ELSE "done",
       ![r].todo = IF opened \/ moved THEN FollowUps ELSE {}]
  /\ UNCHANGED <<refreshVars, clock, quote, trade, tick, point>>

RequestRefreshes(r) ==
  /\ request[r].pc = "refresh" /\ request[r].todo # {}
  /\ Capture(First(request[r].todo), r)
  /\ Goes(r, "waiting")
  /\ UNCHANGED <<trade, tick, point>>

RefreshReturns(r) ==
  /\ request[r].pc = "waiting"
  /\ refresh[<<First(request[r].todo), r>>].pc = "idle"
  /\ request' = [request EXCEPT ![r].pc = "refresh", ![r].todo = @ \ {First(@)}]
  /\ UNCHANGED <<feedVars, refreshVars, clock, quote, trade, tick, point>>

RequestEnds(r) ==
  /\ request[r].pc = "refresh" /\ request[r].todo = {}
  /\ Goes(r, "done")
  /\ UNCHANGED <<feedVars, refreshVars, clock, quote, trade, tick, point>>

\* A close or a deletion leaves the feed alone.
TradeCloses ==
  /\ trade # None /\ trade' = None
  /\ UNCHANGED <<feedVars, refreshVars, clock, quote, request, tick, point>>

-----------------------------------------------------------------------------
\* tick_payload reads the active trade first and the quote after it.
TickReadsTrade ==
  /\ "tick" \in Polled /\ tick = None /\ trade # None
  /\ tick' = trade
  /\ UNCHANGED <<feedVars, refreshVars, clock, quote, trade, request, point>>

TickRecordsPoint ==
  /\ tick # None /\ tick' = None
  /\ point' = IF price = None THEN point ELSE [trade |-> tick, price |-> price.code]
  /\ UNCHANGED <<feedVars, refreshVars, clock, quote, trade, request>>

-----------------------------------------------------------------------------
Answers(t) ==
  ProxyAnswers(t) \/ DailyAnswers(t) \/ ChainAnswers(t) \/ IvAnswers(t) \/ IntradayAnswers(t)

PriceStep == AskQuote \/ TickArrives \/ TrimBars \/ IndicationArrives \/ PublishPrice

RequestStep(r) ==
  \/ RequestPrice(r) \/ PriceReturns(r) \/ JournalOpens(r) \/ Follow(r)
  \/ RefreshReturns(r) \/ RequestEnds(r)

TickStep == TickReadsTrade \/ TickRecordsPoint

Next ==
  \/ \E ch \in Channels : PollCaptures(ch)
  \/ \E t \in Tasks : Answers(t) \/ Admit(t) \/ Store(t) \/ Publish(t)
  \/ PollPrices \/ PriceStep
  \/ \E r \in Requests : OpenArrives(r) \/ EditCommits(r) \/ RequestStep(r) \/ RequestRefreshes(r)
  \/ TradeCloses \/ TickStep

Spec == Init /\ [][Next]_vars

-----------------------------------------------------------------------------
TypeOK ==
  /\ code \in Codes /\ revision \in Nat /\ clock \in Nat
  /\ price \in Seen /\ field \in [Fields -> Seen] /\ intraday \subseteq Codes
  /\ disk \in [Kept -> [Codes -> Seen]]
  /\ generation \in [Channels -> Nat]
  /\ refresh \in [Tasks ->
       [pc : {"idle", "asked", "answered", "admitted", "stored"}, code : Codes \union {None},
        revision : Nat, generation : Nat, item : Seen, proxy : Seen, original : Seen,
        bars : SUBSET Codes, stores : BOOLEAN]]
  /\ quote \in [pc : {"idle", "started", "asked", "trimming", "answered"}, who : Callers \union {None},
                revision : Nat, code : Codes \union {None}, item : Seen, bars : SUBSET Codes]
  /\ trade \in Codes \union {None}
  /\ request \in [Requests ->
       [pc : {"idle", "quote", "pricing", "journal", "follow", "refresh", "waiting", "done"},
        kind : {"open", "edit"}, code : Codes \union {None}, todo : SUBSET FollowUps]]
  /\ tick \in Codes \union {None}
  /\ point \in [trade : Codes, price : Codes] \union {None}

\* What is published was asked for by the present instrument since the last
\* switch, even if an earlier one had the same name: neither a slow provider
\* nor its failure nor the copy on disk brings an older answer in.
PublishedIsOfEpoch ==
  \A o \in {price} \union {field[f] : f \in Fields} :
    o # None => o.code = code /\ o.revision = revision

\* Daily bars and chains are never shown before the disk has them or newer ones,
\* so a failed fetch falls back on what was shown or on something newer.
ShownIsOnDisk ==
  \A ch \in Kept : field[ch] # None =>
    /\ disk[ch][code] # None
    /\ field[ch].at <= disk[ch][code].at

Later(old, new) == old # None /\ new # None => old.at <= new.at

\* An older answer never overwrites a newer one on disk, although the write is
\* made outside the market's lock and refreshes of a channel overlap.
DiskNeverGoesBack ==
  [][\A ch \in Kept, c \in Codes :
       disk[ch][c] # None => disk'[ch][c] # None /\ Later(disk[ch][c], disk'[ch][c])]_vars

\* While the instrument stays, a channel never shows an older answer than it did.
ShownNeverGoesBack ==
  [][revision' = revision =>
       /\ Later(price, price')
       /\ \A f \in Fields \ {"proxy"} : Later(field[f], field'[f])]_vars

\* A live tick of the proxy is followed only by what was observed after it: a
\* chain that was being fetched meanwhile does not put its own spot over it.
StreamTickStays ==
  [][revision' = revision /\ field["proxy"] # None /\ field["proxy"].live
       => Later(field["proxy"], field'["proxy"])]_vars

\* The day's bars hold nothing of another instrument.  Known not to hold: a tick
\* that was asked for before a switch joins the bars after it.
BarsOfInstrument == intraday \subseteq {code}

\* A market point is a price of the instrument its trade is on.
PointOfTradeInstrument == point # None => point.trade = point.price
=============================================================================
