-------------------------- MODULE MarketFeedProofs --------------------------
(***************************************************************************)
(* What the feed publishes and keeps, for any instruments, channels,        *)
(* requests and numbers of refreshes and observations.                      *)
(***************************************************************************)
EXTENDS MarketFeed, TLAPS

Refreshes ==
  [pc : {"idle", "asked", "answered", "admitted", "stored"}, code : Codes \union {None},
   revision : Nat, generation : Nat, item : Seen, proxy : Seen, original : Seen,
   bars : SUBSET Codes, stores : BOOLEAN]
Quotes ==
  [pc : {"idle", "started", "asked", "trimming", "answered"}, who : Callers \union {None},
   revision : Nat, code : Codes \union {None}, item : Seen, bars : SUBSET Codes]
RequestRecords ==
  [pc : {"idle", "quote", "pricing", "journal", "follow", "refresh", "waiting", "done"},
   kind : {"open", "edit"}, code : Codes \union {None}, todo : SUBSET FollowUps]

\* Whatever is under way is under way for an instrument.
Named ==
  /\ \A t \in Tasks : refresh[t].pc # "idle" => refresh[t].code \in Codes
  /\ quote.pc \in {"asked", "trimming"} => quote.code \in Codes
  /\ \A r \in Requests : request[r].pc # "idle" => request[r].code \in Codes

Typed == TypeOK /\ Named

-----------------------------------------------------------------------------
(* Types.                                                                  *)

LEMMA TypeParts ==
  TypeOK =>
    /\ refresh \in [Tasks -> Refreshes] /\ quote \in Quotes
    /\ request \in [Requests -> RequestRecords]
BY DEF TypeOK, Refreshes, Quotes, RequestRecords

LEMMA TaskParts ==
  ASSUME NEW t \in Tasks PROVE t[1] \in Channels /\ t[2] \in Callers /\ t = <<t[1], t[2]>>
BY DEF Tasks

LEMMA Blanks == NoRefresh \in Refreshes /\ NoQuote \in Quotes /\ NoRequest \in RequestRecords
<1>1. None \in Seen
  BY DEF Seen
<1> QED BY <1>1 DEF NoRefresh, NoQuote, NoRequest, Refreshes, Quotes, RequestRecords

\* A channel to refresh next is one of those left.
LEMMA FirstIsLeft ==
  ASSUME NEW todo \in SUBSET FollowUps, todo # {}
  PROVE  First(todo) \in todo /\ First(todo) \in Channels /\ First(todo) \in Fields
<1>1. todo \subseteq {"proxy", "daily", "chain", "iv"} /\ todo \subseteq Channels
  BY FeedAssumption DEF FollowUps, Fields
<1>2. \E ch \in todo : \A other \in todo : Rank[ch] <= Rank[other]
  <2>1. Rank["proxy"] = 1 /\ Rank["daily"] = 2 /\ Rank["chain"] = 3 /\ Rank["iv"] = 4
    BY DEF Rank
  <2>2. CASE "proxy" \in todo
    BY <1>1, <2>1, <2>2
  <2>3. CASE "proxy" \notin todo /\ "daily" \in todo
    BY <1>1, <2>1, <2>3
  <2>4. CASE "proxy" \notin todo /\ "daily" \notin todo /\ "chain" \in todo
    BY <1>1, <2>1, <2>4
  <2>5. CASE todo = {"iv"}
    BY <2>1, <2>5
  <2> QED BY <1>1, <2>2, <2>3, <2>4, <2>5
<1>3. First(todo) \in todo
  BY <1>2 DEF First
<1> QED BY <1>1, <1>3 DEF Fields

LEMMA DimmedSeen ==
  ASSUME NEW o \in Seen
  PROVE  /\ Dimmed(o) \in Seen
         /\ Dimmed(o) # None =>
              o # None /\ o \in Observation /\ Dimmed(o).code = o.code
              /\ Dimmed(o).revision = o.revision /\ Dimmed(o).at = o.at
<1>1. CASE o = None
  BY <1>1 DEF Dimmed, Seen
<1>2. CASE o # None
  <2>1. o \in Observation /\ Dimmed(o) = [o EXCEPT !.live = FALSE]
    BY <1>2 DEF Seen, Dimmed
  <2> QED BY <1>2, <2>1 DEF Observation, Seen
<1> QED BY <1>1, <1>2

LEMMA InitTypes == Init => Typed
<1> SUFFICES ASSUME Init PROVE Typed
  OBVIOUS
<1>1. /\ refresh \in [Tasks -> Refreshes] /\ quote \in Quotes
      /\ request \in [Requests -> RequestRecords]
  BY Blanks DEF Init
<1>2. TypeOK
  <2>1. field \in [Fields -> Seen] /\ disk \in [Kept -> [Codes -> Seen]] /\ price \in Seen
    BY DEF Init, Seen
  <2> QED BY <1>1, <2>1 DEF Init, TypeOK, Refreshes, Quotes, RequestRecords
<1>3. Named
  BY DEF Init, Named, NoRefresh, NoQuote, NoRequest
<1> QED BY <1>2, <1>3 DEF Typed

\* An answered refresh: only its item, its spot, its bars and whether it has
\* something to store are new.
Reply(t, i, p, b, s) ==
  refresh' = [refresh EXCEPT ![t] =
    [@ EXCEPT !.pc = "answered", !.item = i, !.proxy = p, !.bars = b, !.stores = s]]

\* What a refresh carries was asked for by it.
Own(o, r) == o # None => o.code = r.code /\ o.revision = r.revision

\* What the answers of all channels have in common: a new observation is the
\* newest, anything else is a copy or comes from the disk.
LEMMA AnswerShape ==
  ASSUME Typed, NEW t \in Tasks, Answers(t),
         \A ch \in Kept, c \in Codes : disk[ch][c] # None => disk[ch][c].code = c,
         Own(refresh[t].item, refresh[t]), Own(refresh[t].proxy, refresh[t]),
         ~refresh[t].stores
  PROVE  /\ refresh[t].pc = "asked"
         /\ UNCHANGED <<feedVars, disk, generation, quote, deskVars>>
         /\ clock' \in {clock, clock + 1}
         /\ \E i \in Seen, p \in Seen, b \in SUBSET Codes, s \in BOOLEAN :
              /\ Reply(t, i, p, b, s)
              /\ Own(i, refresh[t]) /\ Own(p, refresh[t])
              /\ s => t[1] \in Kept /\ i \in Observation /\ i.at = clock + 1 /\ clock' = clock + 1
              /\ i # None => \/ i.at = clock + 1 /\ clock' = clock + 1
                             \/ t[1] \in Fields \ Kept /\ refresh[t].item # None /\ i.at = refresh[t].item.at
                             \/ t[1] \notin Fields /\ i = refresh[t].item
                             \/ t[1] \in Kept /\ disk[t[1]][refresh[t].code] # None
                                /\ i.at = disk[t[1]][refresh[t].code].at
              /\ ~s /\ t[1] \in Kept /\ i # None =>
                   disk[t[1]][refresh[t].code] # None /\ i.at = disk[t[1]][refresh[t].code].at
<1> DEFINE r == refresh[t]
<1>1. refresh \in [Tasks -> Refreshes] /\ r \in Refreshes
  BY TypeParts DEF Typed
<1>2. r.pc = "asked" /\ r.code \in Codes /\ r.revision \in Nat /\ r.item \in Seen /\ r.proxy \in Seen
      /\ r.bars \in SUBSET Codes /\ clock \in Nat /\ t[1] \in Channels
  <2>1. r.pc = "asked"
    BY DEF Answers, ProxyAnswers, DailyAnswers, ChainAnswers, IvAnswers, IntradayAnswers, Asked
  <2> QED BY <1>1, <2>1, TaskParts DEF Refreshes, Typed, TypeOK, Named
<1>3. ASSUME NEW live \in BOOLEAN
      PROVE  /\ Fresh(t, live) \in Observation /\ Fresh(t, live) \in Seen /\ Fresh(t, live).at = clock + 1
             /\ Own(Fresh(t, live), r)
  BY <1>2 DEF Fresh, Observation, Seen, Own
<1>4. /\ Dimmed(r.item) \in Seen /\ Own(Dimmed(r.item), r)
      /\ Dimmed(r.item) # None => r.item # None /\ Dimmed(r.item).at = r.item.at
  BY <1>2, DimmedSeen DEF Own
<1>5. None \in Seen /\ Own(None, r)
  BY DEF Seen, Own
<1>6. ASSUME t[1] \in Kept, NEW old \in FromDisk(t)
      PROVE  /\ old \in Seen /\ Own(old, r)
             /\ old # None => disk[t[1]][r.code] # None /\ old.at = disk[t[1]][r.code].at
  <2> DEFINE o == disk[t[1]][r.code]
  <2>1. o \in Seen /\ (o # None => o.code = r.code)
    BY <1>2, <1>6 DEF Typed, TypeOK
  <2>2. old = None \/ (o # None /\ old = [o EXCEPT !.revision = r.revision, !.live = FALSE])
    BY <1>6 DEF FromDisk
  <2>3. CASE old = None
    BY <2>3, <1>5
  <2>4. CASE old # None
    <3>1. o \in Observation /\ old = [o EXCEPT !.revision = r.revision, !.live = FALSE]
      BY <2>1, <2>2, <2>4 DEF Seen
    <3> QED BY <1>2, <2>1, <2>2, <2>4, <3>1 DEF Observation, Seen, Own
  <2> QED BY <2>3, <2>4
<1>7. ChainSpot(t) \in Seen /\ Own(ChainSpot(t), r)
  BY <1>2, <1>3 DEF ChainSpot
<1>8. UNCHANGED <<feedVars, disk, generation, quote, deskVars>>
  BY DEF Answers, ProxyAnswers, DailyAnswers, ChainAnswers, IvAnswers, IntradayAnswers, Answer
<1>9. ASSUME NEW i \in Seen, NEW p \in Seen, NEW b \in SUBSET Codes, NEW s \in BOOLEAN
      PROVE  /\ [Answered(t) EXCEPT !.item = i] =
                  [r EXCEPT !.pc = "answered", !.item = i, !.proxy = r.proxy, !.bars = r.bars, !.stores = FALSE]
             /\ [Answered(t) EXCEPT !.item = i, !.stores = TRUE] =
                  [r EXCEPT !.pc = "answered", !.item = i, !.proxy = r.proxy, !.bars = r.bars, !.stores = TRUE]
             /\ [Answered(t) EXCEPT !.item = i, !.stores = TRUE, !.proxy = p] =
                  [r EXCEPT !.pc = "answered", !.item = i, !.proxy = p, !.bars = r.bars, !.stores = TRUE]
             /\ [Answered(t) EXCEPT !.item = i, !.proxy = p] =
                  [r EXCEPT !.pc = "answered", !.item = i, !.proxy = p, !.bars = r.bars, !.stores = FALSE]
             /\ [Answered(t) EXCEPT !.bars = b] =
                  [r EXCEPT !.pc = "answered", !.item = r.item, !.proxy = r.proxy, !.bars = b, !.stores = FALSE]
             /\ Answered(t) =
                  [r EXCEPT !.pc = "answered", !.item = r.item, !.proxy = r.proxy, !.bars = r.bars, !.stores = FALSE]
  BY <1>1 DEF Answered, Refreshes
<1> DEFINE Good(i, p, b, s) ==
      /\ Reply(t, i, p, b, s)
      /\ Own(i, r) /\ Own(p, r)
      /\ s => t[1] \in Kept /\ i \in Observation /\ i.at = clock + 1 /\ clock' = clock + 1
      /\ i # None => \/ i.at = clock + 1 /\ clock' = clock + 1
                     \/ t[1] \in Fields \ Kept /\ r.item # None /\ i.at = r.item.at
                     \/ t[1] \notin Fields /\ i = r.item
                     \/ t[1] \in Kept /\ disk[t[1]][r.code] # None
                        /\ i.at = disk[t[1]][r.code].at
      /\ ~s /\ t[1] \in Kept /\ i # None =>
           disk[t[1]][r.code] # None /\ i.at = disk[t[1]][r.code].at
<1>10. CASE ProxyAnswers(t) \/ IvAnswers(t)
  <2>1. t[1] \in Fields \ Kept /\ r.bars \in SUBSET Codes
    BY <1>2, <1>10 DEF ProxyAnswers, IvAnswers, Asked, Fields, Kept
  <2>2. \/ \E live \in BOOLEAN : Observe /\ Answer(t, [Answered(t) EXCEPT !.item = Fresh(t, live)])
        \/ \E kept \in {Dimmed(r.item), None} :
             UNCHANGED clock /\ Answer(t, [Answered(t) EXCEPT !.item = kept])
    BY <1>10 DEF ProxyAnswers, IvAnswers
  <2>3. CASE \E live \in BOOLEAN : Observe /\ Answer(t, [Answered(t) EXCEPT !.item = Fresh(t, live)])
    <3>1. PICK live \in BOOLEAN : Observe /\ Answer(t, [Answered(t) EXCEPT !.item = Fresh(t, live)])
      BY <2>3
    <3>2. Good(Fresh(t, live), r.proxy, r.bars, FALSE)
      BY <1>2, <1>3, <1>9, <2>1, <3>1 DEF Answer, Reply, Observe
    <3> QED BY <1>2, <1>3, <1>8, <3>1, <3>2 DEF Observe
  <2>4. CASE \E kept \in {Dimmed(r.item), None} :
               UNCHANGED clock /\ Answer(t, [Answered(t) EXCEPT !.item = kept])
    <3>1. PICK kept \in {Dimmed(r.item), None} :
             UNCHANGED clock /\ Answer(t, [Answered(t) EXCEPT !.item = kept])
      BY <2>4
    <3>2. kept \in Seen /\ Own(kept, r) /\ (kept # None => r.item # None /\ kept.at = r.item.at)
      BY <1>4, <1>5, <3>1
    <3>3. Good(kept, r.proxy, r.bars, FALSE)
      BY <1>2, <1>9, <2>1, <3>1, <3>2 DEF Answer, Reply
    <3> QED BY <1>2, <1>8, <3>1, <3>2, <3>3
  <2> QED BY <2>2, <2>3, <2>4
<1>11. CASE DailyAnswers(t)
  <2>1. t[1] \in Kept /\ r.bars \in SUBSET Codes
    BY <1>2, <1>11 DEF DailyAnswers, Asked, Kept
  <2>2. CASE Observe /\ Answer(t, [Answered(t) EXCEPT !.item = Fresh(t, TRUE), !.stores = TRUE])
    <3>1. Good(Fresh(t, TRUE), r.proxy, r.bars, TRUE)
      BY <1>2, <1>3, <1>9, <2>1, <2>2 DEF Answer, Reply, Observe
    <3> QED BY <1>2, <1>3, <1>8, <2>2, <3>1 DEF Observe
  <2>3. CASE \E old \in FromDisk(t) : UNCHANGED clock /\ Answer(t, [Answered(t) EXCEPT !.item = old])
    <3>1. PICK old \in FromDisk(t) : UNCHANGED clock /\ Answer(t, [Answered(t) EXCEPT !.item = old])
      BY <2>3
    <3>2. Good(old, r.proxy, r.bars, FALSE)
      BY <1>2, <1>6, <1>9, <2>1, <3>1 DEF Answer, Reply
    <3> QED BY <1>2, <1>6, <1>8, <2>1, <3>1, <3>2
  <2> QED BY <1>11, <2>2, <2>3 DEF DailyAnswers
<1>12. CASE ChainAnswers(t)
  <2>1. t[1] \in Kept /\ r.bars \in SUBSET Codes
    BY <1>2, <1>12 DEF ChainAnswers, Asked, Kept
  <2>2. CASE Observe /\ Answer(t, [Answered(t) EXCEPT !.item = Fresh(t, FALSE), !.stores = TRUE,
                                                     !.proxy = ChainSpot(t)])
    <3>1. Good(Fresh(t, FALSE), ChainSpot(t), r.bars, TRUE)
      BY <1>2, <1>3, <1>7, <1>9, <2>1, <2>2 DEF Answer, Reply, Observe
    <3> QED BY <1>2, <1>3, <1>7, <1>8, <2>2, <3>1 DEF Observe
  <2>3. CASE Observe /\ \E old \in FromDisk(t) :
               Answer(t, [Answered(t) EXCEPT !.item = old, !.proxy = ChainSpot(t)])
    <3>1. PICK old \in FromDisk(t) : Answer(t, [Answered(t) EXCEPT !.item = old, !.proxy = ChainSpot(t)])
      BY <2>3
    <3>2. Good(old, ChainSpot(t), r.bars, FALSE)
      BY <1>2, <1>6, <1>7, <1>9, <2>1, <3>1 DEF Answer, Reply
    <3> QED BY <1>2, <1>6, <1>7, <1>8, <2>1, <2>3, <3>1, <3>2 DEF Observe
  <2>4. CASE \E old \in FromDisk(t) : UNCHANGED clock /\ Answer(t, [Answered(t) EXCEPT !.item = old])
    <3>1. PICK old \in FromDisk(t) : UNCHANGED clock /\ Answer(t, [Answered(t) EXCEPT !.item = old])
      BY <2>4
    <3>2. Good(old, r.proxy, r.bars, FALSE)
      BY <1>2, <1>6, <1>9, <2>1, <3>1 DEF Answer, Reply
    <3> QED BY <1>2, <1>6, <1>8, <2>1, <3>1, <3>2
  <2> QED BY <1>12, <2>2, <2>3, <2>4 DEF ChainAnswers
<1>13. CASE IntradayAnswers(t)
  <2>1. t[1] \notin Fields /\ r.bars \in SUBSET Codes /\ {r.code} \in SUBSET Codes /\ t[1] \notin Kept
    BY <1>2, <1>13 DEF IntradayAnswers, Asked, Fields, Kept
  <2>2. CASE Observe /\ Answer(t, [Answered(t) EXCEPT !.bars = {r.code}])
    <3>1. Good(r.item, r.proxy, {r.code}, FALSE)
      BY <1>2, <1>9, <2>1, <2>2 DEF Answer, Reply
    <3> QED BY <1>2, <1>8, <2>1, <2>2, <3>1 DEF Observe
  <2>3. CASE UNCHANGED clock /\ Answer(t, Answered(t))
    <3>1. Good(r.item, r.proxy, r.bars, FALSE)
      BY <1>2, <1>9, <2>1, <2>3 DEF Answer, Reply
    <3> QED BY <1>2, <1>8, <2>1, <2>3, <3>1
  <2> QED BY <1>13, <2>2, <2>3 DEF IntradayAnswers
<1> QED BY <1>10, <1>11, <1>12, <1>13 DEF Answers

-----------------------------------------------------------------------------
(* A switch ends every epoch before it.                                    *)

\* A refresh under way asked for the instrument of its revision, and carries
\* nothing else.
RefreshOfEpoch ==
  \A t \in Tasks : refresh[t].pc # "idle" =>
    /\ refresh[t].revision <= revision
    /\ refresh[t].revision = revision => refresh[t].code = code
    /\ Own(refresh[t].item, refresh[t]) /\ Own(refresh[t].proxy, refresh[t])
    /\ refresh[t].stores => refresh[t].pc # "asked" /\ t[1] \in Kept

\* The price refresh reads the instrument late: it may ask about a newer one
\* than its revision's, and is then not published.
QuoteOfEpoch ==
  quote.pc # "idle" =>
    /\ quote.revision <= revision
    /\ quote.item # None =>
         quote.item.revision = quote.revision /\ (quote.revision = revision => quote.item.code = code)
    /\ quote.pc \in {"asked", "trimming"} /\ quote.revision = revision => quote.code = code

DiskOfInstrument ==
  \A ch \in Kept, c \in Codes : disk[ch][c] # None => disk[ch][c].code = c

Epoch == RefreshOfEpoch /\ QuoteOfEpoch /\ DiskOfInstrument /\ PublishedIsOfEpoch

-----------------------------------------------------------------------------
(* Types, continued.                                                       *)

LEMMA SwitchTypes ==
  ASSUME Typed, NEW c \in Codes, SetInstrument(c)
  PROVE  /\ code' = c /\ revision' \in Nat /\ price' \in Seen
         /\ field' \in [Fields -> Seen] /\ intraday' \subseteq Codes
         /\ \/ UNCHANGED feedVars
            \/ /\ c # code /\ revision' = revision + 1 /\ price' = None /\ intraday' = {}
               /\ field' = [f \in Fields |-> None]
BY DEF SetInstrument, Typed, TypeOK, Seen, feedVars

\* A refresh that has copied i of its own channel.
Copy(ch, i) ==
  [pc |-> "asked", code |-> code, revision |-> revision, generation |-> generation[ch] + 1,
   item |-> i, proxy |-> field["proxy"], original |-> field["proxy"], bars |-> intraday,
   stores |-> FALSE]

LEMMA CaptureShape ==
  ASSUME Typed, NEW ch \in Channels, NEW who \in Callers, Capture(ch, who)
  PROVE  /\ <<ch, who>> \in Tasks /\ refresh[<<ch, who>>].pc = "idle"
         /\ UNCHANGED <<feedVars, disk, clock, quote>>
         /\ generation' = [generation EXCEPT ![ch] = generation[ch] + 1]
         /\ generation' \in [Channels -> Nat]
         /\ \E i \in Seen :
              /\ Copy(ch, i) \in Refreshes
              /\ refresh' = [refresh EXCEPT ![<<ch, who>>] = Copy(ch, i)]
              /\ i = IF ch \in Fields THEN field[ch] ELSE None
<1>1. <<ch, who>> \in Tasks
  BY DEF Tasks
<1>2. field["proxy"] \in Seen /\ generation[ch] + 1 \in Nat /\ "proxy" \in Fields
  BY DEF Typed, TypeOK, Fields
<1> DEFINE i == IF ch \in Fields THEN field[ch] ELSE None
<1>3. i \in Seen
  BY DEF Typed, TypeOK, Seen
<1> HIDE DEF i
<1>4. generation' \in [Channels -> Nat]
  BY <1>2 DEF Capture, Typed, TypeOK
<1>5. Copy(ch, i) \in Refreshes
  BY <1>2, <1>3 DEF Copy, Refreshes, Typed, TypeOK
<1>6. i = IF ch \in Fields THEN field[ch] ELSE None
  BY DEF i
<1>7. refresh' = [refresh EXCEPT ![<<ch, who>>] = Copy(ch, i)]
  BY <1>6 DEF Capture, Copy
<1> QED BY <1>1, <1>3, <1>4, <1>5, <1>6, <1>7 DEF Capture

LEMMA StoredShape ==
  ASSUME Typed, NEW t \in Tasks, t[1] \in Kept, refresh[t].code \in Codes
  PROVE  /\ Stored(t) \in {disk[t[1]][refresh[t].code], refresh[t].item}
         /\ Stored(t) \in Seen
         /\ Stored(t) = disk[t[1]][refresh[t].code] =>
              \/ Stored(t) = refresh[t].item
              \/ /\ disk[t[1]][refresh[t].code] # None
                 /\ disk[t[1]][refresh[t].code].at > refresh[t].item.at
<1>1. refresh[t].item \in Seen /\ disk[t[1]][refresh[t].code] \in Seen
  BY TypeParts DEF Typed, TypeOK, Refreshes
<1> QED BY <1>1 DEF Stored

LEMMA PublishedShape ==
  ASSUME Typed, NEW t \in Tasks
  PROVE  /\ Published(t) \in [Fields -> Seen]
         /\ \A f \in Fields : f # t[1] =>
              \/ Published(t)[f] = field[f]
              \/ t[1] = "chain" /\ f = "proxy" /\ Published(t)[f] = refresh[t].proxy
         /\ t[1] \in Fields => Published(t)[t[1]] = refresh[t].item
<1>1. refresh[t].item \in Seen /\ refresh[t].proxy \in Seen /\ field \in [Fields -> Seen]
      /\ t[1] \in Channels
  BY TypeParts, TaskParts DEF Typed, TypeOK, Refreshes
<1>2. t[1] \in Fields \union {"intraday"} /\ "intraday" \notin Fields
  BY <1>1, FeedAssumption DEF Fields
<1>3. CASE t[1] = "chain"
  <2>1. ProxyWith(t) \in {refresh[t].proxy, field["proxy"]}
    BY DEF ProxyWith
  <2>2. Published(t) = [field EXCEPT !["chain"] = refresh[t].item, !["proxy"] = ProxyWith(t)]
    BY <1>3 DEF Published
  <2> QED BY <1>1, <1>3, <2>1, <2>2 DEF Fields
<1>4. CASE t[1] = "intraday"
  BY <1>1, <1>2, <1>4 DEF Published
<1>5. CASE t[1] \in {"proxy", "daily", "iv"}
  <2>1. Published(t) = [field EXCEPT ![t[1]] = refresh[t].item]
    BY <1>5 DEF Published
  <2> QED BY <1>1, <1>5, <2>1 DEF Fields
<1> QED BY <1>2, <1>3, <1>4, <1>5 DEF Fields

\* Replacing one refresh by a well-typed one keeps the types.
LEMMA RefreshTypes ==
  ASSUME Typed, NEW t \in Tasks, NEW r \in Refreshes, refresh' = [refresh EXCEPT ![t] = r],
         r.pc # "idle" => r.code \in Codes
  PROVE  /\ refresh' \in [Tasks -> Refreshes]
         /\ \A u \in Tasks : refresh'[u].pc # "idle" => refresh'[u].code \in Codes
BY TypeParts DEF Typed, Named

\* A step of a handler changes its record as its kind allows.
LEMMA RequestTypes ==
  ASSUME Typed, NEW r \in Requests, NEW q \in RequestRecords,
         request' = [request EXCEPT ![r] = q], q.pc # "idle" => q.code \in Codes
  PROVE  /\ request' \in [Requests -> RequestRecords]
         /\ \A o \in Requests : request'[o].pc # "idle" => request'[o].code \in Codes
BY TypeParts DEF Typed, Named

LEMMA GoesTypes ==
  ASSUME Typed, NEW r \in Requests, request[r].pc # "idle",
         NEW pc \in {"quote", "pricing", "journal", "follow", "refresh", "waiting", "done"}, Goes(r, pc)
  PROVE  /\ request' \in [Requests -> RequestRecords]
         /\ \A o \in Requests : request'[o].pc # "idle" => request'[o].code \in Codes
<1>1. request[r] \in RequestRecords /\ request[r].code \in Codes
  BY TypeParts DEF Typed, Named
<1>2. [request[r] EXCEPT !.pc = pc] \in RequestRecords
      /\ [request[r] EXCEPT !.pc = pc].code \in Codes
  BY <1>1 DEF RequestRecords
<1>3. request' = [request EXCEPT ![r] = [request[r] EXCEPT !.pc = pc]]
  BY TypeParts DEF Goes, Typed
<1> QED BY <1>2, <1>3, RequestTypes

LEMMA QuoteStepTypes ==
  ASSUME Typed, \/ \E who \in Callers : StartPrice(who) 
                \/ AskQuote \/ TickArrives \/ TrimBars \/ IndicationArrives \/ PublishPrice
  PROVE  quote' \in Quotes /\ (quote'.pc \in {"asked", "trimming"} => quote'.code \in Codes)
<1>0. quote \in Quotes
  BY TypeParts DEF Typed
<1>1. /\ revision \in Nat /\ price \in Seen /\ code \in Codes /\ intraday \subseteq Codes /\ clock \in Nat
      /\ quote.revision \in Nat /\ quote.item \in Seen
      /\ quote.pc \in {"asked", "trimming"} => quote.code \in Codes
  BY <1>0 DEF Typed, TypeOK, Quotes, Named
<1>2. ASSUME quote.pc = "asked", NEW live \in BOOLEAN PROVE Quoted(live) \in Seen
  BY <1>1, <1>2 DEF Quoted, Seen, Observation
<1>3. CASE \E who \in Callers : StartPrice(who)
  BY <1>1, <1>3, Blanks DEF StartPrice, NoQuote, Quotes
<1>4. CASE AskQuote
  BY <1>0, <1>1, <1>4 DEF AskQuote, Quotes
<1>5. CASE TickArrives
  <2>1. intraday' \in SUBSET Codes /\ quote.code \in Codes /\ Quoted(TRUE) \in Seen
    BY <1>1, <1>2, <1>5 DEF TickArrives
  <2>2. quote' = [quote EXCEPT !.pc = "trimming", !.item = Quoted(TRUE), !.bars = intraday']
    BY <1>5 DEF TickArrives
  <2> QED BY <1>0, <2>1, <2>2 DEF Quotes
<1>6. CASE TrimBars
  BY <1>0, <1>6 DEF TrimBars, Quotes
<1>7. CASE IndicationArrives
  <2>1. \E i \in Seen : quote' = [quote EXCEPT !.pc = "answered", !.item = i]
    <3>1. quote.item \in Seen /\ Dimmed(quote.item) \in Seen /\ None \in Seen
      BY <1>1, DimmedSeen DEF Seen
    <3> QED BY <1>2, <1>7, <3>1 DEF IndicationArrives
  <2> QED BY <1>0, <2>1 DEF Quotes
<1>8. CASE PublishPrice
  BY <1>8, Blanks DEF PublishPrice, NoQuote
<1> QED BY <1>3, <1>4, <1>5, <1>6, <1>7, <1>8

LEMMA TypeStep == Typed /\ Epoch /\ [Next]_vars => Typed'
<1> SUFFICES ASSUME Typed, Epoch, [Next]_vars PROVE Typed'
  OBVIOUS
<1> USE DEF vars, feedVars, refreshVars, deskVars
<1>0. /\ refresh \in [Tasks -> Refreshes] /\ quote \in Quotes
      /\ request \in [Requests -> RequestRecords]
  BY TypeParts DEF Typed
<1>f. ASSUME refresh' \in [Tasks -> Refreshes], quote' \in Quotes,
             request' \in [Requests -> RequestRecords],
             \A t \in Tasks : refresh'[t].pc # "idle" => refresh'[t].code \in Codes,
             quote'.pc \in {"asked", "trimming"} => quote'.code \in Codes,
             \A r \in Requests : request'[r].pc # "idle" => request'[r].code \in Codes,
             code' \in Codes, revision' \in Nat, clock' \in Nat, price' \in Seen,
             field' \in [Fields -> Seen], intraday' \subseteq Codes,
             disk' \in [Kept -> [Codes -> Seen]], generation' \in [Channels -> Nat],
             trade' \in Codes \union {None}, tick' \in Codes \union {None},
             point' \in [trade : Codes, price : Codes] \union {None}
      PROVE  Typed'
  BY <1>f DEF Typed, TypeOK, Named, Refreshes, Quotes, RequestRecords
<1>g. /\ \A t \in Tasks : refresh[t].pc # "idle" => refresh[t].code \in Codes
      /\ quote.pc \in {"asked", "trimming"} => quote.code \in Codes
      /\ \A r \in Requests : request[r].pc # "idle" => request[r].code \in Codes
      /\ code \in Codes /\ revision \in Nat /\ clock \in Nat /\ price \in Seen
      /\ field \in [Fields -> Seen] /\ intraday \subseteq Codes
      /\ disk \in [Kept -> [Codes -> Seen]] /\ generation \in [Channels -> Nat]
      /\ trade \in Codes \union {None} /\ tick \in Codes \union {None}
      /\ point \in [trade : Codes, price : Codes] \union {None}
  BY DEF Typed, TypeOK, Named
<1>1. ASSUME NEW ch \in Channels, NEW who \in Callers, Capture(ch, who),
             UNCHANGED <<trade, tick, point>>, request' \in [Requests -> RequestRecords],
             \A r \in Requests : request'[r].pc # "idle" => request'[r].code \in Codes
      PROVE  Typed'
  <2>1. PICK i \in Seen :
          Copy(ch, i) \in Refreshes /\ refresh' = [refresh EXCEPT ![<<ch, who>>] = Copy(ch, i)]
    BY <1>1, CaptureShape
  <2>2. <<ch, who>> \in Tasks /\ Copy(ch, i).code \in Codes
    BY <1>g DEF Tasks, Copy
  <2>4. /\ refresh' \in [Tasks -> Refreshes]
        /\ \A t \in Tasks : refresh'[t].pc # "idle" => refresh'[t].code \in Codes
    BY <2>1, <2>2, RefreshTypes
  <2>3. generation' \in [Channels -> Nat] /\ UNCHANGED <<feedVars, disk, clock, quote>>
    BY <1>1, CaptureShape
  <2> QED BY <1>0, <1>1, <1>f, <1>g, <2>3, <2>4
<1>2. CASE \E ch \in Channels : PollCaptures(ch)
  <2>1. PICK ch \in Channels : PollCaptures(ch)
    BY <1>2
  <2>2. Capture(ch, Poll) /\ UNCHANGED deskVars /\ Poll \in Callers
    BY <2>1 DEF PollCaptures, Callers
  <2>3. request' = request /\ UNCHANGED <<trade, tick, point>>
    BY <2>2
  <2> QED BY <1>0, <1>1, <1>g, <2>2, <2>3
<1>3. ASSUME NEW r \in Requests, RequestRefreshes(r) PROVE Typed'
  <2>1. request[r].todo \in SUBSET FollowUps /\ request[r].todo # {} /\ request[r].pc = "refresh"
    BY <1>0, <1>3 DEF RequestRefreshes, RequestRecords
  <2>2. First(request[r].todo) \in Channels /\ r \in Callers
    BY <2>1, FirstIsLeft DEF Callers
  <2>3. /\ request' \in [Requests -> RequestRecords]
        /\ \A o \in Requests : request'[o].pc # "idle" => request'[o].code \in Codes
    BY <1>3, <2>1, GoesTypes DEF RequestRefreshes
  <2> QED BY <1>1, <1>3, <2>2, <2>3 DEF RequestRefreshes
<1>4. ASSUME NEW t \in Tasks, Answers(t) PROVE Typed'
  <2>1. refresh[t].pc = "asked"
    BY <1>4 DEF Answers, ProxyAnswers, DailyAnswers, ChainAnswers, IvAnswers, IntradayAnswers, Asked
  <2>2. /\ UNCHANGED <<feedVars, disk, generation, quote, deskVars>> /\ clock' \in {clock, clock + 1}
        /\ \E i \in Seen, p \in Seen, b \in SUBSET Codes, s \in BOOLEAN : Reply(t, i, p, b, s)
    BY <1>4, <2>1, AnswerShape DEF Epoch, RefreshOfEpoch, DiskOfInstrument
  <2>3. PICK i \in Seen, p \in Seen, b \in SUBSET Codes, s \in BOOLEAN : Reply(t, i, p, b, s)
    BY <2>2
  <2>4. [refresh[t] EXCEPT !.pc = "answered", !.item = i, !.proxy = p, !.bars = b, !.stores = s]
          \in Refreshes
    BY <1>0 DEF Refreshes
  <2>5. refresh' = [refresh EXCEPT ![t] =
           [refresh[t] EXCEPT !.pc = "answered", !.item = i, !.proxy = p, !.bars = b, !.stores = s]]
    BY <1>0, <2>3 DEF Reply
  <2>6. [refresh[t] EXCEPT !.pc = "answered", !.item = i, !.proxy = p, !.bars = b, !.stores = s].code
          \in Codes
    BY <1>0, <1>g, <2>1 DEF Refreshes
  <2>7. /\ refresh' \in [Tasks -> Refreshes]
        /\ \A u \in Tasks : refresh'[u].pc # "idle" => refresh'[u].code \in Codes
    BY <2>4, <2>5, <2>6, RefreshTypes
  <2>8. clock' \in Nat
    BY <1>g, <2>2
  <2> QED BY <1>0, <1>f, <1>g, <2>2, <2>7, <2>8
<1>5. ASSUME NEW t \in Tasks, Admit(t) \/ Store(t) \/ Publish(t) PROVE Typed'
  <2>1. PICK r \in Refreshes : refresh' = [refresh EXCEPT ![t] = r] /\ (r.pc # "idle" => r.code \in Codes)
    <3>1. refresh[t] \in Refreshes /\ refresh[t].pc \in {"answered", "admitted", "stored"}
          /\ refresh[t].code \in Codes
      BY <1>0, <1>5, <1>g DEF Admit, Store, Publish
    <3>2. /\ [refresh[t] EXCEPT !.pc = "admitted"] \in Refreshes
          /\ [refresh[t] EXCEPT !.pc = "stored"] \in Refreshes
          /\ [refresh[t] EXCEPT !.pc = "admitted"].code = refresh[t].code
          /\ [refresh[t] EXCEPT !.pc = "stored"].code = refresh[t].code
      BY <3>1 DEF Refreshes
    <3>3. \/ refresh' = [refresh EXCEPT ![t] = NoRefresh]
          \/ refresh' = [refresh EXCEPT ![t] = [refresh[t] EXCEPT !.pc = "admitted"]]
          \/ refresh' = [refresh EXCEPT ![t] = [refresh[t] EXCEPT !.pc = "stored"]]
      BY <1>0, <1>5 DEF Admit, Store, Publish
    <3>4. NoRefresh \in Refreshes /\ NoRefresh.pc = "idle"
      BY Blanks DEF NoRefresh
    <3> QED BY <3>1, <3>2, <3>3, <3>4
  <2>2. /\ refresh' \in [Tasks -> Refreshes]
        /\ \A u \in Tasks : refresh'[u].pc # "idle" => refresh'[u].code \in Codes
    BY <2>1, RefreshTypes
  <2>3. disk' \in [Kept -> [Codes -> Seen]]
    <3>1. CASE UNCHANGED disk
      BY <1>g, <3>1
    <3>2. CASE Store(t) /\ refresh[t].stores
      <4>1. t[1] \in Kept /\ refresh[t].code \in Codes
        BY <1>g, <3>2 DEF Epoch, RefreshOfEpoch, Store
      <4>2. Stored(t) \in Seen
        BY <4>1, StoredShape
      <4> QED BY <1>g, <3>2, <4>1, <4>2 DEF Store
    <3> QED BY <1>5, <3>1, <3>2 DEF Admit, Store, Publish
  <2>4. field' \in [Fields -> Seen]
    BY <1>5, <1>g, PublishedShape DEF Admit, Store, Publish
  <2>5. intraday' \subseteq Codes
    <3>1. refresh[t].bars \subseteq Codes
      BY <1>0 DEF Refreshes
    <3> QED BY <1>5, <1>g, <3>1 DEF Admit, Store, Publish
  <2>6. UNCHANGED <<code, revision, price, generation, clock, quote, deskVars>>
    BY <1>5 DEF Admit, Store, Publish
  <2> QED BY <1>0, <1>f, <1>g, <2>2, <2>3, <2>4, <2>5, <2>6
<1>6. CASE PollPrices \/ PriceStep
  <2>1. quote' \in Quotes /\ (quote'.pc \in {"asked", "trimming"} => quote'.code \in Codes)
    BY <1>6, QuoteStepTypes DEF PollPrices, PriceStep, Callers
  <2>2. clock' \in Nat /\ price' \in Seen /\ intraday' \subseteq Codes
    <3>1. quote.item \in Seen /\ quote.bars \subseteq Codes
      BY <1>0 DEF Quotes
    <3> QED BY <1>6, <1>g, <3>1 DEF PollPrices, PriceStep, AskQuote, TickArrives, TrimBars,
          IndicationArrives, PublishPrice, Observe
  <2>3. UNCHANGED <<code, revision, field, refreshVars, deskVars>>
    BY <1>6 DEF PollPrices, PriceStep, AskQuote, TickArrives, TrimBars, IndicationArrives, PublishPrice
  <2> QED BY <1>0, <1>f, <1>g, <2>1, <2>2, <2>3
<1>7. ASSUME NEW r \in Requests, OpenArrives(r) PROVE Typed'
  <2>1. PICK c \in Codes : SetInstrument(c) /\ request' = [request EXCEPT ![r] =
            [pc |-> IF c = code THEN "journal" ELSE "quote", kind |-> "open", code |-> c, todo |-> {}]]
    BY <1>7 DEF OpenArrives
  <2>2. [pc |-> IF c = code THEN "journal" ELSE "quote", kind |-> "open", code |-> c, todo |-> {}]
          \in RequestRecords
    BY DEF RequestRecords
  <2>3. /\ request' \in [Requests -> RequestRecords]
        /\ \A o \in Requests : request'[o].pc # "idle" => request'[o].code \in Codes
    BY <2>1, <2>2, RequestTypes
  <2>4. UNCHANGED <<refreshVars, clock, quote, trade, tick, point>>
    BY <1>7 DEF OpenArrives
  <2> QED BY <1>0, <1>f, <1>g, <2>1, <2>3, <2>4, SwitchTypes
<1>8. ASSUME NEW r \in Requests, EditCommits(r) PROVE Typed'
  <2>1. PICK c \in Codes : trade' = c /\ request' = [request EXCEPT ![r] =
            [pc |-> "follow", kind |-> "edit", code |-> c, todo |-> {}]]
    BY <1>8 DEF EditCommits
  <2>2. [pc |-> "follow", kind |-> "edit", code |-> c, todo |-> {}] \in RequestRecords
    BY DEF RequestRecords
  <2>3. /\ request' \in [Requests -> RequestRecords]
        /\ \A o \in Requests : request'[o].pc # "idle" => request'[o].code \in Codes
    BY <2>1, <2>2, RequestTypes
  <2>4. UNCHANGED <<feedVars, refreshVars, clock, quote, tick, point>>
    BY <1>8 DEF EditCommits
  <2> QED BY <1>0, <1>f, <1>g, <2>1, <2>3, <2>4
<1>9. ASSUME NEW r \in Requests, RequestPrice(r) \/ PriceReturns(r) \/ JournalOpens(r) \/ RequestEnds(r)
      PROVE  Typed'
  <2>1. request[r] \in RequestRecords /\ request[r].pc # "idle" /\ request[r].code \in Codes
        /\ AfterPrice(r) \in {"journal", "refresh"}
    BY <1>0, <1>9, <1>g DEF RequestPrice, PriceReturns, JournalOpens, RequestEnds, AfterPrice
  <2>2. \E pc \in {"pricing", "journal", "follow", "refresh", "done"} : Goes(r, pc)
    BY <1>9, <2>1 DEF RequestPrice, PriceReturns, JournalOpens, RequestEnds
  <2>3. /\ request' \in [Requests -> RequestRecords]
        /\ \A o \in Requests : request'[o].pc # "idle" => request'[o].code \in Codes
    BY <2>1, <2>2, GoesTypes
  <2>4. quote' \in Quotes /\ (quote'.pc \in {"asked", "trimming"} => quote'.code \in Codes)
    <3>1. CASE StartPrice(r)
      BY <3>1, QuoteStepTypes DEF Callers
    <3>2. CASE UNCHANGED quote
      BY <1>0, <1>g, <3>2
    <3> QED BY <1>9, <3>1, <3>2 DEF RequestPrice, PriceReturns, JournalOpens, RequestEnds
  <2>5. trade' \in Codes \union {None} /\ UNCHANGED <<feedVars, refreshVars, clock, tick, point>>
    BY <1>9, <1>g, <2>1 DEF RequestPrice, PriceReturns, JournalOpens, RequestEnds
  <2> QED BY <1>0, <1>f, <1>g, <2>3, <2>4, <2>5
<1>10. ASSUME NEW r \in Requests, Follow(r) PROVE Typed'
  <2>1. request[r] \in RequestRecords /\ request[r].pc = "follow" /\ request[r].code \in Codes
    BY <1>0, <1>10, <1>g DEF Follow
  <2>2. SetInstrument(request[r].code) /\ UNCHANGED <<refreshVars, clock, quote, trade, tick, point>>
    BY <1>10 DEF Follow
  <2>3. \E pc \in {"refresh", "quote", "done"}, todo \in SUBSET FollowUps :
          request' = [request EXCEPT ![r] = [request[r] EXCEPT !.pc = pc, !.todo = todo]]
    <3>1. request' = [request EXCEPT
            ![r].pc = IF request[r].kind = "open" THEN "refresh"
                      ELSE IF request[r].code # code THEN "quote" ELSE "done",
            ![r].todo = IF request[r].kind = "open" \/ request[r].code # code THEN FollowUps ELSE {}]
      BY <1>10 DEF Follow
    <3> DEFINE pc == IF request[r].kind = "open" THEN "refresh"
                     ELSE IF request[r].code # code THEN "quote" ELSE "done"
               todo == IF request[r].kind = "open" \/ request[r].code # code THEN FollowUps ELSE {}
    <3>2. pc \in {"refresh", "quote", "done"} /\ todo \in SUBSET FollowUps
      OBVIOUS
    <3>3. request' = [request EXCEPT ![r] = [request[r] EXCEPT !.pc = pc, !.todo = todo]]
      BY <1>0, <3>1
    <3> QED BY <3>2, <3>3
  <2>4. PICK pc \in {"refresh", "quote", "done"}, todo \in SUBSET FollowUps :
          request' = [request EXCEPT ![r] = [request[r] EXCEPT !.pc = pc, !.todo = todo]]
    BY <2>3
  <2>5. [request[r] EXCEPT !.pc = pc, !.todo = todo] \in RequestRecords
        /\ [request[r] EXCEPT !.pc = pc, !.todo = todo].code \in Codes
    BY <2>1 DEF RequestRecords
  <2>6. /\ request' \in [Requests -> RequestRecords]
        /\ \A o \in Requests : request'[o].pc # "idle" => request'[o].code \in Codes
    BY <2>4, <2>5, RequestTypes
  <2> QED BY <1>0, <1>f, <1>g, <2>1, <2>2, <2>6, SwitchTypes
<1>11. ASSUME NEW r \in Requests, RefreshReturns(r) PROVE Typed'
  <2>1. request[r] \in RequestRecords /\ request[r].pc = "waiting" /\ request[r].code \in Codes
    BY <1>0, <1>11, <1>g DEF RefreshReturns
  <2>2. \E todo \in SUBSET FollowUps :
          request' = [request EXCEPT ![r] = [request[r] EXCEPT !.pc = "refresh", !.todo = todo]]
    <3>1. request[r].todo \ {First(request[r].todo)} \in SUBSET FollowUps
      BY <2>1 DEF RequestRecords
    <3>2. request' = [request EXCEPT ![r] =
            [request[r] EXCEPT !.pc = "refresh", !.todo = request[r].todo \ {First(request[r].todo)}]]
      BY <1>0, <1>11, <2>1 DEF RefreshReturns, RequestRecords
    <3> QED BY <3>1, <3>2
  <2>3. PICK todo \in SUBSET FollowUps :
          request' = [request EXCEPT ![r] = [request[r] EXCEPT !.pc = "refresh", !.todo = todo]]
    BY <2>2
  <2>4. [request[r] EXCEPT !.pc = "refresh", !.todo = todo] \in RequestRecords
        /\ [request[r] EXCEPT !.pc = "refresh", !.todo = todo].code \in Codes
    BY <2>1 DEF RequestRecords
  <2>5. /\ request' \in [Requests -> RequestRecords]
        /\ \A o \in Requests : request'[o].pc # "idle" => request'[o].code \in Codes
    BY <2>3, <2>4, RequestTypes
  <2> QED BY <1>0, <1>11, <1>f, <1>g, <2>5 DEF RefreshReturns
<1>12. CASE TradeCloses \/ TickStep
  <2>1. point' \in [trade : Codes, price : Codes] \union {None}
    <3>1. ASSUME TickRecordsPoint, price # None PROVE tick \in Codes /\ price.code \in Codes
      BY <1>g, <3>1 DEF TickRecordsPoint, Seen, Observation
    <3> QED BY <1>12, <1>g, <3>1 DEF TradeCloses, TickStep, TickReadsTrade, TickRecordsPoint
  <2>2. /\ trade' \in Codes \union {None} /\ tick' \in Codes \union {None}
        /\ UNCHANGED <<feedVars, refreshVars, clock, quote, request>>
    BY <1>12, <1>g DEF TradeCloses, TickStep, TickReadsTrade, TickRecordsPoint
  <2> QED BY <1>0, <1>f, <1>g, <2>1, <2>2
<1>13. CASE UNCHANGED vars
  BY <1>0, <1>13, <1>f, <1>g
<1> QED BY <1>2, <1>3, <1>4, <1>5, <1>6, <1>7, <1>8, <1>9, <1>10, <1>11, <1>12, <1>13
    DEF Next, RequestStep

-----------------------------------------------------------------------------
(* Epochs, continued.                                                      *)

LEMMA InitEpoch == Init => Epoch
BY DEF Init, Epoch, RefreshOfEpoch, QuoteOfEpoch, DiskOfInstrument, PublishedIsOfEpoch,
   NoRefresh, NoQuote

\* A step that replaces one refresh by one that belongs to the epoch.
LEMMA RefreshEpochStep ==
  ASSUME Typed, RefreshOfEpoch, UNCHANGED <<code, revision>>, NEW t \in Tasks, NEW r \in Refreshes,
         refresh' = [refresh EXCEPT ![t] = r],
         r.pc # "idle" =>
           /\ r.revision <= revision /\ (r.revision = revision => r.code = code)
           /\ Own(r.item, r) /\ Own(r.proxy, r)
           /\ r.stores => r.pc # "asked" /\ t[1] \in Kept
  PROVE  RefreshOfEpoch'
<1> SUFFICES ASSUME NEW u \in Tasks, refresh'[u].pc # "idle"
             PROVE  /\ refresh'[u].revision <= revision
                    /\ refresh'[u].revision = revision => refresh'[u].code = code
                    /\ Own(refresh'[u].item, refresh'[u]) /\ Own(refresh'[u].proxy, refresh'[u])
                    /\ refresh'[u].stores => refresh'[u].pc # "asked" /\ u[1] \in Kept
  BY DEF RefreshOfEpoch, Own
<1>1. CASE u = t
  <2>1. refresh'[u] = r
    BY <1>1, TypeParts DEF Typed
  <2> QED BY <1>1, <2>1
<1>2. CASE u # t
  <2>1. refresh'[u] = refresh[u]
    BY <1>2, TypeParts DEF Typed
  <2> QED BY <2>1 DEF RefreshOfEpoch
<1> QED BY <1>1, <1>2

LEMMA EpochStep == Typed /\ Epoch /\ [Next]_vars => Epoch'
<1> SUFFICES ASSUME Typed, Epoch, [Next]_vars PROVE Epoch'
  OBVIOUS
<1> USE DEF vars, feedVars, refreshVars, deskVars
<1>0. /\ refresh \in [Tasks -> Refreshes] /\ quote \in Quotes /\ revision \in Nat /\ code \in Codes
      /\ disk \in [Kept -> [Codes -> Seen]] /\ field \in [Fields -> Seen] /\ price \in Seen
      /\ \A t \in Tasks : refresh[t].pc # "idle" => refresh[t].code \in Codes
  BY TypeParts DEF Typed, TypeOK, Named
<1>e. RefreshOfEpoch /\ QuoteOfEpoch /\ DiskOfInstrument /\ PublishedIsOfEpoch
  BY DEF Epoch
<1>u. ASSUME UNCHANGED <<code, revision, price, field, disk, refresh, quote>> PROVE Epoch'
  BY <1>e, <1>u DEF Epoch, RefreshOfEpoch, QuoteOfEpoch, DiskOfInstrument, PublishedIsOfEpoch, Own
<1>1. ASSUME NEW c \in Codes, SetInstrument(c), UNCHANGED <<disk, refresh, quote>> PROVE Epoch'
  <2>1. CASE UNCHANGED feedVars
    BY <1>1, <1>u, <2>1
  <2>2. CASE revision' = revision + 1 /\ price' = None /\ field' = [f \in Fields |-> None]
    <3>1. RefreshOfEpoch'
      <4> SUFFICES ASSUME NEW t \in Tasks, refresh[t].pc # "idle"
                   PROVE  /\ refresh[t].revision <= revision'
                          /\ refresh[t].revision # revision'
                          /\ Own(refresh[t].item, refresh[t]) /\ Own(refresh[t].proxy, refresh[t])
                          /\ refresh[t].stores => refresh[t].pc # "asked" /\ t[1] \in Kept
        BY <1>1 DEF RefreshOfEpoch, Own
      <4>1. refresh[t].revision <= revision /\ refresh[t].revision \in Nat
        BY <1>0, <1>e DEF RefreshOfEpoch, Refreshes
      <4> QED BY <1>0, <1>e, <2>2, <4>1 DEF RefreshOfEpoch
    <3>2. QuoteOfEpoch'
      <4>1. quote.revision \in Nat
        BY <1>0 DEF Quotes
      <4> QED BY <1>0, <1>1, <1>e, <2>2, <4>1 DEF QuoteOfEpoch
    <3>3. DiskOfInstrument' /\ PublishedIsOfEpoch'
      BY <1>1, <1>e, <2>2 DEF DiskOfInstrument, PublishedIsOfEpoch
    <3> QED BY <3>1, <3>2, <3>3 DEF Epoch
  <2> QED BY <1>1, <2>1, <2>2, SwitchTypes
<1>2. ASSUME NEW ch \in Channels, NEW who \in Callers, Capture(ch, who) PROVE Epoch'
  <2>1. PICK i \in Seen :
          /\ Copy(ch, i) \in Refreshes /\ refresh' = [refresh EXCEPT ![<<ch, who>>] = Copy(ch, i)]
          /\ i = IF ch \in Fields THEN field[ch] ELSE None
    BY <1>2, CaptureShape
  <2>2. UNCHANGED <<code, revision, price, field, disk, quote>> /\ <<ch, who>> \in Tasks
    BY <1>2, CaptureShape
  <2>3. /\ Copy(ch, i).code = code /\ Copy(ch, i).revision = revision /\ ~Copy(ch, i).stores
        /\ Copy(ch, i).item = i /\ Copy(ch, i).proxy = field["proxy"]
    BY DEF Copy
  <2>5. ASSUME NEW o \in {i, field["proxy"]} PROVE Own(o, Copy(ch, i))
    <3>1. o # None => \E f \in Fields : o = field[f]
      BY <2>1 DEF Fields
    <3> QED BY <1>e, <2>3, <3>1 DEF Own, PublishedIsOfEpoch
  <2>4. RefreshOfEpoch'
    <3>1. Own(Copy(ch, i).item, Copy(ch, i)) /\ Own(Copy(ch, i).proxy, Copy(ch, i))
      BY <2>3, <2>5
    <3>2. UNCHANGED <<code, revision>> /\ revision <= revision
      BY <1>0, <2>2
    <3> QED BY <1>e, <2>1, <2>2, <2>3, <3>1, <3>2, RefreshEpochStep
  <2> QED BY <1>e, <2>2, <2>4 DEF Epoch, QuoteOfEpoch, DiskOfInstrument, PublishedIsOfEpoch
<1>3. ASSUME NEW t \in Tasks, Answers(t) PROVE Epoch'
  <2>1. refresh[t].pc = "asked"
    BY <1>3 DEF Answers, ProxyAnswers, DailyAnswers, ChainAnswers, IvAnswers, IntradayAnswers, Asked
  <2>2. /\ UNCHANGED <<feedVars, disk, generation, quote, deskVars>>
        /\ \E i \in Seen, p \in Seen, b \in SUBSET Codes, s \in BOOLEAN :
             Reply(t, i, p, b, s) /\ Own(i, refresh[t]) /\ Own(p, refresh[t]) /\ (s => t[1] \in Kept)
    BY <1>3, <1>e, <2>1, AnswerShape DEF RefreshOfEpoch, DiskOfInstrument
  <2>3. PICK i \in Seen, p \in Seen, b \in SUBSET Codes, s \in BOOLEAN :
             Reply(t, i, p, b, s) /\ Own(i, refresh[t]) /\ Own(p, refresh[t]) /\ (s => t[1] \in Kept)
    BY <2>2
  <2> DEFINE r == [refresh[t] EXCEPT !.pc = "answered", !.item = i, !.proxy = p, !.bars = b, !.stores = s]
  <2>4. refresh' = [refresh EXCEPT ![t] = r]
    BY <1>0, <2>3 DEF Reply
  <2>5. /\ r \in Refreshes /\ r.pc = "answered" /\ r.item = i /\ r.proxy = p /\ r.stores = s
        /\ r.code = refresh[t].code /\ r.revision = refresh[t].revision
    BY <1>0 DEF Refreshes
  <2> HIDE DEF r
  <2>6. Own(i, r) /\ Own(p, r)
    BY <2>3, <2>5 DEF Own
  <2>7. r.revision <= revision /\ (r.revision = revision => r.code = code)
    BY <1>e, <2>1, <2>5 DEF RefreshOfEpoch
  <2>8. RefreshOfEpoch'
    BY <1>e, <2>2, <2>3, <2>4, <2>5, <2>6, <2>7, RefreshEpochStep
  <2> QED BY <1>e, <2>2, <2>8 DEF Epoch, QuoteOfEpoch, DiskOfInstrument, PublishedIsOfEpoch
<1>4. ASSUME NEW t \in Tasks, Admit(t) \/ Store(t) \/ Publish(t) PROVE Epoch'
  <2>0. /\ refresh[t] \in Refreshes /\ refresh[t].pc \in {"answered", "admitted", "stored"}
        /\ refresh[t].code \in Codes /\ UNCHANGED <<code, revision, price, quote>>
    BY <1>0, <1>4 DEF Admit, Store, Publish
  <2>1. RefreshOfEpoch'
    <3>1. \/ refresh' = [refresh EXCEPT ![t] = NoRefresh]
          \/ \E pc \in {"admitted", "stored"} : refresh' = [refresh EXCEPT ![t] = [refresh[t] EXCEPT !.pc = pc]]
      BY <1>0, <1>4 DEF Admit, Store, Publish
    <3>2. CASE refresh' = [refresh EXCEPT ![t] = NoRefresh]
      <4>1. NoRefresh \in Refreshes /\ NoRefresh.pc = "idle"
        BY Blanks DEF NoRefresh
      <4> QED BY <1>e, <2>0, <3>2, <4>1, RefreshEpochStep
    <3>3. ASSUME NEW pc \in {"admitted", "stored"},
                 refresh' = [refresh EXCEPT ![t] = [refresh[t] EXCEPT !.pc = pc]]
          PROVE  RefreshOfEpoch'
      <4> DEFINE r == [refresh[t] EXCEPT !.pc = pc]
      <4>1. /\ r \in Refreshes /\ r.pc = pc /\ r.item = refresh[t].item /\ r.proxy = refresh[t].proxy
            /\ r.code = refresh[t].code /\ r.revision = refresh[t].revision /\ r.stores = refresh[t].stores
        BY <2>0 DEF Refreshes
      <4>2. refresh' = [refresh EXCEPT ![t] = r]
        BY <3>3
      <4> HIDE DEF r
      <4>3. /\ r.revision <= revision /\ (r.revision = revision => r.code = code)
            /\ Own(r.item, r) /\ Own(r.proxy, r) /\ (r.stores => t[1] \in Kept)
        BY <1>e, <2>0, <4>1 DEF RefreshOfEpoch, Own
      <4> QED BY <1>e, <2>0, <4>1, <4>2, <4>3, RefreshEpochStep
    <3> QED BY <3>1, <3>2, <3>3
  <2>2. DiskOfInstrument'
    <3>1. CASE UNCHANGED disk
      BY <1>e, <3>1 DEF DiskOfInstrument
    <3>2. CASE Store(t) /\ refresh[t].stores
      <4>1. t[1] \in Kept /\ Own(refresh[t].item, refresh[t])
        BY <1>e, <2>0, <3>2 DEF RefreshOfEpoch
      <4>2. Stored(t) \in {disk[t[1]][refresh[t].code], refresh[t].item}
        BY <2>0, <4>1, StoredShape
      <4>3. Stored(t) # None => Stored(t).code = refresh[t].code
        BY <1>e, <2>0, <4>1, <4>2 DEF DiskOfInstrument, Own
      <4> QED BY <1>0, <1>e, <2>0, <3>2, <4>1, <4>3 DEF DiskOfInstrument, Store
    <3> QED BY <1>4, <3>1, <3>2 DEF Admit, Store, Publish
  <2>3. PublishedIsOfEpoch'
    <3>1. CASE UNCHANGED field
      BY <1>e, <2>0, <3>1 DEF PublishedIsOfEpoch
    <3>2. CASE Publish(t) /\ Current(t)
      <4>1. field' = Published(t) /\ refresh[t].code = code /\ refresh[t].revision = revision
        BY <3>2 DEF Publish, Current
      <4>2. Own(refresh[t].item, refresh[t]) /\ Own(refresh[t].proxy, refresh[t])
        BY <1>e, <2>0 DEF RefreshOfEpoch
      <4>3. ASSUME NEW f \in Fields, field'[f] # None
            PROVE  field'[f].code = code /\ field'[f].revision = revision
        <5>1. CASE f = t[1]
          BY <4>1, <4>2, <4>3, <5>1, PublishedShape DEF Own
        <5>2. CASE f # t[1]
          <6>1. Published(t)[f] \in {field[f], refresh[t].proxy}
            BY <5>2, PublishedShape
          <6> QED BY <1>e, <4>1, <4>2, <4>3, <6>1 DEF Own, PublishedIsOfEpoch
        <5> QED BY <5>1, <5>2
      <4> QED BY <1>e, <2>0, <4>3 DEF PublishedIsOfEpoch
    <3> QED BY <1>4, <3>1, <3>2 DEF Admit, Store, Publish
  <2> QED BY <1>e, <2>0, <2>1, <2>2, <2>3 DEF Epoch, QuoteOfEpoch
<1>5. ASSUME \/ \E who \in Callers : StartPrice(who)
             \/ AskQuote \/ TickArrives \/ TrimBars \/ IndicationArrives \/ PublishPrice,
             UNCHANGED <<code, revision, field, disk, refresh>>,
             UNCHANGED price \/ PublishPrice
      PROVE  Epoch'
  <2>0. quote.revision \in Nat /\ quote.item \in Seen
    BY <1>0 DEF Quotes
  <2>1. QuoteOfEpoch'
    <3>1. CASE \E who \in Callers : StartPrice(who)
      <4>1. PICK who \in Callers : StartPrice(who)
        BY <3>1
      <4>2. /\ quote'.pc = "started" /\ quote'.revision = revision /\ quote'.item = price
        BY <4>1 DEF StartPrice, NoQuote
      <4>3. code' = code /\ revision' = revision /\ revision <= revision
        BY <1>0, <1>5
      <4>4. price # None => price.code = code /\ price.revision = revision
        BY <1>e DEF PublishedIsOfEpoch
      <4> QED BY <4>2, <4>3, <4>4 DEF QuoteOfEpoch
    <3>2. CASE AskQuote
      BY <1>0, <1>5, <1>e, <3>2 DEF AskQuote, QuoteOfEpoch, Quotes
    <3>3. CASE TickArrives
      <4>1. quote' = [quote EXCEPT !.pc = "trimming", !.item = Quoted(TRUE), !.bars = intraday']
            /\ quote.pc = "asked"
        BY <3>3 DEF TickArrives
      <4>2. Quoted(TRUE).code = quote.code /\ Quoted(TRUE).revision = quote.revision
        BY DEF Quoted
      <4> QED BY <1>0, <1>5, <1>e, <4>1, <4>2 DEF QuoteOfEpoch, Quotes
    <3>4. CASE TrimBars
      BY <1>0, <1>5, <1>e, <3>4 DEF TrimBars, QuoteOfEpoch, Quotes
    <3>5. CASE IndicationArrives
      <4>1. PICK i \in Seen : /\ quote' = [quote EXCEPT !.pc = "answered", !.item = i]
                              /\ i # None => i.revision = quote.revision
                                            /\ (quote.revision = revision => i.code = code)
        <5>1. quote.item \in Seen /\ Dimmed(quote.item) \in Seen /\ None \in Seen
          BY <2>0, DimmedSeen DEF Seen
        <5>2. ASSUME NEW kept \in {quote.item, Dimmed(quote.item), None}, kept # None
              PROVE  kept.revision = quote.revision /\ (quote.revision = revision => kept.code = code)
          BY <1>e, <2>0, <3>5, <5>2, DimmedSeen DEF QuoteOfEpoch, IndicationArrives
        <5>3. /\ Quoted(FALSE).revision = quote.revision /\ Quoted(FALSE).code = quote.code
              /\ quote.revision = revision => quote.code = code
          BY <1>e, <3>5 DEF Quoted, QuoteOfEpoch, IndicationArrives
        <5>4. Quoted(FALSE) \in Seen
          BY <2>0, <3>5 DEF Quoted, Seen, Observation, IndicationArrives, Typed, TypeOK, Named
        <5> QED BY <3>5, <5>1, <5>2, <5>3, <5>4 DEF IndicationArrives
      <4>2. quote.revision <= revision
        BY <1>e, <3>5 DEF QuoteOfEpoch, IndicationArrives
      <4>3. quote'.pc = "answered" /\ quote'.item = i /\ quote'.revision = quote.revision
        BY <1>0, <4>1 DEF Quotes
      <4> QED BY <1>5, <4>1, <4>2, <4>3 DEF QuoteOfEpoch
    <3>6. CASE PublishPrice
      BY <3>6 DEF PublishPrice, NoQuote, QuoteOfEpoch
    <3> QED BY <1>5, <3>1, <3>2, <3>3, <3>4, <3>5, <3>6
  <2>2. PublishedIsOfEpoch'
    <3>1. price' # None => price'.code = code /\ price'.revision = revision
      BY <1>5, <1>e DEF PublishPrice, QuoteOfEpoch, PublishedIsOfEpoch
    <3> QED BY <1>5, <1>e, <3>1 DEF PublishedIsOfEpoch
  <2>3. RefreshOfEpoch' /\ DiskOfInstrument'
    BY <1>5, <1>e DEF RefreshOfEpoch, DiskOfInstrument, Own
  <2> QED BY <2>1, <2>2, <2>3 DEF Epoch
<1>6. CASE PollPrices \/ PriceStep
  BY <1>5, <1>6 DEF PollPrices, PriceStep, AskQuote, TickArrives, TrimBars, IndicationArrives,
     PublishPrice, Callers
<1>7. ASSUME NEW r \in Requests, RequestPrice(r) PROVE Epoch'
  BY <1>5, <1>7, <1>u DEF RequestPrice, Callers
<1>8. ASSUME NEW r \in Requests, OpenArrives(r) \/ Follow(r) PROVE Epoch'
  <2>1. Follow(r) => request[r].code \in Codes
    BY DEF Follow, Typed, Named
  <2> QED BY <1>1, <1>8, <2>1 DEF OpenArrives, Follow
<1>9. ASSUME NEW r \in Requests, RequestRefreshes(r) PROVE Epoch'
  <2>1. request[r].todo \in SUBSET FollowUps /\ request[r].todo # {}
    BY <1>9, TypeParts DEF RequestRefreshes, RequestRecords, Typed
  <2>2. First(request[r].todo) \in Channels /\ r \in Callers
    BY <2>1, FirstIsLeft DEF Callers
  <2> QED BY <1>2, <1>9, <2>2 DEF RequestRefreshes
<1>10. CASE \E ch \in Channels : PollCaptures(ch)
  BY <1>2, <1>10 DEF PollCaptures, Callers
<1>11. ASSUME NEW r \in Requests,
              EditCommits(r) \/ PriceReturns(r) \/ JournalOpens(r) \/ RefreshReturns(r) \/ RequestEnds(r)
       PROVE  Epoch'
  BY <1>11, <1>u DEF EditCommits, PriceReturns, JournalOpens, RefreshReturns, RequestEnds
<1>12. CASE TradeCloses \/ TickStep \/ UNCHANGED vars
  BY <1>12, <1>u DEF TradeCloses, TickStep, TickReadsTrade, TickRecordsPoint
<1> QED BY <1>3, <1>4, <1>6, <1>7, <1>8, <1>9, <1>10, <1>11, <1>12 DEF Next, RequestStep

\* Nothing in the feed is of another type than its declaration says.
THEOREM TypeCorrect == Spec => []TypeOK
<1>1. Init => Typed /\ Epoch
  BY InitTypes, InitEpoch
<1>2. Typed /\ Epoch /\ [Next]_vars => Typed' /\ Epoch'
  BY TypeStep, EpochStep
<1>3. Typed => TypeOK
  BY DEF Typed
<1> QED BY <1>1, <1>2, <1>3, PTL DEF Spec

\* What is published was asked for by the present instrument, since it became
\* the present one: an answer under way across any number of switches, a copy
\* from the disk or a quote asked of a newer instrument is not published.
THEOREM PublicationIsOfEpoch == Spec => []PublishedIsOfEpoch
<1>1. Init => Typed /\ Epoch
  BY InitTypes, InitEpoch
<1>2. Typed /\ Epoch /\ [Next]_vars => Typed' /\ Epoch'
  BY TypeStep, EpochStep
<1>3. Epoch => PublishedIsOfEpoch
  BY DEF Epoch
<1> QED BY <1>1, <1>2, <1>3, PTL DEF Spec

-----------------------------------------------------------------------------
(* Order: a refresh that was overtaken writes and shows nothing.           *)

Active(t) == refresh[t].pc # "idle"
Latest(t) == refresh[t].generation = generation[t[1]]
Dated == Fields \ {"proxy"}

Generations ==
  /\ \A t \in Tasks : Active(t) => refresh[t].generation <= generation[t[1]]
  /\ \A t, u \in Tasks :
       t[1] = u[1] /\ Active(t) /\ Active(u) /\ refresh[t].generation = refresh[u].generation => t = u

Exclusive ==
  \A t, u \in Tasks :
    t[1] = u[1] /\ {refresh[t].pc, refresh[u].pc} \subseteq {"admitted", "stored"} => t = u

\* Nothing is newer than now.
Times ==
  /\ \A ch \in Kept, c \in Codes : disk[ch][c] # None => disk[ch][c].at <= clock
  /\ \A f \in Dated : field[f] # None => field[f].at <= clock
  /\ \A t \in Tasks : Active(t) /\ t[1] \in Dated /\ refresh[t].item # None => refresh[t].item.at <= clock
  /\ price # None => price.at <= clock
  /\ quote.pc # "idle" /\ quote.item # None => quote.item.at <= clock

\* What a refresh that may still be admitted has to store is newer than all that
\* was stored and all that an admitted refresh is about to store.
Newest(t) ==
  Active(t) /\ refresh[t].stores =>
    /\ refresh[t].item \in Observation
    /\ refresh[t].pc = "admitted" \/ (refresh[t].pc = "answered" /\ Latest(t)) =>
         (disk[t[1]][refresh[t].code] # None => disk[t[1]][refresh[t].code].at <= refresh[t].item.at)
    /\ refresh[t].pc = "answered" /\ Latest(t) =>
         \A u \in Tasks : u[1] = t[1] /\ refresh[u].pc = "admitted" /\ refresh[u].stores =>
           refresh[u].item.at <= refresh[t].item.at

Writes == \A t \in Tasks : Newest(t)

\* What a refresh shows is on disk when it is shown.
Backed ==
  \A t \in Tasks :
    /\ t[1] \in Kept /\ refresh[t].item # None
    /\ refresh[t].pc = "stored" \/ (refresh[t].pc \in {"answered", "admitted"} /\ ~refresh[t].stores)
    => /\ disk[t[1]][refresh[t].code] # None
       /\ refresh[t].item.at <= disk[t[1]][refresh[t].code].at

\* What may still be published is as new as what is.
Advancing ==
  /\ \A t \in Tasks :
       /\ Active(t) /\ t[1] \in Dated /\ Latest(t) /\ refresh[t].revision = revision
       /\ refresh[t].item # None /\ field[t[1]] # None
       => field[t[1]].at <= refresh[t].item.at
  /\ quote.pc # "idle" /\ quote.revision = revision /\ quote.item # None /\ price # None
       => price.at <= quote.item.at

Order == Generations /\ Exclusive /\ Times /\ Writes /\ Backed /\ ShownIsOnDisk /\ Advancing

QuoteStep ==
  /\ \/ \E who \in Callers : StartPrice(who)
     \/ AskQuote \/ TickArrives \/ TrimBars \/ IndicationArrives \/ PublishPrice
  /\ UNCHANGED <<code, revision, field, refreshVars>>
  /\ UNCHANGED price \/ PublishPrice
  /\ clock' \in {clock, clock + 1}

\* What a step can do to the feed, whoever takes it.
LEMMA StepKinds ==
  ASSUME Typed, [Next]_vars
  PROVE  \/ UNCHANGED <<feedVars, refreshVars, clock, quote>>
         \/ \E c \in Codes : SetInstrument(c) /\ UNCHANGED <<refreshVars, clock, quote>>
         \/ \E ch \in Channels, who \in Callers : Capture(ch, who)
         \/ \E t \in Tasks : Answers(t) \/ Admit(t) \/ Store(t) \/ Publish(t)
         \/ QuoteStep
<1> USE DEF vars, feedVars, refreshVars, deskVars
<1>1. CASE \E ch \in Channels : PollCaptures(ch)
  BY <1>1 DEF PollCaptures, Callers
<1>2. CASE PollPrices \/ PriceStep
  BY <1>2 DEF PollPrices, PriceStep, QuoteStep, AskQuote, TickArrives, TrimBars, IndicationArrives,
     PublishPrice, Observe, Callers
<1>3. ASSUME NEW r \in Requests, RequestPrice(r) PROVE QuoteStep \/ UNCHANGED <<feedVars, refreshVars, clock, quote>>
  BY <1>3 DEF RequestPrice, QuoteStep, Callers
<1>4. ASSUME NEW r \in Requests, OpenArrives(r) \/ Follow(r)
      PROVE  \E c \in Codes : SetInstrument(c) /\ UNCHANGED <<refreshVars, clock, quote>>
  <2>1. Follow(r) => request[r].code \in Codes
    BY DEF Follow, Typed, Named
  <2> QED BY <1>4, <2>1 DEF OpenArrives, Follow
<1>5. ASSUME NEW r \in Requests, RequestRefreshes(r)
      PROVE  \E ch \in Channels, who \in Callers : Capture(ch, who)
  <2>1. request[r].todo \in SUBSET FollowUps /\ request[r].todo # {}
    BY <1>5, TypeParts DEF RequestRefreshes, RequestRecords, Typed
  <2>2. First(request[r].todo) \in Channels /\ r \in Callers
    BY <2>1, FirstIsLeft DEF Callers
  <2> QED BY <1>5, <2>2 DEF RequestRefreshes
<1>6. ASSUME NEW r \in Requests,
             EditCommits(r) \/ PriceReturns(r) \/ JournalOpens(r) \/ RefreshReturns(r) \/ RequestEnds(r)
      PROVE  UNCHANGED <<feedVars, refreshVars, clock, quote>>
  BY <1>6 DEF EditCommits, PriceReturns, JournalOpens, RefreshReturns, RequestEnds
<1>7. CASE TradeCloses \/ TickStep \/ UNCHANGED vars
  BY <1>7 DEF TradeCloses, TickStep, TickReadsTrade, TickRecordsPoint
<1> QED BY <1>1, <1>2, <1>3, <1>4, <1>5, <1>6, <1>7 DEF Next, RequestStep

LEMMA CaptureFacts ==
  ASSUME Typed, NEW ch \in Channels, NEW who \in Callers, Capture(ch, who)
  PROVE  /\ <<ch, who>> \in Tasks /\ <<ch, who>>[1] = ch /\ refresh[<<ch, who>>].pc = "idle"
         /\ UNCHANGED <<code, revision, price, field, disk, clock, quote>>
         /\ generation'[ch] = generation[ch] + 1
         /\ \A other \in Channels \ {ch} : generation'[other] = generation[other]
         /\ \A u \in Tasks \ {<<ch, who>>} : refresh'[u] = refresh[u]
         /\ LET r == refresh'[<<ch, who>>] IN
              /\ r.pc = "asked" /\ r.code = code /\ r.revision = revision /\ ~r.stores
              /\ r.generation = generation[ch] + 1
              /\ ch \in Fields => r.item = field[ch]
<1>1. PICK i \in Seen :
        /\ Copy(ch, i) \in Refreshes /\ refresh' = [refresh EXCEPT ![<<ch, who>>] = Copy(ch, i)]
        /\ i = IF ch \in Fields THEN field[ch] ELSE None
  BY CaptureShape
<1>2. /\ <<ch, who>> \in Tasks /\ refresh[<<ch, who>>].pc = "idle"
      /\ UNCHANGED <<feedVars, disk, clock, quote>>
      /\ generation' = [generation EXCEPT ![ch] = generation[ch] + 1]
  BY CaptureShape
<1>3. refresh \in [Tasks -> Refreshes] /\ generation \in [Channels -> Nat]
  BY TypeParts DEF Typed, TypeOK
<1>4. /\ refresh'[<<ch, who>>] = Copy(ch, i)
      /\ \A u \in Tasks \ {<<ch, who>>} : refresh'[u] = refresh[u]
  BY <1>1, <1>2, <1>3
<1> QED BY <1>1, <1>2, <1>3, <1>4 DEF Copy, feedVars

LEMMA AnswerFacts ==
  ASSUME Typed, Epoch, NEW t \in Tasks, Answers(t)
  PROVE  /\ refresh[t].pc = "asked"
         /\ UNCHANGED <<code, revision, price, field, disk, generation, quote>>
         /\ clock' \in {clock, clock + 1}
         /\ \A u \in Tasks \ {t} : refresh'[u] = refresh[u]
         /\ LET r == refresh'[t]
                kept == disk[t[1]][refresh[t].code]
            IN /\ r.pc = "answered" /\ r.code = refresh[t].code /\ r.revision = refresh[t].revision
               /\ r.generation = refresh[t].generation
               /\ r.stores => t[1] \in Kept /\ r.item \in Observation
                              /\ r.item.at = clock + 1 /\ clock' = clock + 1
               /\ r.item # None =>
                    \/ r.item.at = clock + 1 /\ clock' = clock + 1
                    \/ t[1] \in Fields \ Kept /\ refresh[t].item # None /\ r.item.at = refresh[t].item.at
                    \/ t[1] \notin Fields
                    \/ t[1] \in Kept /\ kept # None /\ r.item.at = kept.at
               /\ ~r.stores /\ t[1] \in Kept /\ r.item # None => kept # None /\ r.item.at = kept.at
<1>1. refresh[t].pc = "asked"
  BY DEF Answers, ProxyAnswers, DailyAnswers, ChainAnswers, IvAnswers, IntradayAnswers, Asked
<1>2. refresh \in [Tasks -> Refreshes]
  BY TypeParts DEF Typed
<1>3. /\ \A ch \in Kept, c \in Codes : disk[ch][c] # None => disk[ch][c].code = c
      /\ Own(refresh[t].item, refresh[t]) /\ Own(refresh[t].proxy, refresh[t]) /\ ~refresh[t].stores
  BY <1>1 DEF Epoch, RefreshOfEpoch, DiskOfInstrument
<1>4. /\ UNCHANGED <<feedVars, disk, generation, quote, deskVars>> /\ clock' \in {clock, clock + 1}
      /\ \E i \in Seen, p \in Seen, b \in SUBSET Codes, s \in BOOLEAN :
           /\ Reply(t, i, p, b, s)
           /\ s => t[1] \in Kept /\ i \in Observation /\ i.at = clock + 1 /\ clock' = clock + 1
           /\ i # None => \/ i.at = clock + 1 /\ clock' = clock + 1
                          \/ t[1] \in Fields \ Kept /\ refresh[t].item # None /\ i.at = refresh[t].item.at
                          \/ t[1] \notin Fields
                          \/ t[1] \in Kept /\ disk[t[1]][refresh[t].code] # None
                             /\ i.at = disk[t[1]][refresh[t].code].at
           /\ ~s /\ t[1] \in Kept /\ i # None =>
                disk[t[1]][refresh[t].code] # None /\ i.at = disk[t[1]][refresh[t].code].at
  BY <1>3, AnswerShape
<1>5. PICK i \in Seen, p \in Seen, b \in SUBSET Codes, s \in BOOLEAN :
           /\ Reply(t, i, p, b, s)
           /\ s => t[1] \in Kept /\ i \in Observation /\ i.at = clock + 1 /\ clock' = clock + 1
           /\ i # None => \/ i.at = clock + 1 /\ clock' = clock + 1
                          \/ t[1] \in Fields \ Kept /\ refresh[t].item # None /\ i.at = refresh[t].item.at
                          \/ t[1] \notin Fields
                          \/ t[1] \in Kept /\ disk[t[1]][refresh[t].code] # None
                             /\ i.at = disk[t[1]][refresh[t].code].at
           /\ ~s /\ t[1] \in Kept /\ i # None =>
                disk[t[1]][refresh[t].code] # None /\ i.at = disk[t[1]][refresh[t].code].at
  BY <1>4
<1>6. /\ \A u \in Tasks \ {t} : refresh'[u] = refresh[u]
      /\ refresh'[t] = [refresh[t] EXCEPT !.pc = "answered", !.item = i, !.proxy = p, !.bars = b, !.stores = s]
  BY <1>2, <1>5 DEF Reply
<1>7. /\ refresh'[t].pc = "answered" /\ refresh'[t].code = refresh[t].code
      /\ refresh'[t].revision = refresh[t].revision /\ refresh'[t].generation = refresh[t].generation
      /\ refresh'[t].item = i /\ refresh'[t].stores = s
  BY <1>2, <1>6 DEF Refreshes
<1> QED BY <1>1, <1>4, <1>5, <1>6, <1>7 DEF feedVars

\* From its answer to its end a refresh keeps what it was asked and told.
LEMMA MoveFacts ==
  ASSUME Typed, NEW t \in Tasks, Admit(t) \/ Store(t) \/ Publish(t)
  PROVE  /\ UNCHANGED <<code, revision, price, generation, clock, quote>>
         /\ refresh[t].code \in Codes
         /\ \A u \in Tasks \ {t} : refresh'[u] = refresh[u]
         /\ \/ refresh'[t].pc = "idle"
            \/ /\ refresh'[t].code = refresh[t].code /\ refresh'[t].revision = refresh[t].revision
               /\ refresh'[t].generation = refresh[t].generation
               /\ refresh'[t].item = refresh[t].item /\ refresh'[t].stores = refresh[t].stores
               /\ \/ /\ Admit(t) /\ Current(t) /\ PublicationFree(t[1])
                    /\ refresh[t].pc = "answered" /\ refresh'[t].pc = "admitted"
                  \/ Store(t) /\ refresh[t].pc = "admitted" /\ refresh'[t].pc = "stored"
         /\ refresh[t].pc # "idle"
         /\ Store(t) => refresh'[t].pc = "stored"
<1>1. refresh \in [Tasks -> Refreshes] /\ refresh[t] \in Refreshes
  BY TypeParts DEF Typed
<1>2. refresh[t].pc # "idle" /\ refresh[t].code \in Codes
  BY DEF Admit, Store, Publish, Typed, Named
<1>3. UNCHANGED <<code, revision, price, generation, clock, quote>>
  BY DEF Admit, Store, Publish, feedVars
<1>4. CASE refresh' = [refresh EXCEPT ![t] = NoRefresh] /\ ~Store(t)
  BY <1>1, <1>2, <1>3, <1>4 DEF NoRefresh
<1>5. CASE Admit(t) /\ Current(t)
  <2>1. refresh' = [refresh EXCEPT ![t] = [refresh[t] EXCEPT !.pc = "admitted"]]
        /\ refresh[t].pc = "answered" /\ PublicationFree(t[1])
    BY <1>1, <1>5 DEF Admit
  <2>2. ~Store(t)
    BY <2>1 DEF Store
  <2> QED BY <1>1, <1>2, <1>3, <1>5, <2>1, <2>2 DEF Refreshes
<1>6. CASE Store(t)
  <2>1. refresh' = [refresh EXCEPT ![t] = [refresh[t] EXCEPT !.pc = "stored"]]
        /\ refresh[t].pc = "admitted"
    BY <1>1, <1>6 DEF Store
  <2> QED BY <1>1, <1>2, <1>3, <1>6, <2>1 DEF Refreshes
<1>7. (Admit(t) /\ ~Current(t)) \/ Publish(t) => refresh' = [refresh EXCEPT ![t] = NoRefresh] /\ ~Store(t)
  <2>1. Admit(t) \/ Publish(t) => ~Store(t)
    BY DEF Admit, Publish, Store
  <2> QED BY <1>1, <2>1 DEF Admit, Publish
<1> QED BY <1>4, <1>5, <1>6, <1>7

\* Who writes the disk and who changes what is published.
LEMMA Writers ==
  ASSUME Typed, Epoch, [Next]_vars
  PROVE  /\ UNCHANGED disk \/ \E t \in Tasks : Store(t) /\ refresh[t].stores
         /\ \/ UNCHANGED field \/ (field' = [g \in Fields |-> None] /\ revision' = revision + 1)
            \/ \E t \in Tasks : Publish(t) /\ Current(t) /\ field' = Published(t)
         /\ \/ UNCHANGED <<price, quote>> \/ QuoteStep
            \/ price' = None /\ UNCHANGED quote /\ revision' = revision + 1
         /\ UNCHANGED <<code, revision>> \/ (price' = None /\ field' = [g \in Fields |-> None])
<1>0. \/ UNCHANGED <<code, revision>>
      \/ \E c \in Codes : SetInstrument(c) /\ UNCHANGED <<refreshVars, clock, quote>>
  <2>1. ASSUME NEW k \in Channels, NEW who \in Callers, Capture(k, who) PROVE UNCHANGED <<code, revision>>
    BY <2>1 DEF Capture, feedVars
  <2>2. ASSUME NEW t \in Tasks, Answers(t) PROVE UNCHANGED <<code, revision>>
    BY <2>2, AnswerFacts
  <2>3. ASSUME NEW t \in Tasks, Admit(t) \/ Store(t) \/ Publish(t) PROVE UNCHANGED <<code, revision>>
    BY <2>3, MoveFacts
  <2> QED BY <2>1, <2>2, <2>3, StepKinds DEF QuoteStep, feedVars
<1>1. ASSUME NEW k \in Channels, NEW who \in Callers, Capture(k, who) PROVE UNCHANGED <<disk, field, price, quote>>
  BY <1>1 DEF Capture, feedVars
<1>2. ASSUME NEW t \in Tasks, Answers(t) PROVE UNCHANGED <<disk, field, price, quote>>
  BY <1>2, AnswerFacts
<1>3. ASSUME NEW t \in Tasks, Admit(t) PROVE UNCHANGED <<disk, field, price, quote>>
  BY <1>3 DEF Admit, feedVars
<1>4. ASSUME NEW t \in Tasks, Store(t)
      PROVE  UNCHANGED <<field, price, quote>> /\ (UNCHANGED disk \/ refresh[t].stores)
  BY <1>4 DEF Store, feedVars
<1>5. ASSUME NEW t \in Tasks, Publish(t)
      PROVE  /\ UNCHANGED <<disk, price, quote>>
             /\ UNCHANGED field \/ (Current(t) /\ field' = Published(t))
  BY <1>5 DEF Publish
<1>6. ASSUME NEW c \in Codes, SetInstrument(c)
      PROVE  \/ UNCHANGED <<field, price>>
             \/ field' = [g \in Fields |-> None] /\ price' = None /\ revision' = revision + 1
  BY <1>6 DEF SetInstrument, feedVars
<1>7. ASSUME NEW c \in Codes, SetInstrument(c)
      PROVE  UNCHANGED <<code, revision>> \/ (price' = None /\ field' = [g \in Fields |-> None])
  BY <1>7 DEF SetInstrument, feedVars
<1>8. UNCHANGED <<code, revision>> \/ (price' = None /\ field' = [g \in Fields |-> None])
  BY <1>0, <1>7
<1> QED BY <1>8, <1>1, <1>2, <1>3, <1>4, <1>5, <1>6, StepKinds DEF QuoteStep, refreshVars, feedVars

\* A write leaves the rows of other channels and instruments alone, and its own
\* row is no older than it was.
LEMMA StoreFacts ==
  ASSUME Typed, Epoch, Writes, NEW t \in Tasks, Store(t)
  PROVE  /\ UNCHANGED field /\ refresh[t].pc = "admitted"
         /\ ~refresh[t].stores => UNCHANGED disk
         /\ refresh[t].stores =>
              /\ t[1] \in Kept /\ refresh[t].item # None
              /\ disk'[t[1]][refresh[t].code] = refresh[t].item
              /\ disk[t[1]][refresh[t].code] # None =>
                   disk[t[1]][refresh[t].code].at <= refresh[t].item.at
         /\ \A ch \in Kept, c \in Codes : ch # t[1] \/ c # refresh[t].code => disk'[ch][c] = disk[ch][c]
<1>1. refresh[t].pc = "admitted" /\ refresh[t].code \in Codes /\ UNCHANGED field
      /\ disk' = IF refresh[t].stores
                 THEN [disk EXCEPT ![t[1]] = [@ EXCEPT ![refresh[t].code] = Stored(t)]]
                 ELSE disk
  BY DEF Store, Typed, Named, feedVars
<1>2. CASE ~refresh[t].stores
  BY <1>1, <1>2
<1>3. CASE refresh[t].stores
  <2> DEFINE kept == disk[t[1]][refresh[t].code]
  <2>1. t[1] \in Kept /\ refresh[t].item \in Observation
        /\ (kept # None => kept.at <= refresh[t].item.at)
    BY <1>1, <1>3 DEF Epoch, RefreshOfEpoch, Writes, Newest, Active
  <2>2. refresh[t].item # None
    BY <2>1, FeedAssumption
  <2>3. Stored(t) = refresh[t].item
    <3>1. kept \in Seen
      BY <1>1, <2>1 DEF Typed, TypeOK
    <3>2. kept # None => ~(kept.at > refresh[t].item.at)
      BY <2>1, <3>1 DEF Seen, Observation
    <3> QED BY <1>1, <2>1, <3>2 DEF Stored
  <2> QED BY <1>1, <1>3, <2>1, <2>2, <2>3 DEF Typed, TypeOK
<1> QED BY <1>2, <1>3

\* Only an admitted write changes the disk, and it takes it forward.
LEMMA DiskAdvances ==
  ASSUME Typed, Epoch, Writes, [Next]_vars
  PROVE  \A ch \in Kept, c \in Codes :
           disk[ch][c] # None => disk'[ch][c] # None /\ disk[ch][c].at <= disk'[ch][c].at
<1> SUFFICES ASSUME NEW ch \in Kept, NEW c \in Codes, disk[ch][c] # None
             PROVE  disk'[ch][c] # None /\ disk[ch][c].at <= disk'[ch][c].at
  OBVIOUS
<1>1. disk[ch][c].at \in Nat
  BY DEF Typed, TypeOK, Seen, Observation
<1>2. CASE UNCHANGED disk
  BY <1>1, <1>2
<1>3. ASSUME NEW t \in Tasks, Store(t) PROVE disk'[ch][c] # None /\ disk[ch][c].at <= disk'[ch][c].at
  <2>1. CASE ch = t[1] /\ c = refresh[t].code /\ refresh[t].stores
    BY <1>3, <2>1, StoreFacts
  <2>2. CASE ~(ch = t[1] /\ c = refresh[t].code /\ refresh[t].stores)
    BY <1>1, <1>3, <2>2, StoreFacts
  <2> QED BY <2>1, <2>2
<1>4. UNCHANGED disk \/ \E t \in Tasks : Store(t)
  BY Writers
<1> QED BY <1>2, <1>3, <1>4

LEMMA GenerationsStep ==
  ASSUME Typed, Epoch, Generations, [Next]_vars PROVE Generations'
<1>0. /\ generation \in [Channels -> Nat] /\ refresh \in [Tasks -> Refreshes]
      /\ \A t \in Tasks : refresh[t].generation \in Nat /\ t[1] \in Channels
  BY TypeParts, TaskParts DEF Typed, TypeOK, Refreshes
<1>1. ASSUME UNCHANGED generation,
             \A t \in Tasks : Active(t)' => Active(t) /\ refresh'[t].generation = refresh[t].generation
      PROVE  Generations'
  BY <1>0, <1>1 DEF Generations, Active
<1>2. CASE UNCHANGED <<generation, refresh>>
  BY <1>1, <1>2 DEF Active
<1>3. ASSUME NEW ch \in Channels, NEW who \in Callers, Capture(ch, who) PROVE Generations'
  <2> DEFINE n == <<ch, who>>
  <2>0. /\ n \in Tasks /\ n[1] = ch /\ refresh'[n].generation = generation[ch] + 1
        /\ \A o \in Tasks : o # n => refresh'[o] = refresh[o]
        /\ generation'[ch] = generation[ch] + 1 /\ generation[ch] \in Nat
        /\ \A other \in Channels : other # ch => generation'[other] = generation[other]
    BY <1>0, <1>3, CaptureFacts
  <2> HIDE DEF n
  <2>a. ASSUME NEW o \in Tasks, o # n, Active(o)'
        PROVE  Active(o) /\ refresh'[o].generation = refresh[o].generation
               /\ refresh[o].generation <= generation[o[1]]
    <3>1. refresh'[o] = refresh[o]
      BY <2>0, <2>a
    <3>2. Active(o)
      BY <2>a, <3>1 DEF Active
    <3> QED BY <3>1, <3>2 DEF Generations
  <2>1. ASSUME NEW t \in Tasks, Active(t)' PROVE refresh'[t].generation <= generation'[t[1]]
    <3>1. CASE t = n
      BY <2>0, <3>1
    <3>2. CASE t # n
      <4>1. refresh'[t].generation <= generation[t[1]] /\ refresh'[t].generation \in Nat
        BY <1>0, <2>1, <2>a, <3>2
      <4>2. generation[t[1]] <= generation'[t[1]] /\ generation'[t[1]] \in Nat /\ generation[t[1]] \in Nat
        BY <1>0, <2>0
      <4> QED BY <4>1, <4>2
    <3> QED BY <3>1, <3>2
  <2>2. ASSUME NEW t \in Tasks, NEW u \in Tasks, t[1] = u[1], Active(t)', Active(u)', t # u
        PROVE  refresh'[t].generation # refresh'[u].generation
    <3>1. ASSUME NEW o \in Tasks, o # n, o[1] = ch, Active(o)'
          PROVE  refresh'[o].generation # generation[ch] + 1
      <4>1. refresh'[o].generation <= generation[ch] /\ refresh'[o].generation \in Nat
        BY <1>0, <2>a, <3>1
      <4> QED BY <2>0, <4>1
    <3>3. CASE t = n
      BY <2>0, <2>2, <3>1, <3>3
    <3>4. CASE u = n
      BY <2>0, <2>2, <3>1, <3>4
    <3>5. CASE t # n /\ u # n
      BY <2>2, <2>a, <3>5 DEF Generations
    <3> QED BY <3>3, <3>4, <3>5
  <2> QED BY <2>1, <2>2 DEF Generations
<1>4. ASSUME NEW t \in Tasks, Answers(t) PROVE Generations'
  BY <1>1, <1>4, AnswerFacts DEF Active
<1>5. ASSUME NEW t \in Tasks, Admit(t) \/ Store(t) \/ Publish(t) PROVE Generations'
  BY <1>1, <1>5, MoveFacts DEF Active
<1> QED BY <1>2, <1>3, <1>4, <1>5, StepKinds DEF QuoteStep, refreshVars

LEMMA ExclusiveStep ==
  ASSUME Typed, Epoch, Exclusive, [Next]_vars PROVE Exclusive'
<1>1. ASSUME \A t \in Tasks : refresh'[t].pc \in {"admitted", "stored"} => refresh[t].pc \in {"admitted", "stored"}
      PROVE  Exclusive'
  BY <1>1 DEF Exclusive
<1>2. CASE UNCHANGED refresh
  BY <1>1, <1>2
<1>3. ASSUME NEW ch \in Channels, NEW who \in Callers, Capture(ch, who) PROVE Exclusive'
  BY <1>1, <1>3, CaptureFacts
<1>4. ASSUME NEW t \in Tasks, Answers(t) PROVE Exclusive'
  BY <1>1, <1>4, AnswerFacts
<1>5. ASSUME NEW t \in Tasks, Admit(t) \/ Store(t) \/ Publish(t) PROVE Exclusive'
  <2>1. CASE ~Admit(t) \/ refresh'[t].pc = "idle"
    BY <1>1, <1>5, <2>1, MoveFacts
  <2>2. CASE Admit(t) /\ PublicationFree(t[1])
    <3>1. ASSUME NEW u \in Tasks, u[1] = t[1] PROVE refresh[u].pc \notin {"admitted", "stored"}
      BY <2>2, <3>1, TaskParts DEF PublicationFree
    <3>2. \A u \in Tasks \ {t} : refresh'[u] = refresh[u]
      BY <1>5, MoveFacts
    <3> QED BY <3>1, <3>2 DEF Exclusive
  <2>3. Admit(t) => PublicationFree(t[1])
    BY DEF Admit
  <2> QED BY <2>1, <2>2, <2>3
<1> QED BY <1>2, <1>3, <1>4, <1>5, StepKinds DEF QuoteStep, refreshVars

LEMMA QuoteFacts ==
  ASSUME Typed, QuoteStep
  PROVE  /\ \/ price' = price
            \/ /\ price' = quote.item /\ quote.pc = "answered" /\ quote.revision = revision
               /\ quote'.pc = "idle"
         /\ quote'.pc # "idle" /\ quote'.item # None =>
              \/ quote'.item = price /\ price' = price
              \/ /\ quote.pc # "idle" /\ quote'.revision = quote.revision /\ price' = price
                 /\ \/ quote'.item.at = clock + 1 /\ clock' = clock + 1
                    \/ quote.item # None /\ quote'.item.at = quote.item.at
<1>0. quote \in Quotes /\ quote.item \in Seen
  BY TypeParts DEF Typed, Quotes
<1>1. CASE \E who \in Callers : StartPrice(who)
  <2>1. quote'.item = price
    BY <1>1 DEF StartPrice, NoQuote
  <2>2. UNCHANGED price
    <3>1. quote.pc = "idle"
      BY <1>1 DEF StartPrice
    <3>2. ~PublishPrice
      BY <3>1 DEF PublishPrice
    <3> QED BY <3>2 DEF QuoteStep
  <2> QED BY <2>1, <2>2
<1>2. CASE AskQuote \/ TrimBars
  <2>1. quote'.item = quote.item /\ quote'.revision = quote.revision /\ quote.pc # "idle" /\ price' = price
    BY <1>0, <1>2 DEF AskQuote, TrimBars, Quotes, feedVars
  <2> QED BY <2>1
<1>3. CASE TickArrives
  <2>1. quote' = [quote EXCEPT !.pc = "trimming", !.item = Quoted(TRUE), !.bars = intraday']
        /\ quote.pc # "idle" /\ price' = price /\ clock' = clock + 1
    BY <1>3 DEF TickArrives, Observe
  <2>2. quote'.item = Quoted(TRUE) /\ quote'.revision = quote.revision
    BY <1>0, <2>1 DEF Quotes
  <2> QED BY <2>1, <2>2 DEF Quoted
<1>4. CASE IndicationArrives
  <2>1. quote.pc # "idle" /\ price' = price
    BY <1>4 DEF IndicationArrives, feedVars
  <2>2. CASE Observe /\ quote' = [quote EXCEPT !.pc = "answered", !.item = Quoted(FALSE)]
    <3>1. quote'.item = Quoted(FALSE) /\ quote'.revision = quote.revision /\ clock' = clock + 1
      BY <1>0, <2>2 DEF Quotes, Observe
    <3> QED BY <2>1, <3>1 DEF Quoted
  <2>3. ASSUME NEW kept \in {quote.item, Dimmed(quote.item), None}, quote' = [quote EXCEPT !.pc = "answered", !.item = kept]
        PROVE  /\ quote'.revision = quote.revision
               /\ quote'.item # None => quote.item # None /\ quote'.item.at = quote.item.at
    <3>1. quote'.item = kept /\ quote'.revision = quote.revision
      BY <1>0, <2>3 DEF Quotes
    <3> QED BY <1>0, <2>3, <3>1, DimmedSeen
  <2> QED BY <1>4, <2>1, <2>2, <2>3 DEF IndicationArrives
<1>5. CASE PublishPrice
  BY <1>5 DEF PublishPrice, NoQuote
<1> QED BY <1>1, <1>2, <1>3, <1>4, <1>5 DEF QuoteStep

LEMMA ClockStep == ASSUME Typed, Epoch, [Next]_vars PROVE clock \in Nat /\ clock' \in Nat /\ clock <= clock'
<1>1. clock \in Nat
  BY DEF Typed, TypeOK
<1>2. clock' \in {clock, clock + 1}
  <2>1. ASSUME NEW ch \in Channels, NEW who \in Callers, Capture(ch, who) PROVE UNCHANGED clock
    BY <2>1 DEF Capture
  <2>2. ASSUME NEW t \in Tasks, Answers(t) PROVE clock' \in {clock, clock + 1}
    BY <2>2, AnswerFacts
  <2>3. ASSUME NEW t \in Tasks, Admit(t) \/ Store(t) \/ Publish(t) PROVE UNCHANGED clock
    BY <2>3, MoveFacts
  <2> QED BY <2>1, <2>2, <2>3, StepKinds DEF QuoteStep
<1> QED BY <1>1, <1>2

\* When an observation was made is a number.
LEMMA Dates ==
  ASSUME Typed
  PROVE  /\ \A ch \in Kept, c \in Codes : disk[ch][c] # None => disk[ch][c].at \in Nat
         /\ \A f \in Fields : field[f] # None => field[f].at \in Nat
         /\ \A t \in Tasks : refresh[t].item # None => refresh[t].item.at \in Nat
         /\ price # None => price.at \in Nat
         /\ quote.item # None => quote.item.at \in Nat
<1>1. \A o \in Seen : o # None => o.at \in Nat
  BY DEF Seen, Observation
<1>2. /\ \A ch \in Kept, c \in Codes : disk[ch][c] \in Seen
      /\ \A f \in Fields : field[f] \in Seen
      /\ price \in Seen
  BY DEF Typed, TypeOK
<1>3. quote.item \in Seen /\ \A t \in Tasks : refresh[t].item \in Seen
  BY TypeParts DEF Typed, Quotes, Refreshes
<1> QED BY <1>1, <1>2, <1>3

LEMMA TimesStep ==
  ASSUME Typed, Epoch, Times, [Next]_vars PROVE Times'
<1>0. clock \in Nat /\ clock' \in Nat /\ clock <= clock'
  BY ClockStep
<1>1. ASSUME NEW ch \in Kept, NEW c \in Codes, disk'[ch][c] # None PROVE disk'[ch][c].at <= clock'
  <2>1. CASE UNCHANGED disk
    BY <1>0, <1>1, <2>1, Dates DEF Times
  <2>2. ASSUME NEW t \in Tasks, Store(t), refresh[t].stores PROVE disk'[ch][c].at <= clock'
    <3>1. t[1] \in Kept /\ refresh[t].code \in Codes /\ refresh[t].pc # "idle"
      BY <2>2 DEF Epoch, RefreshOfEpoch, Store, Typed, Named
    <3>2. disk'[ch][c] \in {disk[ch][c], refresh[t].item}
      <4>1. disk' = [disk EXCEPT ![t[1]] = [@ EXCEPT ![refresh[t].code] = Stored(t)]]
        BY <2>2 DEF Store
      <4>2. Stored(t) \in {disk[t[1]][refresh[t].code], refresh[t].item}
        BY <3>1, StoredShape
      <4> QED BY <3>1, <4>1, <4>2 DEF Typed, TypeOK
    <3>3. t[1] \in Dated
      BY <3>1 DEF Kept, Dated, Fields
    <3>4. refresh[t].item # None => refresh[t].item.at <= clock
      BY <3>1, <3>3 DEF Times, Active
    <3> QED BY <1>0, <1>1, <3>2, <3>4, Dates DEF Times
  <2>3. UNCHANGED disk \/ \E t \in Tasks : Store(t) /\ refresh[t].stores
    BY Writers
  <2> QED BY <2>1, <2>2, <2>3
<1>2. ASSUME NEW f \in Dated, field'[f] # None PROVE field'[f].at <= clock'
  <2>0. f \in Fields
    BY DEF Dated
  <2>1. CASE UNCHANGED field
    BY <1>0, <1>2, <2>0, <2>1, Dates DEF Times
  <2>2. ASSUME NEW t \in Tasks, Publish(t), field' = Published(t) PROVE field'[f].at <= clock'
    <3>1. Active(t)
      BY <2>2 DEF Publish, Active
    <3>2. CASE f = t[1]
      BY <1>0, <1>2, <2>0, <2>2, <3>1, <3>2, PublishedShape, Dates DEF Times
    <3>3. CASE f # t[1]
      <4>1. Published(t)[f] = field[f]
        BY <2>0, <3>3, PublishedShape DEF Dated
      <4> QED BY <1>0, <1>2, <2>0, <2>2, <4>1, Dates DEF Times
    <3> QED BY <3>2, <3>3
  <2>3. CASE field' = [g \in Fields |-> None]
    BY <1>2, <2>0, <2>3
  <2>4. \/ UNCHANGED field \/ field' = [g \in Fields |-> None]
        \/ \E t \in Tasks : Publish(t) /\ field' = Published(t)
    BY Writers
  <2> QED BY <2>1, <2>2, <2>3, <2>4
<1>3. ASSUME NEW t \in Tasks, Active(t)', t[1] \in Dated, refresh'[t].item # None
      PROVE  refresh'[t].item.at <= clock'
  <2>1. CASE Active(t) /\ refresh'[t] = refresh[t]
    BY <1>0, <1>3, <2>1, Dates DEF Times
  <2>1a. CASE UNCHANGED refresh
    BY <1>3, <2>1, <2>1a DEF Active
  <2>2. ASSUME NEW ch \in Channels, NEW who \in Callers, Capture(ch, who)
        PROVE  refresh'[t].item.at <= clock'
    <3> DEFINE n == <<ch, who>>
    <3>1. /\ n \in Tasks /\ n[1] = ch /\ (ch \in Fields => refresh'[n].item = field[ch])
          /\ \A o \in Tasks : o # n => refresh'[o] = refresh[o]
      BY <2>2, CaptureFacts
    <3> HIDE DEF n
    <3>2. CASE t = n
      <4>1. t[1] \in Fields /\ refresh'[t].item = field[t[1]]
        BY <1>3, <3>1, <3>2 DEF Dated
      <4> QED BY <1>0, <1>3, <4>1, Dates DEF Times
    <3>3. CASE t # n
      BY <1>3, <2>1, <3>1, <3>3 DEF Active
    <3> QED BY <3>2, <3>3
  <2>3. ASSUME NEW u \in Tasks, Answers(u) PROVE refresh'[t].item.at <= clock'
    <3>1. CASE t # u
      BY <1>3, <2>1, <2>3, <3>1, AnswerFacts DEF Active
    <3>2. CASE t = u
      <4>1. /\ refresh[t].pc = "asked" /\ refresh[t].code \in Codes
            /\ \/ refresh'[t].item.at = clock + 1 /\ clock' = clock + 1
               \/ refresh[t].item # None /\ refresh'[t].item.at = refresh[t].item.at
               \/ t[1] \in Kept /\ disk[t[1]][refresh[t].code] # None
                  /\ refresh'[t].item.at = disk[t[1]][refresh[t].code].at
        BY <1>3, <2>3, <3>2, AnswerFacts DEF Dated, Typed, Named
      <4>2. Active(t)
        BY <4>1 DEF Active
      <4> QED BY <1>0, <1>3, <4>1, <4>2, Dates DEF Times
    <3> QED BY <3>1, <3>2
  <2>4. ASSUME NEW u \in Tasks, Admit(u) \/ Store(u) \/ Publish(u) PROVE refresh'[t].item.at <= clock'
    <3>1. CASE t # u
      BY <1>3, <2>1, <2>4, <3>1, MoveFacts DEF Active
    <3>2. CASE t = u
      <4>1. Active(t) /\ refresh'[t].item = refresh[t].item
        BY <1>3, <2>4, <3>2, MoveFacts DEF Active
      <4> QED BY <1>0, <1>3, <4>1, Dates DEF Times
    <3> QED BY <3>1, <3>2
  <2> QED BY <2>1a, <2>2, <2>3, <2>4, StepKinds DEF QuoteStep, refreshVars
<1>4. /\ price' # None => price'.at <= clock'
      /\ quote'.pc # "idle" /\ quote'.item # None => quote'.item.at <= clock'
  <2>1. CASE UNCHANGED <<price, quote>>
    BY <1>0, <2>1, Dates DEF Times
  <2>2. CASE price' = None /\ UNCHANGED quote
    BY <1>0, <2>2, Dates DEF Times
  <2>3. CASE QuoteStep
    BY <1>0, <2>3, QuoteFacts, Dates DEF Times
  <2>4. UNCHANGED <<price, quote>> \/ (price' = None /\ UNCHANGED quote) \/ QuoteStep
    BY Writers
  <2> QED BY <2>1, <2>2, <2>3, <2>4
<1> QED BY <1>1, <1>2, <1>3, <1>4 DEF Times

LEMMA WritesStep ==
  ASSUME Typed, Epoch, Generations, Exclusive, Times, Writes, [Next]_vars PROVE Writes'
<1> SUFFICES ASSUME NEW t \in Tasks PROVE Newest(t)'
  BY DEF Writes
<1>0. /\ clock \in Nat /\ \A k \in Channels : generation[k] \in Nat
      /\ \A u \in Tasks : refresh[u].generation \in Nat /\ u[1] \in Channels /\ Newest(u)
      /\ \A u \in Tasks : refresh[u].pc # "idle" => refresh[u].code \in Codes
      /\ \A u \in Tasks : refresh[u].pc # "idle" /\ refresh[u].stores => u[1] \in Kept /\ u[1] \in Dated
  <2>1. refresh \in [Tasks -> Refreshes] /\ Kept \subseteq Dated
    BY TypeParts DEF Typed, Kept, Dated, Fields
  <2> QED BY <2>1, TaskParts DEF Typed, TypeOK, Named, Refreshes, Epoch, RefreshOfEpoch, Writes
<1>1. CASE UNCHANGED <<disk, generation, refresh>>
  BY <1>0, <1>1 DEF Newest, Active, Latest
<1>2. ASSUME NEW ch \in Channels, NEW who \in Callers, Capture(ch, who) PROVE Newest(t)'
  <2> DEFINE n == <<ch, who>>
  <2>1. /\ n \in Tasks /\ n[1] = ch /\ refresh'[n].pc = "asked" /\ ~refresh'[n].stores
        /\ \A o \in Tasks : o # n => refresh'[o] = refresh[o]
        /\ generation'[ch] = generation[ch] + 1 /\ UNCHANGED disk
        /\ \A other \in Channels : other # ch => generation'[other] = generation[other]
    BY <1>2, CaptureFacts
  <2> HIDE DEF n
  <2>2. CASE t = n
    BY <2>1, <2>2 DEF Newest
  <2>3. CASE t # n
    <3>1. Active(t) /\ Latest(t)' => Latest(t)
      <4>1. Active(t) => refresh[t].generation <= generation[t[1]]
        BY DEF Generations
      <4> QED BY <1>0, <2>1, <2>3, <4>1 DEF Latest
    <3>2. \A u \in Tasks : refresh'[u].pc = "admitted" => refresh'[u] = refresh[u]
      BY <2>1
    <3> QED BY <1>0, <2>1, <2>3, <3>1, <3>2 DEF Newest, Active
  <2> QED BY <2>2, <2>3
<1>3. ASSUME NEW a \in Tasks, Answers(a) PROVE Newest(t)'
  <2>1. /\ UNCHANGED <<disk, generation>> /\ \A u \in Tasks : u # a => refresh'[u] = refresh[u]
        /\ refresh[a].pc = "asked" /\ refresh'[a].pc = "answered" /\ refresh'[a].code = refresh[a].code
        /\ refresh'[a].stores => a[1] \in Kept /\ refresh'[a].item \in Observation
                                 /\ refresh'[a].item.at = clock + 1
    BY <1>3, AnswerFacts
  <2>2. \A u \in Tasks : refresh'[u].pc = "admitted" => refresh'[u] = refresh[u]
    BY <2>1
  <2>3. CASE t = a
    <3>1. refresh'[t].stores /\ disk[t[1]][refresh[t].code] # None =>
            disk[t[1]][refresh[t].code].at <= refresh'[t].item.at
      <4>1. refresh[t].code \in Codes
        BY <1>0, <2>1, <2>3
      <4> QED BY <1>0, <2>1, <2>3, <4>1, Dates DEF Times
    <3>2. ASSUME refresh'[t].stores, NEW u \in Tasks, refresh'[u].pc = "admitted", refresh'[u].stores
          PROVE  refresh'[u].item.at <= refresh'[t].item.at
      <4>1. refresh'[u] = refresh[u] /\ Active(u) /\ refresh[u].stores
        BY <2>2, <3>2 DEF Active
      <4>2. u[1] \in Dated /\ refresh[u].item \in Observation
        BY <1>0, <4>1 DEF Active, Newest
      <4>3. refresh[u].item # None
        BY <4>2, FeedAssumption
      <4>4. refresh[u].item.at <= clock /\ refresh[u].item.at \in Nat
        BY <4>1, <4>2, <4>3, Dates DEF Times
      <4> QED BY <1>0, <2>1, <2>3, <3>2, <4>1, <4>4
    <3> QED BY <2>1, <2>3, <3>1, <3>2 DEF Newest
  <2>4. CASE t # a
    BY <1>0, <2>1, <2>2, <2>4 DEF Newest, Active, Latest
  <2> QED BY <2>3, <2>4
<1>4. ASSUME NEW a \in Tasks, Admit(a) \/ Store(a) \/ Publish(a) PROVE Newest(t)'
  <2>1. /\ UNCHANGED generation /\ \A u \in Tasks : u # a => refresh'[u] = refresh[u]
        /\ refresh[a].code \in Codes /\ refresh[a].pc # "idle"
    BY <1>4, MoveFacts
  <2>2. CASE t = a
    <3>1. CASE refresh'[t].pc = "idle"
      BY <3>1 DEF Newest, Active
    <3>2. CASE Admit(t) /\ Current(t) /\ refresh'[t].pc = "admitted"
      <4>1. UNCHANGED disk /\ Latest(t) /\ refresh[t].pc = "answered"
        BY <3>2 DEF Admit, Current, Latest
      <4>2. /\ refresh'[t].code = refresh[t].code /\ refresh'[t].item = refresh[t].item
            /\ refresh'[t].stores = refresh[t].stores
        BY <3>2, MoveFacts
      <4> QED BY <1>0, <3>2, <4>1, <4>2 DEF Newest, Active
    <3>3. CASE refresh'[t].pc = "stored"
      <4>1. refresh'[t].item = refresh[t].item /\ refresh'[t].stores = refresh[t].stores
        BY <1>4, <2>2, <3>3, MoveFacts
      <4> QED BY <1>0, <2>1, <2>2, <3>3, <4>1 DEF Newest, Active
    <3> QED BY <1>4, <2>2, <3>1, <3>2, <3>3, MoveFacts
  <2>3. CASE t # a
    <3>1. refresh'[t] = refresh[t] /\ (Latest(t)' = Latest(t))
      BY <2>1, <2>3 DEF Latest
    <3>2. ASSUME Active(t), refresh[t].stores,
                 refresh[t].pc = "admitted" \/ (refresh[t].pc = "answered" /\ Latest(t)),
                 disk'[t[1]][refresh[t].code] # None
          PROVE  disk'[t[1]][refresh[t].code].at <= refresh[t].item.at
      <4>0. t[1] \in Kept /\ refresh[t].code \in Codes
        BY <1>0, <3>2 DEF Active
      <4>1. CASE disk'[t[1]][refresh[t].code] = disk[t[1]][refresh[t].code]
        BY <1>0, <3>2, <4>1 DEF Newest
      <4>2. CASE Store(a) /\ a[1] = t[1] /\ refresh[a].code = refresh[t].code /\ refresh[a].stores
        <5>1. refresh[a].pc = "admitted" /\ disk'[t[1]][refresh[t].code] = refresh[a].item
          BY <4>2, StoreFacts
        <5>2. refresh[t].pc # "admitted"
          BY <2>3, <4>2, <5>1 DEF Exclusive
        <5> QED BY <1>0, <3>2, <4>2, <5>1, <5>2 DEF Newest
      <4>3. \/ disk'[t[1]][refresh[t].code] = disk[t[1]][refresh[t].code]
            \/ Store(a) /\ a[1] = t[1] /\ refresh[a].code = refresh[t].code /\ refresh[a].stores
        <5>1. CASE Store(a)
          BY <4>0, <5>1, StoreFacts
        <5>2. CASE Admit(a) \/ Publish(a)
          BY <5>2 DEF Admit, Publish
        <5> QED BY <1>4, <5>1, <5>2
      <4> QED BY <4>1, <4>2, <4>3
    <3>3. ASSUME Active(t), refresh[t].stores, refresh[t].pc = "answered", Latest(t),
                 NEW u \in Tasks, u[1] = t[1], refresh'[u].pc = "admitted", refresh'[u].stores
          PROVE  refresh'[u].item.at <= refresh[t].item.at
      <4>1. CASE u # a
        BY <1>0, <2>1, <3>3, <4>1 DEF Newest
      <4>2. CASE u = a
        <5>1. Current(a)
          BY <1>4, <3>3, <4>2, MoveFacts
        <5>2. refresh[a].generation = refresh[t].generation /\ Active(a)
          BY <2>1, <3>3, <4>2, <5>1 DEF Current, Latest, Active
        <5> QED BY <2>3, <3>3, <4>2, <5>2 DEF Generations
      <4> QED BY <4>1, <4>2
    <3> QED BY <1>0, <3>1, <3>2, <3>3 DEF Newest, Active
  <2> QED BY <2>2, <2>3
<1> QED BY <1>1, <1>2, <1>3, <1>4, StepKinds DEF QuoteStep, refreshVars

LEMMA BackedStep ==
  ASSUME Typed, Epoch, Writes, Backed, [Next]_vars PROVE Backed'
<1> SUFFICES ASSUME NEW t \in Tasks, t[1] \in Kept, refresh'[t].item # None,
                    refresh'[t].pc = "stored"
                    \/ (refresh'[t].pc \in {"answered", "admitted"} /\ ~refresh'[t].stores)
             PROVE  /\ disk'[t[1]][refresh'[t].code] # None
                    /\ refresh'[t].item.at <= disk'[t[1]][refresh'[t].code].at
  BY DEF Backed
<1>1. CASE refresh'[t] = refresh[t]
  <2>1. refresh[t].code \in Codes
    BY <1>1 DEF Typed, Named
  <2>2. /\ disk[t[1]][refresh[t].code] # None
        /\ refresh[t].item.at <= disk[t[1]][refresh[t].code].at
    BY <1>1 DEF Backed
  <2>3. /\ disk'[t[1]][refresh[t].code] # None
        /\ disk[t[1]][refresh[t].code].at <= disk'[t[1]][refresh[t].code].at
    BY <2>1, <2>2, DiskAdvances
  <2>4. /\ refresh[t].item.at \in Nat /\ disk[t[1]][refresh[t].code].at \in Nat
        /\ disk'[t[1]][refresh[t].code].at \in Nat
    <3>1. Typed'
      BY TypeStep
    <3>2. disk'[t[1]][refresh[t].code] \in Seen /\ \A o \in Seen : o # None => o.at \in Nat
      BY <2>1, <3>1 DEF Typed, TypeOK, Seen, Observation
    <3> QED BY <1>1, <2>1, <2>2, <2>3, <3>2, Dates
  <2> QED BY <1>1, <2>2, <2>3, <2>4
<1>2. ASSUME NEW ch \in Channels, NEW who \in Callers, Capture(ch, who), refresh'[t] # refresh[t] PROVE FALSE
  <2>1. t = <<ch, who>>
    BY <1>2, CaptureFacts
  <2>2. refresh'[t].pc = "asked"
    BY <1>2, <2>1, CaptureFacts
  <2> QED BY <2>2
<1>3. ASSUME NEW a \in Tasks, Answers(a), refresh'[t] # refresh[t]
      PROVE  /\ disk'[t[1]][refresh'[t].code] # None
             /\ refresh'[t].item.at <= disk'[t[1]][refresh'[t].code].at
  <2>1. t = a
    BY <1>3, AnswerFacts
  <2>2. /\ UNCHANGED disk /\ refresh'[t].code = refresh[t].code /\ refresh[t].code \in Codes
        /\ disk[t[1]][refresh[t].code] # None
        /\ refresh'[t].item.at = disk[t[1]][refresh[t].code].at
    BY <1>3, <2>1, AnswerFacts DEF Typed, Named
  <2>3. disk[t[1]][refresh[t].code].at \in Nat
    BY <2>2, Dates
  <2> QED BY <2>2, <2>3
<1>4. ASSUME NEW a \in Tasks, Admit(a) \/ Store(a) \/ Publish(a), refresh'[t] # refresh[t]
      PROVE  /\ disk'[t[1]][refresh'[t].code] # None
             /\ refresh'[t].item.at <= disk'[t[1]][refresh'[t].code].at
  <2>1. t = a
    BY <1>4, MoveFacts
  <2>2. /\ refresh'[t].code = refresh[t].code /\ refresh[t].code \in Codes
        /\ refresh'[t].item = refresh[t].item /\ refresh'[t].stores = refresh[t].stores
    BY <1>4, <2>1, MoveFacts
  <2>3. CASE Admit(t)
    <3>1. UNCHANGED disk /\ refresh[t].pc = "answered" /\ refresh'[t].pc # "stored"
      BY <1>4, <2>1, <2>3, MoveFacts DEF Admit, Store
    <3> QED BY <2>2, <3>1 DEF Backed
  <2>4. CASE Store(t)
    <3>1. CASE refresh[t].stores
      BY <2>2, <2>4, <3>1, StoreFacts, Dates
    <3>2. CASE ~refresh[t].stores
      <4>1. UNCHANGED disk /\ refresh[t].pc = "admitted"
        BY <2>4, <3>2, StoreFacts
      <4> QED BY <2>2, <3>2, <4>1 DEF Backed
    <3> QED BY <3>1, <3>2
  <2>5. CASE Publish(t)
    <3>1. ~Admit(t) /\ ~Store(t)
      BY <2>5 DEF Publish, Admit, Store
    <3> QED BY <2>1, <2>5, <3>1, MoveFacts
  <2> QED BY <1>4, <2>1, <2>3, <2>4, <2>5
<1> QED BY <1>1, <1>2, <1>3, <1>4, StepKinds DEF QuoteStep, refreshVars

LEMMA ShownStep ==
  ASSUME Typed, Epoch, Writes, Backed, ShownIsOnDisk, [Next]_vars PROVE ShownIsOnDisk'
<1> SUFFICES ASSUME NEW ch \in Kept, field'[ch] # None
             PROVE  disk'[ch][code'] # None /\ field'[ch].at <= disk'[ch][code'].at
  BY DEF ShownIsOnDisk
<1>0. code \in Codes /\ ch \in Fields /\ ch # "proxy"
  BY DEF Typed, TypeOK, Kept, Fields
<1>1. code' = code
  BY <1>0, Writers
<1>2. CASE field'[ch] = field[ch]
  <2>1. disk[ch][code] # None /\ field[ch].at <= disk[ch][code].at
    BY <1>2 DEF ShownIsOnDisk
  <2>2. disk'[ch][code] # None /\ disk[ch][code].at <= disk'[ch][code].at
    BY <1>0, <2>1, DiskAdvances
  <2>3. field[ch].at \in Nat /\ disk[ch][code].at \in Nat /\ disk'[ch][code].at \in Nat
    <3>1. Typed'
      BY TypeStep
    <3>2. disk'[ch][code] \in Seen /\ \A o \in Seen : o # None => o.at \in Nat
      BY <1>0, <3>1 DEF Typed, TypeOK, Seen, Observation
    <3> QED BY <1>0, <1>2, <2>1, <2>2, <3>2, Dates
  <2> QED BY <1>1, <1>2, <2>1, <2>2, <2>3
<1>3. ASSUME NEW t \in Tasks, Publish(t), Current(t), field' = Published(t), field'[ch] # field[ch]
      PROVE  disk'[ch][code'] # None /\ field'[ch].at <= disk'[ch][code'].at
  <2>1. t[1] = ch
    BY <1>0, <1>3, PublishedShape
  <2>2. field'[ch] = refresh[t].item /\ refresh[t].code = code /\ refresh[t].pc = "stored" /\ UNCHANGED disk
    BY <1>0, <1>3, <2>1, PublishedShape DEF Publish, Current
  <2> QED BY <1>1, <2>1, <2>2 DEF Backed
<1> QED BY <1>0, <1>2, <1>3, Writers

LEMMA AdvancingStep ==
  ASSUME Typed, Epoch, Generations, Times, ShownIsOnDisk, Advancing, [Next]_vars PROVE Advancing'
<1>0. /\ clock \in Nat /\ Dated \subseteq Fields /\ "proxy" \notin Dated
      /\ \A k \in Channels : generation[k] \in Nat
      /\ \A t \in Tasks : refresh[t].generation \in Nat /\ t[1] \in Channels
      /\ revision \in Nat
  <2>1. refresh \in [Tasks -> Refreshes]
    BY TypeParts DEF Typed
  <2> QED BY <2>1, TaskParts DEF Typed, TypeOK, Dated, Refreshes
<1>1. ASSUME NEW t \in Tasks, Active(t)', t[1] \in Dated, Latest(t)', refresh'[t].revision = revision',
             refresh'[t].item # None, field'[t[1]] # None
      PROVE  field'[t[1]].at <= refresh'[t].item.at
  <2>0. revision' = revision /\ t[1] \in Fields
    BY <1>0, <1>1, Writers
  <2>s. CASE refresh'[t] = refresh[t] /\ field'[t[1]] = field[t[1]] /\ Latest(t)
    BY <1>1, <2>0, <2>s DEF Advancing, Active
  <2>1. CASE UNCHANGED <<field, generation, refresh>>
    BY <1>1, <2>s, <2>1 DEF Latest
  <2>2. ASSUME NEW c \in Codes, SetInstrument(c), UNCHANGED refreshVars
        PROVE  UNCHANGED <<field, generation, refresh>>
    BY <1>0, <1>1, <2>0, <2>2 DEF SetInstrument, feedVars, refreshVars
  <2>3. ASSUME NEW ch \in Channels, NEW who \in Callers, Capture(ch, who)
        PROVE  field'[t[1]].at <= refresh'[t].item.at
    <3> DEFINE n == <<ch, who>>
    <3>1. /\ n \in Tasks /\ n[1] = ch /\ (ch \in Fields => refresh'[n].item = field[ch])
          /\ \A o \in Tasks : o # n => refresh'[o] = refresh[o]
          /\ generation'[ch] = generation[ch] + 1 /\ UNCHANGED field
          /\ \A other \in Channels : other # ch => generation'[other] = generation[other]
      BY <2>3, CaptureFacts
    <3> HIDE DEF n
    <3>2. CASE t = n
      BY <1>1, <2>0, <3>1, <3>2, Dates
    <3>3. CASE t # n
      <4>1. Active(t) => refresh[t].generation <= generation[t[1]]
        BY DEF Generations
      <4>2. Latest(t)
        BY <1>0, <1>1, <3>1, <3>3, <4>1 DEF Latest, Active
      <4> QED BY <2>s, <3>1, <3>3, <4>2
    <3> QED BY <3>2, <3>3
  <2>4. ASSUME NEW a \in Tasks, Answers(a) PROVE field'[t[1]].at <= refresh'[t].item.at
    <3>1. UNCHANGED <<field, generation>> /\ \A u \in Tasks : u # a => refresh'[u] = refresh[u]
      BY <2>4, AnswerFacts
    <3>2. CASE t # a
      BY <1>1, <2>s, <3>1, <3>2 DEF Latest
    <3>3. CASE t = a
      <4>1. /\ refresh[t].pc = "asked" /\ refresh'[t].code = refresh[t].code
            /\ refresh'[t].revision = refresh[t].revision /\ refresh'[t].generation = refresh[t].generation
            /\ \/ refresh'[t].item.at = clock + 1
               \/ refresh[t].item # None /\ refresh'[t].item.at = refresh[t].item.at
               \/ t[1] \in Kept /\ refresh'[t].item.at = disk[t[1]][refresh[t].code].at
        BY <1>1, <2>0, <2>4, <3>3, AnswerFacts
      <4>2. Active(t) /\ Latest(t) /\ refresh[t].revision = revision
        BY <1>1, <2>0, <3>1, <4>1 DEF Active, Latest
      <4>3. CASE refresh'[t].item.at = clock + 1
        BY <1>0, <1>1, <2>0, <3>1, <4>3, Dates DEF Times
      <4>4. CASE refresh[t].item # None /\ refresh'[t].item.at = refresh[t].item.at
        BY <1>1, <3>1, <4>2, <4>4 DEF Advancing
      <4>5. CASE t[1] \in Kept /\ refresh'[t].item.at = disk[t[1]][refresh[t].code].at
        <5>1. refresh[t].code = code
          BY <4>1, <4>2 DEF Epoch, RefreshOfEpoch
        <5> QED BY <1>1, <3>1, <4>5, <5>1 DEF ShownIsOnDisk
      <4> QED BY <4>1, <4>3, <4>4, <4>5
    <3> QED BY <3>2, <3>3
  <2>5. ASSUME NEW a \in Tasks, Admit(a) \/ Store(a) \/ Publish(a)
        PROVE  field'[t[1]].at <= refresh'[t].item.at
    <3>1. UNCHANGED generation /\ \A u \in Tasks : u # a => refresh'[u] = refresh[u]
      BY <2>5, MoveFacts
    <3>2. CASE t = a
      <4>1. /\ refresh'[t].item = refresh[t].item /\ refresh'[t].generation = refresh[t].generation
            /\ refresh'[t].revision = refresh[t].revision /\ Active(t) /\ (Admit(t) \/ Store(t))
        BY <1>1, <2>5, <3>2, MoveFacts DEF Active
      <4>2. UNCHANGED field
        BY <4>1 DEF Admit, Store, feedVars
      <4> QED BY <1>1, <2>0, <3>1, <4>1, <4>2 DEF Advancing, Latest
    <3>3. CASE t # a
      <4>1. refresh'[t] = refresh[t] /\ Latest(t) /\ Active(t)
        BY <1>1, <3>1, <3>3 DEF Latest, Active
      <4>2. field'[t[1]] = field[t[1]]
        <5>1. CASE UNCHANGED field
          BY <5>1
        <5>2. CASE Publish(a) /\ Current(a) /\ field' = Published(a)
          <6>1. a[1] # t[1]
            <7>1. Active(a) /\ refresh[a].generation = generation[a[1]]
              BY <5>2 DEF Publish, Current, Active
            <7> QED BY <3>3, <4>1, <7>1 DEF Generations, Latest
          <6> QED BY <1>0, <1>1, <2>0, <5>2, <6>1, PublishedShape
        <5> QED BY <2>5, <5>1, <5>2 DEF Admit, Store, Publish, feedVars
      <4> QED BY <2>s, <4>1, <4>2
    <3> QED BY <3>2, <3>3
  <2> QED BY <2>1, <2>2, <2>3, <2>4, <2>5, StepKinds DEF QuoteStep, refreshVars, feedVars
<1>2. ASSUME quote'.pc # "idle", quote'.revision = revision', quote'.item # None, price' # None
      PROVE  price'.at <= quote'.item.at
  <2>1. revision' = revision
    BY <1>2, Writers
  <2>2. CASE UNCHANGED <<price, quote>>
    BY <1>2, <2>1, <2>2 DEF Advancing
  <2>3. CASE QuoteStep
    <3>1. CASE quote'.item = price /\ price' = price
      BY <1>2, <3>1, Dates
    <3>2. CASE /\ quote.pc # "idle" /\ quote'.revision = quote.revision /\ price' = price
               /\ quote'.item.at = clock + 1
      BY <1>0, <1>2, <3>2, Dates DEF Times
    <3>3. CASE /\ quote.pc # "idle" /\ quote'.revision = quote.revision /\ price' = price
               /\ quote.item # None /\ quote'.item.at = quote.item.at
      BY <1>2, <2>1, <3>3 DEF Advancing
    <3> QED BY <1>2, <2>3, <3>1, <3>2, <3>3, QuoteFacts
  <2> QED BY <1>2, <2>2, <2>3, Writers
<1> QED BY <1>1, <1>2 DEF Advancing

LEMMA InitOrder == Init => Order
<1> SUFFICES ASSUME Init PROVE Order
  OBVIOUS
<1>1. /\ \A t \in Tasks : refresh[t].pc = "idle" /\ refresh[t].item = None
      /\ quote.pc = "idle" /\ price = None /\ \A f \in Fields : field[f] = None
      /\ \A ch \in Kept, c \in Codes : disk[ch][c] = None
  BY DEF Init, NoRefresh, NoQuote
<1>2. Kept \subseteq Fields /\ Dated \subseteq Fields
  BY DEF Kept, Fields, Dated
<1> QED BY <1>1, <1>2 DEF Order, Generations, Exclusive, Times, Writes, Newest, Backed, ShownIsOnDisk,
     Advancing, Active

LEMMA OrderStep == Typed /\ Epoch /\ Order /\ [Next]_vars => Order'
BY GenerationsStep, ExclusiveStep, TimesStep, WritesStep, BackedStep, ShownStep, AdvancingStep DEF Order

\* Whatever is shown of the daily bars and of the chain is on disk, or newer is:
\* the fallback of a failed fetch is never behind what was shown.
THEOREM ShownIsKept == Spec => []ShownIsOnDisk
<1>1. Init => Typed /\ Epoch /\ Order
  BY InitTypes, InitEpoch, InitOrder
<1>2. Typed /\ Epoch /\ Order /\ [Next]_vars => Typed' /\ Epoch' /\ Order'
  BY TypeStep, EpochStep, OrderStep
<1>3. Order => ShownIsOnDisk
  BY DEF Order
<1> QED BY <1>1, <1>2, <1>3, PTL DEF Spec

\* No older answer overwrites a newer one on disk, however many refreshes of a
\* channel overlap and however often the instrument is switched meanwhile.
THEOREM DiskGoesForward == Spec => DiskNeverGoesBack
<1>1. Init => Typed /\ Epoch /\ Order
  BY InitTypes, InitEpoch, InitOrder
<1>2. Typed /\ Epoch /\ Order /\ [Next]_vars => Typed' /\ Epoch' /\ Order'
  BY TypeStep, EpochStep, OrderStep
<1>3. Typed /\ Epoch /\ Order /\ [Next]_vars =>
        [\A ch \in Kept, c \in Codes :
           disk[ch][c] # None => disk'[ch][c] # None /\ Later(disk[ch][c], disk'[ch][c])]_vars
  BY DiskAdvances DEF Order, Later
<1> QED BY <1>1, <1>2, <1>3, PTL DEF Spec, DiskNeverGoesBack

\* While the instrument stays, neither the price nor a channel goes back to an
\* older answer: late ones are dropped, and a fallback is no older than what it
\* replaces.
THEOREM ShownGoesForward == Spec => ShownNeverGoesBack
<1>1. Init => Typed /\ Epoch /\ Order
  BY InitTypes, InitEpoch, InitOrder
<1>2. Typed /\ Epoch /\ Order /\ [Next]_vars => Typed' /\ Epoch' /\ Order'
  BY TypeStep, EpochStep, OrderStep
<1>3. ASSUME Typed, Epoch, Order, [Next]_vars, revision' = revision
      PROVE  Later(price, price') /\ \A f \in Fields \ {"proxy"} : Later(field[f], field'[f])
  <2>1. Later(price, price')
    <3>1. price # None => price.at \in Nat
      BY <1>3, Dates
    <3>2. \/ price' = price \/ price' = None
          \/ price' = quote.item /\ quote.pc = "answered" /\ quote.revision = revision
      BY <1>3, Writers, QuoteFacts
    <3> QED BY <1>3, <3>1, <3>2 DEF Later, Order, Advancing
  <2>2. ASSUME NEW f \in Fields \ {"proxy"} PROVE Later(field[f], field'[f])
    <3>1. field[f] # None => field[f].at \in Nat
      BY <1>3, Dates
    <3>2. CASE field'[f] = field[f] \/ field'[f] = None
      BY <3>1, <3>2 DEF Later
    <3>3. ASSUME NEW t \in Tasks, Publish(t), Current(t), field' = Published(t), field'[f] # field[f]
          PROVE  Later(field[f], field'[f])
      <4>1. f = t[1] /\ field'[f] = refresh[t].item
        BY <1>3, <2>2, <3>3, PublishedShape
      <4>2. Active(t) /\ Latest(t) /\ refresh[t].revision = revision /\ t[1] \in Dated
        BY <2>2, <3>3, <4>1 DEF Publish, Current, Active, Latest, Dated
      <4> QED BY <1>3, <4>1, <4>2 DEF Later, Order, Advancing
    <3> QED BY <1>3, <2>2, <3>2, <3>3, Writers
  <2> QED BY <2>1, <2>2
<1>4. Typed /\ Epoch /\ Order /\ [Next]_vars =>
        [revision' = revision =>
           /\ Later(price, price')
           /\ \A f \in Fields \ {"proxy"} : Later(field[f], field'[f])]_vars
  BY <1>3
<1> QED BY <1>1, <1>2, <1>4, PTL DEF Spec, ShownNeverGoesBack

-----------------------------------------------------------------------------
(* The spot of the proxy: it is published by its own refresh and by the      *)
(* chain's, and only the first is ever live.                                *)

Live(o) == o # None /\ o.live
NotAfter(o, n) == o # None => o.at <= n

\* What a refresh would publish for the proxy beside its own channel is what it
\* copied, unless neither is live.
SpotOf(t) ==
  /\ NotAfter(refresh[t].original, clock) /\ NotAfter(refresh[t].proxy, clock)
  /\ Live(refresh[t].original) \/ Live(refresh[t].proxy) => refresh[t].proxy = refresh[t].original
  /\ refresh[t].pc = "asked" => refresh[t].proxy = refresh[t].original

\* A refresh of the proxy has nothing older than what it copied, and while it
\* may still be published, a live tick on the page is the one it copied.
TickOf(t) ==
  /\ NotAfter(refresh[t].item, clock)
  /\ refresh[t].pc = "asked" => refresh[t].item = refresh[t].original
  /\ refresh[t].original # None /\ refresh[t].item # None =>
       refresh[t].original.at <= refresh[t].item.at
  /\ Latest(t) /\ refresh[t].revision = revision /\ Live(field["proxy"]) =>
       refresh[t].original = field["proxy"]

Spots ==
  /\ NotAfter(field["proxy"], clock)
  /\ \A t \in Tasks : Active(t) => SpotOf(t) /\ (t[1] = "proxy" => TickOf(t))

\* When what a refresh carries was observed is a number.
LEMMA SpotDates ==
  ASSUME Typed
  PROVE  \A t \in Tasks :
           /\ \A o \in {refresh[t].item, refresh[t].proxy, refresh[t].original, field["proxy"]} :
                o \in Seen /\ (o # None => o.at \in Nat)
<1>1. \A o \in Seen : o # None => o.at \in Nat
  BY DEF Seen, Observation
<1>2. \A t \in Tasks : refresh[t].item \in Seen /\ refresh[t].proxy \in Seen /\ refresh[t].original \in Seen
  BY TypeParts DEF Typed, Refreshes
<1>3. field["proxy"] \in Seen
  BY DEF Typed, TypeOK, Fields
<1> QED BY <1>1, <1>2, <1>3

\* The copies a new refresh takes.
LEMMA CapturedSpot ==
  ASSUME Typed, NEW ch \in Channels, NEW who \in Callers, Capture(ch, who)
  PROVE  LET r == refresh'[<<ch, who>>] IN
           /\ r.pc = "asked" /\ r.proxy = field["proxy"] /\ r.original = field["proxy"]
           /\ ch = "proxy" => r.item = field["proxy"]
<1>1. PICK i \in Seen :
        /\ refresh' = [refresh EXCEPT ![<<ch, who>>] = Copy(ch, i)]
        /\ i = IF ch \in Fields THEN field[ch] ELSE None
  BY CaptureShape
<1>2. refresh'[<<ch, who>>] = Copy(ch, i)
  <2>1. <<ch, who>> \in Tasks /\ refresh \in [Tasks -> Refreshes]
    BY TypeParts DEF Tasks, Typed
  <2> QED BY <1>1, <2>1
<1> QED BY <1>1, <1>2 DEF Copy, Fields

\* What an answer does to the spots: the proxy's own refresh brings a new item or
\* dims its copy, the chain's brings an indication unless the copy is live.
AnsweredSpots(t) ==
  /\ refresh[t].pc = "asked" /\ refresh'[t].pc = "answered"
  /\ refresh'[t].original = refresh[t].original
  /\ refresh'[t].revision = refresh[t].revision /\ refresh'[t].generation = refresh[t].generation
  /\ \/ refresh'[t].proxy = refresh[t].proxy
     \/ /\ ~Live(refresh[t].proxy) /\ refresh'[t].proxy # None /\ ~Live(refresh'[t].proxy)
        /\ refresh'[t].proxy.at = clock + 1 /\ clock' = clock + 1
  /\ t[1] = "proxy" =>
       \/ refresh'[t].item = None
       \/ refresh'[t].item.at = clock + 1 /\ clock' = clock + 1
       \/ refresh[t].item # None /\ refresh'[t].item.at = refresh[t].item.at

LEMMA AnsweredSpot ==
  ASSUME Typed, NEW t \in Tasks, Answers(t) PROVE AnsweredSpots(t)
<1> DEFINE r == refresh[t]
<1>1. refresh \in [Tasks -> Refreshes] /\ r \in Refreshes
  BY TypeParts DEF Typed
\* What the answers leave alone.
<1>2. ASSUME NEW w, refresh' = [refresh EXCEPT ![t] = w], w.pc = "answered",
             w.original = r.original, w.revision = r.revision, w.generation = r.generation
      PROVE  /\ refresh'[t] = w /\ refresh'[t].pc = "answered" /\ refresh'[t].original = r.original
             /\ refresh'[t].revision = r.revision /\ refresh'[t].generation = r.generation
  <2>1. refresh'[t] = w
    BY <1>1, <1>2
  <2> QED BY <1>2, <2>1
<1>3. CASE ProxyAnswers(t)
  <2>0. r.pc = "asked" /\ t[1] = "proxy"
    BY <1>3 DEF ProxyAnswers, Asked
  <2>1. ASSUME NEW i, refresh' = [refresh EXCEPT ![t] = [Answered(t) EXCEPT !.item = i]]
        PROVE  /\ refresh'[t].pc = "answered" /\ refresh'[t].original = r.original
               /\ refresh'[t].revision = r.revision /\ refresh'[t].generation = r.generation
               /\ refresh'[t].proxy = r.proxy /\ refresh'[t].item = i
    <3> DEFINE w == [Answered(t) EXCEPT !.item = i]
    <3>1. /\ w.pc = "answered" /\ w.original = r.original /\ w.revision = r.revision
          /\ w.generation = r.generation /\ w.proxy = r.proxy /\ w.item = i
      BY <1>1 DEF Answered, Refreshes
    <3> QED BY <1>2, <2>1, <3>1
  <2>2. CASE \E live \in BOOLEAN :
               Observe /\ Answer(t, [Answered(t) EXCEPT !.item = Fresh(t, live)])
    <3> PICK live \in BOOLEAN :
               Observe /\ Answer(t, [Answered(t) EXCEPT !.item = Fresh(t, live)])
      BY <2>2
    <3>1. Fresh(t, live).at = clock + 1 /\ clock' = clock + 1
      BY DEF Fresh, Observe
    <3> QED BY <2>0, <2>1, <3>1 DEF Answer, AnsweredSpots
  <2>3. CASE \E kept \in {Dimmed(r.item), None} : Answer(t, [Answered(t) EXCEPT !.item = kept])
    <3> PICK kept \in {Dimmed(r.item), None} : Answer(t, [Answered(t) EXCEPT !.item = kept])
      BY <2>3
    <3>1. kept # None => r.item # None /\ kept.at = r.item.at
      <4>1. r.item \in Seen
        BY <1>1 DEF Refreshes
      <4> QED BY <4>1, DimmedSeen
    <3> QED BY <2>0, <2>1, <3>1 DEF Answer, AnsweredSpots
  <2> QED BY <1>3, <2>2, <2>3 DEF ProxyAnswers
<1>4. CASE ChainAnswers(t)
  <2>0. r.pc = "asked" /\ t[1] # "proxy"
    BY <1>4 DEF ChainAnswers, Asked
  <2>1. ASSUME NEW w, Answer(t, w), w.pc = "answered", w.original = r.original,
               w.revision = r.revision, w.generation = r.generation,
               w.proxy = r.proxy \/ (w.proxy = ChainSpot(t) /\ clock' = clock + 1)
        PROVE  /\ refresh'[t].pc = "answered" /\ refresh'[t].original = r.original
               /\ refresh'[t].revision = r.revision /\ refresh'[t].generation = r.generation
               /\ \/ refresh'[t].proxy = r.proxy
                  \/ /\ ~Live(r.proxy) /\ refresh'[t].proxy # None /\ ~Live(refresh'[t].proxy)
                     /\ refresh'[t].proxy.at = clock + 1 /\ clock' = clock + 1
    <3>1. refresh' = [refresh EXCEPT ![t] = w]
      BY <2>1 DEF Answer
    <3>2. /\ refresh'[t].pc = "answered" /\ refresh'[t].original = r.original
          /\ refresh'[t].revision = r.revision /\ refresh'[t].generation = r.generation
          /\ refresh'[t] = w
      BY <1>2, <2>1, <3>1
    <3>3. ChainSpot(t) = IF Live(r.proxy) THEN r.proxy ELSE Fresh(t, FALSE)
      BY DEF ChainSpot, Live
    <3>4. Fresh(t, FALSE) # None /\ ~Fresh(t, FALSE).live /\ Fresh(t, FALSE).at = clock + 1
      <4>1. r.code \in Codes /\ r.revision \in Nat /\ clock \in Nat
        BY <1>1, <2>0 DEF Refreshes, Typed, Named, TypeOK
      <4>2. Fresh(t, FALSE) \in Observation
        BY <4>1 DEF Fresh, Observation
      <4> QED BY <4>2, FeedAssumption DEF Fresh
    <3> QED BY <2>1, <3>2, <3>3, <3>4 DEF Live
  <2>2. CASE Observe /\ Answer(t, [Answered(t) EXCEPT !.item = Fresh(t, FALSE), !.stores = TRUE,
                                                      !.proxy = ChainSpot(t)])
    <3> DEFINE w == [Answered(t) EXCEPT !.item = Fresh(t, FALSE), !.stores = TRUE, !.proxy = ChainSpot(t)]
    <3>1. /\ w.pc = "answered" /\ w.original = r.original /\ w.revision = r.revision
          /\ w.generation = r.generation /\ w.proxy = ChainSpot(t)
      BY <1>1 DEF Answered, Refreshes
    <3>2. clock' = clock + 1 /\ Answer(t, w)
      BY <2>2 DEF Observe
    <3> HIDE DEF w
    <3> QED BY <2>0, <2>1, <3>1, <3>2 DEF AnsweredSpots
  <2>3. ASSUME NEW old, Observe, Answer(t, [Answered(t) EXCEPT !.item = old, !.proxy = ChainSpot(t)])
        PROVE  AnsweredSpots(t)
    <3> DEFINE w == [Answered(t) EXCEPT !.item = old, !.proxy = ChainSpot(t)]
    <3>1. /\ w.pc = "answered" /\ w.original = r.original /\ w.revision = r.revision
          /\ w.generation = r.generation /\ w.proxy = ChainSpot(t)
      BY <1>1 DEF Answered, Refreshes
    <3>2. clock' = clock + 1 /\ Answer(t, w)
      BY <2>3 DEF Observe
    <3> HIDE DEF w
    <3> QED BY <2>0, <2>1, <3>1, <3>2 DEF AnsweredSpots
  <2>4. ASSUME NEW old, Answer(t, [Answered(t) EXCEPT !.item = old])
        PROVE  AnsweredSpots(t)
    <3> DEFINE w == [Answered(t) EXCEPT !.item = old]
    <3>1. /\ w.pc = "answered" /\ w.original = r.original /\ w.revision = r.revision
          /\ w.generation = r.generation /\ w.proxy = r.proxy
      BY <1>1 DEF Answered, Refreshes
    <3>2. Answer(t, w)
      BY <2>4
    <3> HIDE DEF w
    <3> QED BY <2>0, <2>1, <3>1, <3>2 DEF AnsweredSpots
  <2> QED BY <1>4, <2>2, <2>3, <2>4 DEF ChainAnswers
<1>5. CASE DailyAnswers(t) \/ IvAnswers(t) \/ IntradayAnswers(t)
  <2>0. r.pc = "asked" /\ t[1] # "proxy"
    BY <1>5 DEF DailyAnswers, IvAnswers, IntradayAnswers, Asked
  <2>1. ASSUME NEW w, Answer(t, w), w.pc = "answered", w.original = r.original,
               w.revision = r.revision, w.generation = r.generation, w.proxy = r.proxy
        PROVE  AnsweredSpots(t)
    <3>1. refresh' = [refresh EXCEPT ![t] = w]
      BY <2>1 DEF Answer
    <3> QED BY <1>2, <2>0, <2>1, <3>1 DEF AnsweredSpots
  <2>2. ASSUME NEW i, NEW w, Answer(t, w),
               \/ w = [Answered(t) EXCEPT !.item = i, !.stores = TRUE]
               \/ w = [Answered(t) EXCEPT !.item = i] \/ w = [Answered(t) EXCEPT !.bars = i]
               \/ w = Answered(t)
        PROVE  AnsweredSpots(t)
    <3>1. /\ w.pc = "answered" /\ w.original = r.original /\ w.revision = r.revision
          /\ w.generation = r.generation /\ w.proxy = r.proxy
      BY <1>1, <2>2 DEF Answered, Refreshes
    <3> QED BY <2>1, <2>2, <3>1
  <2>3. CASE DailyAnswers(t)
    <3>1. CASE Answer(t, [Answered(t) EXCEPT !.item = Fresh(t, TRUE), !.stores = TRUE])
      BY <2>2, <3>1
    <3>2. ASSUME NEW old, Answer(t, [Answered(t) EXCEPT !.item = old]) PROVE AnsweredSpots(t)
      BY <2>2, <3>2
    <3> QED BY <2>3, <3>1, <3>2 DEF DailyAnswers
  <2>4. CASE IvAnswers(t)
    <3>1. ASSUME NEW i, Answer(t, [Answered(t) EXCEPT !.item = i]) PROVE AnsweredSpots(t)
      BY <2>2, <3>1
    <3> QED BY <2>4, <3>1 DEF IvAnswers
  <2>5. CASE IntradayAnswers(t)
    <3>1. CASE Answer(t, [Answered(t) EXCEPT !.bars = {r.code}])
      BY <2>2, <3>1
    <3>2. CASE Answer(t, Answered(t))
      BY <2>2, <3>2
    <3> QED BY <2>5, <3>1, <3>2 DEF IntradayAnswers
  <2> QED BY <1>5, <2>3, <2>4, <2>5
<1> QED BY <1>3, <1>4, <1>5 DEF Answers

\* How the spot on the page changes: a chain's takes the place only of a spot that
\* is not live, and is not live itself.
LEMMA ShownSpot ==
  ASSUME Typed, Epoch, Spots, [Next]_vars
  PROVE  \/ field'["proxy"] = field["proxy"]
         \/ field'["proxy"] = None
         \/ \E t \in Tasks : /\ Publish(t) /\ Current(t) /\ t[1] = "proxy"
                             /\ field'["proxy"] = refresh[t].item
         \/ /\ ~Live(field["proxy"]) /\ ~Live(field'["proxy"])
            /\ \E t \in Tasks : Active(t) /\ field'["proxy"] = refresh[t].proxy
<1>1. CASE field' = [g \in Fields |-> None]
  BY <1>1 DEF Fields
<1>2. ASSUME NEW t \in Tasks, Publish(t), Current(t), field' = Published(t), field'["proxy"] # field["proxy"]
      PROVE  \/ t[1] = "proxy" /\ field'["proxy"] = refresh[t].item
             \/ ~Live(field["proxy"]) /\ ~Live(field'["proxy"]) /\ Active(t)
                /\ field'["proxy"] = refresh[t].proxy
  <2>1. Active(t)
    BY <1>2 DEF Publish, Active
  <2>2. CASE t[1] = "proxy"
    BY <1>2, <2>2, PublishedShape DEF Fields
  <2>3. CASE t[1] # "proxy"
    <3>1. t[1] = "chain"
      BY <1>2, <2>3, PublishedShape DEF Fields
    <3>2. Published(t)["proxy"] = ProxyWith(t)
      <4>1. Published(t) = [field EXCEPT !["chain"] = refresh[t].item, !["proxy"] = ProxyWith(t)]
        BY <3>1 DEF Published
      <4> QED BY <4>1 DEF Typed, TypeOK, Fields
    <3>3. field["proxy"] = refresh[t].original /\ field'["proxy"] = refresh[t].proxy
      BY <1>2, <3>2 DEF ProxyWith
    <3>4. ~Live(refresh[t].original) /\ ~Live(refresh[t].proxy)
      BY <1>2, <2>1, <3>3 DEF Spots, SpotOf
    <3> QED BY <2>1, <3>3, <3>4
  <2> QED BY <2>2, <2>3
<1> QED BY <1>1, <1>2, Writers

LEMMA GenerationsGrow ==
  ASSUME Typed, Epoch, [Next]_vars
  PROVE  \A k \in Channels : generation[k] \in Nat /\ generation'[k] \in Nat /\ generation[k] <= generation'[k]
<1>0. \A k \in Channels : generation[k] \in Nat
  BY DEF Typed, TypeOK
<1>1. CASE UNCHANGED generation
  BY <1>0, <1>1
<1>2. ASSUME NEW ch \in Channels, NEW who \in Callers, Capture(ch, who)
      PROVE  \A k \in Channels : generation'[k] \in Nat /\ generation[k] <= generation'[k]
  <2>1. /\ generation'[ch] = generation[ch] + 1
        /\ \A other \in Channels : other # ch => generation'[other] = generation[other]
    BY <1>2, CaptureFacts
  <2> QED BY <1>0, <2>1
<1>3. ASSUME NEW t \in Tasks, Answers(t) \/ Admit(t) \/ Store(t) \/ Publish(t) PROVE UNCHANGED generation
  BY <1>3, AnswerFacts, MoveFacts
<1> QED BY <1>0, <1>1, <1>2, <1>3, StepKinds DEF QuoteStep, refreshVars

\* A refresh of the proxy that stays under way: only its own end, or that of one
\* that was started after it, brings another live tick.
LEMMA TickStays ==
  ASSUME Typed, Epoch, Generations, Spots, [Next]_vars,
         NEW t \in Tasks, t[1] = "proxy", Active(t), Active(t)',
         refresh'[t].generation = refresh[t].generation,
         refresh'[t].revision = refresh[t].revision,
         refresh'[t].original = refresh[t].original,
         Latest(t)', refresh'[t].revision = revision', Live(field'["proxy"])
  PROVE  refresh'[t].original = field'["proxy"]
<1>0. t[1] \in Channels /\ refresh[t].generation \in Nat
  BY TypeParts, TaskParts DEF Typed, Refreshes
<1>1. Latest(t)
  <2>1. refresh[t].generation <= generation[t[1]]
    BY DEF Generations
  <2>2. refresh[t].generation = generation'[t[1]]
    BY DEF Latest
  <2> QED BY <1>0, <2>1, <2>2, GenerationsGrow DEF Latest
<1>2. revision' = revision
  <2>1. field' # [g \in Fields |-> None]
    BY DEF Live, Fields
  <2> QED BY <2>1, Writers
<1>3. field'["proxy"] = field["proxy"]
  <2>1. ASSUME NEW u \in Tasks, Publish(u), Current(u), u[1] = "proxy" PROVE FALSE
    <3>1. Active(u) /\ Latest(u)
      BY <2>1 DEF Publish, Current, Active, Latest
    <3>2. u = t
      BY <1>1, <2>1, <3>1 DEF Generations, Latest
    <3>3. refresh' = [refresh EXCEPT ![t] = NoRefresh] /\ refresh \in [Tasks -> Refreshes]
      BY <2>1, <3>2, TypeParts DEF Publish, Typed
    <3> QED BY <3>3 DEF Active, NoRefresh
  <2> QED BY <2>1, ShownSpot DEF Live
<1> QED BY <1>1, <1>2, <1>3 DEF Spots, TickOf

LEMMA SpotsStep ==
  ASSUME Typed, Epoch, Generations, Spots, [Next]_vars PROVE Spots'
<1>0. clock \in Nat /\ clock' \in Nat /\ clock <= clock'
  BY ClockStep
<1>a. ASSUME NEW o \in Seen, NotAfter(o, clock) PROVE NotAfter(o, clock')
  <2>1. o # None => o.at \in Nat
    BY DEF Seen, Observation
  <2> QED BY <1>0, <1>a, <2>1 DEF NotAfter
<1>b. \A t \in Tasks : refresh[t].item \in Seen /\ refresh[t].proxy \in Seen /\ refresh[t].original \in Seen
  BY SpotDates
<1>c. field["proxy"] \in Seen
  BY DEF Typed, TypeOK, Fields
<1>d. ASSUME NEW ch \in Channels, NEW who \in Callers, Capture(ch, who)
      PROVE  \A o \in Tasks : o # <<ch, who>> => refresh'[o] = refresh[o]
  <2> DEFINE n == <<ch, who>>
  <2>1. /\ n \in Tasks /\ n[1] = ch /\ refresh'[n].generation = generation[ch] + 1
        /\ \A o \in Tasks : o # n => refresh'[o] = refresh[o]
    BY <1>d, CaptureFacts
  <2> QED BY <2>1
<1>1. NotAfter(field'["proxy"], clock')
  <2>1. ASSUME NEW t \in Tasks, Publish(t), t[1] = "proxy" PROVE NotAfter(refresh[t].item, clock')
    <3>1. Active(t)
      BY <2>1 DEF Publish, Active
    <3>2. NotAfter(refresh[t].item, clock)
      BY <2>1, <3>1 DEF Spots, TickOf
    <3> QED BY <1>a, <1>b, <3>2
  <2>2. ASSUME NEW t \in Tasks, Active(t) PROVE NotAfter(refresh[t].proxy, clock')
    <3>1. NotAfter(refresh[t].proxy, clock)
      BY <2>2 DEF Spots, SpotOf
    <3> QED BY <1>a, <1>b, <3>1
  <2>3. NotAfter(field["proxy"], clock')
    BY <1>a, <1>c DEF Spots
  <2>4. NotAfter(None, clock')
    BY DEF NotAfter
  <2> QED BY <2>1, <2>2, <2>3, <2>4, ShownSpot
<1>2. ASSUME NEW t \in Tasks, Active(t)' PROVE SpotOf(t)' /\ (t[1] = "proxy" => TickOf(t)')
  \* A refresh that goes on as it was asked and answered.
  <2>s. ASSUME Active(t), refresh'[t].original = refresh[t].original,
               refresh'[t].proxy = refresh[t].proxy, refresh'[t].item = refresh[t].item,
               refresh'[t].generation = refresh[t].generation,
               refresh'[t].revision = refresh[t].revision,
               refresh'[t].pc = "asked" => refresh[t].pc = "asked"
        PROVE  SpotOf(t)' /\ (t[1] = "proxy" => TickOf(t)')
    <3>1. SpotOf(t) /\ (t[1] = "proxy" => TickOf(t))
      BY <2>s DEF Spots
    <3>2. SpotOf(t)'
      <4>1. NotAfter(refresh[t].original, clock') /\ NotAfter(refresh[t].proxy, clock')
        BY <1>a, <1>b, <3>1 DEF SpotOf
      <4> QED BY <2>s, <3>1, <4>1 DEF SpotOf
    <3>3. ASSUME t[1] = "proxy" PROVE TickOf(t)'
      <4>1. NotAfter(refresh[t].item, clock')
        BY <1>a, <1>b, <3>1, <3>3 DEF TickOf
      <4>2. Latest(t)' /\ refresh'[t].revision = revision' /\ Live(field'["proxy"]) =>
              refresh'[t].original = field'["proxy"]
        BY <1>2, <2>s, <3>3, TickStays
      <4> QED BY <2>s, <3>1, <3>3, <4>1, <4>2 DEF TickOf
    <3> QED BY <3>2, <3>3
  <2>1. CASE refresh'[t] = refresh[t]
    BY <1>2, <2>1, <2>s DEF Active
  <2>2. ASSUME NEW ch \in Channels, NEW who \in Callers, Capture(ch, who), t = <<ch, who>>
        PROVE  SpotOf(t)' /\ (t[1] = "proxy" => TickOf(t)')
    <3>1. /\ refresh'[t].pc = "asked" /\ refresh'[t].proxy = field["proxy"]
          /\ refresh'[t].original = field["proxy"] /\ t[1] = ch
          /\ ch = "proxy" => refresh'[t].item = field["proxy"]
      BY <2>2, CapturedSpot
    <3>2. UNCHANGED field
      BY <2>2, CaptureFacts
    <3>3. NotAfter(field["proxy"], clock')
      BY <1>1, <3>2
    <3>4. field["proxy"] # None => field["proxy"].at <= field["proxy"].at
      BY <1>c DEF Seen, Observation
    <3> QED BY <3>1, <3>2, <3>3, <3>4 DEF SpotOf, TickOf
  <2>3. CASE Answers(t)
    <3>1. AnsweredSpots(t)
      BY <2>3, AnsweredSpot
    <3>2. Active(t) /\ SpotOf(t) /\ (t[1] = "proxy" => TickOf(t)) /\ refresh[t].proxy = refresh[t].original
      BY <3>1 DEF AnsweredSpots, Active, Spots, SpotOf
    <3>3. NotAfter(refresh[t].original, clock') /\ NotAfter(refresh[t].proxy, clock')
      BY <1>a, <1>b, <3>2 DEF SpotOf
    <3>4. SpotOf(t)'
      BY <1>0, <3>1, <3>2, <3>3 DEF AnsweredSpots, SpotOf, NotAfter
    <3>5. ASSUME t[1] = "proxy" PROVE TickOf(t)'
      <4>1. Latest(t)' /\ refresh'[t].revision = revision' /\ Live(field'["proxy"]) =>
              refresh'[t].original = field'["proxy"]
        BY <1>2, <3>1, <3>2, <3>5, TickStays DEF AnsweredSpots
      <4>2. refresh[t].item = refresh[t].original
        BY <3>1, <3>2, <3>5 DEF AnsweredSpots, TickOf
      <4>3. CASE refresh'[t].item = None
        BY <3>1, <4>1, <4>3 DEF AnsweredSpots, TickOf, NotAfter
      <4>4. CASE refresh'[t].item.at = clock + 1 /\ clock' = clock + 1
        <5>1. refresh[t].original # None => refresh[t].original.at \in Nat /\ refresh[t].original.at <= clock
          BY <3>2, SpotDates DEF SpotOf, NotAfter
        <5> QED BY <1>0, <3>1, <4>1, <4>4, <5>1 DEF AnsweredSpots, TickOf, NotAfter
      <4>5. CASE refresh[t].item # None /\ refresh'[t].item.at = refresh[t].item.at
        <5>1. refresh[t].original.at \in Nat
          BY <4>2, <4>5, SpotDates
        <5> QED BY <3>1, <3>3, <4>1, <4>2, <4>5, <5>1 DEF AnsweredSpots, TickOf, NotAfter
      <4> QED BY <3>1, <3>5, <4>3, <4>4, <4>5 DEF AnsweredSpots
    <3> QED BY <3>4, <3>5
  <2>4. CASE Admit(t) \/ Store(t) \/ Publish(t)
    <3>1. Active(t) /\ refresh'[t].pc # "asked" /\ refresh'[t] = [refresh[t] EXCEPT !.pc = refresh'[t].pc]
      <4>1. refresh \in [Tasks -> Refreshes] /\ refresh[t] \in Refreshes
        BY TypeParts DEF Typed
      <4>2. refresh'[t] # NoRefresh
        BY <1>2 DEF Active, NoRefresh
      <4>3. \/ refresh' = [refresh EXCEPT ![t] = [refresh[t] EXCEPT !.pc = "admitted"]]
            \/ refresh' = [refresh EXCEPT ![t] = [refresh[t] EXCEPT !.pc = "stored"]]
        BY <2>4, <4>1, <4>2 DEF Admit, Store, Publish
      <4>4. Active(t)
        BY <2>4 DEF Admit, Store, Publish, Active
      <4> QED BY <4>1, <4>3, <4>4 DEF Refreshes
    <3>2. refresh[t] \in Refreshes
      BY TypeParts DEF Typed
    <3>3. /\ refresh'[t].original = refresh[t].original /\ refresh'[t].proxy = refresh[t].proxy
          /\ refresh'[t].item = refresh[t].item /\ refresh'[t].generation = refresh[t].generation
          /\ refresh'[t].revision = refresh[t].revision
      BY <3>1, <3>2 DEF Refreshes
    <3> QED BY <2>s, <3>1, <3>3
  <2>5. ASSUME NEW u \in Tasks, u # t, Answers(u) \/ Admit(u) \/ Store(u) \/ Publish(u)
        PROVE  refresh'[t] = refresh[t]
    <3>1. CASE Answers(u)
      BY <2>5, <3>1, AnswerFacts
    <3>2. CASE Admit(u) \/ Store(u) \/ Publish(u)
      BY <2>5, <3>2, MoveFacts
    <3> QED BY <2>5, <3>1, <3>2
  <2>6. ASSUME NEW ch \in Channels, NEW who \in Callers, Capture(ch, who), t # <<ch, who>>
        PROVE  refresh'[t] = refresh[t]
    BY <1>d, <2>6
  <2> QED BY <2>1, <2>2, <2>3, <2>4, <2>5, <2>6, StepKinds DEF QuoteStep, refreshVars
<1> QED BY <1>1, <1>2 DEF Spots

LEMMA InitSpots == Init => Spots
BY DEF Init, Spots, NotAfter, Fields, Active, NoRefresh

\* While the instrument stays, a live tick of the proxy is followed by nothing
\* older: a chain fetched meanwhile gives way to it, and a refresh that was asked
\* before it either was overtaken or has the tick, or a later one.
THEOREM TicksStay == Spec => StreamTickStays
<1>1. Init => Typed /\ Epoch /\ Order /\ Spots
  BY InitTypes, InitEpoch, InitOrder, InitSpots
<1>2. Typed /\ Epoch /\ Order /\ Spots /\ [Next]_vars => Typed' /\ Epoch' /\ Order' /\ Spots'
  BY TypeStep, EpochStep, OrderStep, SpotsStep DEF Order
<1>3. ASSUME Typed, Epoch, Order, Spots, [Next]_vars, Live(field["proxy"])
      PROVE  Later(field["proxy"], field'["proxy"])
  <2>1. field["proxy"].at \in Nat
    BY <1>3 DEF Typed, TypeOK, Fields, Seen, Observation, Live
  <2>2. CASE field'["proxy"] \in {field["proxy"], None}
    BY <2>1, <2>2 DEF Later
  <2>3. ASSUME NEW t \in Tasks, Publish(t), Current(t), t[1] = "proxy", field'["proxy"] = refresh[t].item
        PROVE  Later(field["proxy"], field'["proxy"])
    <3>1. Active(t) /\ Latest(t) /\ refresh[t].revision = revision
      BY <2>3 DEF Publish, Current, Active, Latest
    <3>2. TickOf(t)
      BY <1>3, <2>3, <3>1 DEF Spots
    <3> QED BY <1>3, <2>3, <3>1, <3>2 DEF TickOf, Later
  <2> QED BY <1>3, <2>2, <2>3, ShownSpot
<1>4. Typed /\ Epoch /\ Order /\ Spots /\ [Next]_vars =>
        [revision' = revision /\ field["proxy"] # None /\ field["proxy"].live
           => Later(field["proxy"], field'["proxy"])]_vars
  BY <1>3 DEF Live
<1> QED BY <1>1, <1>2, <1>4, PTL DEF Spec, StreamTickStays
=============================================================================
