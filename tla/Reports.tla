------------------------------- MODULE Reports -------------------------------
(* The reporting tools (src/tools/reports*.js, src/tools/audit-composite.js):   *)
(* each lists rows of a site page by page, asks something more about some of     *)
(* them, and says what it found and how far that can be trusted, while editors   *)
(* keep changing the content and requests fail.  A report is a record of the     *)
(* choices its function makes; the actions below are what all of them do.        *)
EXTENDS Naturals, Sequences, FiniteSets, SequencesExt, TLC

CONSTANTS
  Bundles,      \* the content types of the site, in the order Drupal lists them
  DeniedBundles,\* those the connector's policy forbids to read
  PageSize,     \* rows in a page of Drupal
  SampleSize,   \* rows a report reads of a collection at most
  MaxLinks,     \* links one report probes at most
  NewRow,       \* a row an editor may add
  Linker,       \* the row whose body holds the links to the pages that have any
  ReportScenes  \* what is asked for, on what content, with what capabilities

VARIABLES
  content,  \* the rows of each bundle, in the order the report sorts them by
  rows,     \* each row: published, defective, its field shown, its target open
  work,     \* the call: the reports to run, their results, faults and edits left
  rep       \* the report that is running

reportVars == <<content, rows, work, rep>>

---------------------------------------------------------------------------
(* The reports *)

\* What a follow-up request about a row may say of it, and what a report makes
\* of that: told means that the result admits it could not tell.
Direct == [good |-> "ok", bad |-> "bad", closed |-> "told", absent |-> "told", down |-> "told"]

\* A sample of one content type, judged by what the listing says.  `of`: the rows
\* it lists; `sight`: what it does with a row whose field is not in the answer.
NodeSample ==
  [over |-> "bundle", pages |-> "paged", order |-> "none", only |-> "any", of |-> "bad",
   sight |-> "clear", tells |-> "atCap", listFails |-> "throws", needs |-> "", guarded |-> TRUE,
   follow |-> "none", verdict |-> Direct, parallel |-> FALSE, retry |-> "", links |-> FALSE]
PublishedSample == [NodeSample EXCEPT !.only = "published"]
BodySample == [PublishedSample EXCEPT !.sight = "skips"]
LatestSample == [NodeSample EXCEPT !.order = "newest"]

ContentSummary == [NodeSample EXCEPT !.over = "every", !.pages = "counted", !.of = "all",
                                     !.tells = "hasNext", !.listFails = "told"]
StaleContent == [NodeSample EXCEPT !.order = "oldest", !.only = "bad", !.of = "all", !.tells = "hasNext"]
ContentByAuthor == [NodeSample EXCEPT !.of = "all", !.sight = "skips", !.tells = "never"]
RecentlyPublished == [PublishedSample EXCEPT !.over = "readable", !.order = "newest", !.of = "all",
                                             !.tells = "hasNext", !.listFails = "told"]
FieldCompleteness == [PublishedSample EXCEPT !.sight = "counts"]
TaxonomyUsage == [NodeSample EXCEPT !.over = "collection", !.tells = "never", !.follow = "row",
                                    !.verdict.absent = "bad", !.parallel = TRUE]
RevisionHotspots == [LatestSample EXCEPT !.tells = "never", !.needs = "revisions", !.follow = "row",
                                         !.parallel = TRUE]
UserActivity == [NodeSample EXCEPT !.over = "collection", !.only = "bad", !.of = "all",
                                   !.order = "oldest", !.tells = "never", !.needs = "login",
                                   !.listFails = "silent"]
SeoAudit == [PublishedSample EXCEPT !.sight = "guesses", !.tells = "never", !.follow = "rendered"]
AccessibilityAudit == [BodySample EXCEPT !.tells = "never"]

DuplicateContent == [LatestSample EXCEPT !.of = "twins"]
WorkflowBottlenecks == [NodeSample EXCEPT !.order = "oldest", !.sight = "gates"]
Inventory == [good |-> "ok", bad |-> "bad", closed |-> "throws", absent |-> "gates", down |-> "throws"]
WorkflowInLanguage == [NodeSample EXCEPT !.order = "oldest", !.needs = "inventory", !.follow = "row",
                                         !.verdict = Inventory]
TranslationCoverage == [LatestSample EXCEPT !.needs = "inventory", !.follow = "row",
                                            !.verdict = [Inventory EXCEPT !.absent = "told"]]
ScheduledContent == [LatestSample EXCEPT !.over = "each", !.sight = "gates", !.listFails = "told"]
Readability == BodySample
OrphanPages == [PublishedSample EXCEPT !.of = "unlinked", !.sight = "skips"]
PiiExposure == BodySample
SeoMetaCoverage == [LatestSample EXCEPT !.sight = "guesses"]

RedirectHealth == [NodeSample EXCEPT !.over = "collection", !.of = "twins", !.listFails = "gated"]
MenuIntegrity == [NodeSample EXCEPT !.over = "collection", !.listFails = "gated"]
AliasCoverage == [LatestSample EXCEPT !.follow = "aliases"]
BrokenEmbeds == BodySample

\* A link is probed with HEAD and, if that fails, GET; an address outside the
\* allowlist is only counted, and every failure is listed with its reason.
CheckOne == [good |-> "ok", bad |-> "bad", closed |-> "told", absent |-> "unseen", down |-> "unseen"]
BrokenLinks == BodySample
BrokenLinksLive == [PublishedSample EXCEPT !.follow = "target", !.verdict = CheckOne, !.parallel = TRUE,
                                           !.retry = "always", !.links = TRUE]

Unpublished == [NodeSample EXCEPT !.over = "readable", !.order = "newest", !.only = "unpublished",
                                  !.of = "all", !.tells = "hasNext", !.listFails = "told"]
MissingField == [LatestSample EXCEPT !.sight = "lists"]

\* Only an answer that the target does not exist makes a reference an orphan.  A
\* target of an entity type the policy denies is not asked for and counts as closed.
ClassifyTargetErrorM1(status) ==
  IF status \in {401, 403, 404} THEN "missing" ELSE "failed"
ClassifyTargetError(status) ==
  IF status = 404 THEN "missing" ELSE IF status \in {401, 403} THEN "forbidden" ELSE "failed"
ClassifyRef(status) == IF status = 200 THEN "ok" ELSE ClassifyTargetError(status)
RefVerdict(status) ==
  LET state == ClassifyRef(status)
  IN  IF state = "ok" THEN "ok" ELSE IF state = "missing" THEN "bad" ELSE "told"
OrphanedReferences ==
  [LatestSample EXCEPT !.follow = "target",
     !.verdict = [good |-> RefVerdict(200), bad |-> RefVerdict(404), closed |-> RefVerdict(403),
                  absent |-> RefVerdict(200), down |-> RefVerdict(500)]]

\* What only the host's own command line can say, in one answer.
Privileged == [NodeSample EXCEPT !.over = "collection", !.pages = "whole", !.needs = "source",
                                 !.listFails = "gated", !.guarded = FALSE]
ConfigDrift == Privileged
StatusReport == Privileged
PermissionAudit == Privileged
ModuleAudit == [Privileged EXCEPT !.follow = "advisories"]
Log404 == [Privileged EXCEPT !.pages = "top", !.tells = "never", !.guarded = TRUE]

\* Configuration is read object by object, from the server tool or else by drush.
ReadConfig == [Privileged EXCEPT !.guarded = TRUE, !.listFails = "throws", !.follow = "row",
                                 !.retry = "drush",
                                 !.verdict = [Direct EXCEPT !.closed = "throws", !.absent = "throws",
                                                            !.down = "throws"]]
ConfigBestPractices == [ReadConfig EXCEPT !.verdict = Direct, !.listFails = "never"]
TextFormatAudit == ReadConfig
CacheConfig == [ReadConfig EXCEPT !.listFails = "never"]

ReportOf ==
  [contentSummary |-> ContentSummary, staleContent |-> StaleContent,
   contentByAuthor |-> ContentByAuthor, recentlyPublished |-> RecentlyPublished,
   fieldCompleteness |-> FieldCompleteness, taxonomyUsage |-> TaxonomyUsage,
   revisionHotspots |-> RevisionHotspots, userActivity |-> UserActivity, seoAudit |-> SeoAudit,
   accessibilityAudit |-> AccessibilityAudit, duplicateContent |-> DuplicateContent,
   workflowBottlenecks |-> WorkflowBottlenecks, workflowInLanguage |-> WorkflowInLanguage,
   translationCoverage |-> TranslationCoverage, scheduledContent |-> ScheduledContent,
   readability |-> Readability, orphanPages |-> OrphanPages, piiExposure |-> PiiExposure,
   seoMetaCoverage |-> SeoMetaCoverage, redirectHealth |-> RedirectHealth,
   menuIntegrity |-> MenuIntegrity, aliasCoverage |-> AliasCoverage, brokenEmbeds |-> BrokenEmbeds,
   brokenLinks |-> BrokenLinks, brokenLinksLive |-> BrokenLinksLive, unpublished |-> Unpublished,
   missingField |-> MissingField, orphanedReferences |-> OrphanedReferences,
   configDrift |-> ConfigDrift, statusReport |-> StatusReport, permissionAudit |-> PermissionAudit,
   moduleAudit |-> ModuleAudit, log404 |-> Log404, configBestPractices |-> ConfigBestPractices,
   textFormatAudit |-> TextFormatAudit, cacheConfig |-> CacheConfig]

\* A row is of one content type, and a report is asked for one there is, or none.
\* The rows of another entity type stand where an open content type comes first.
ASSUME ReportAssumption ==
  /\ PageSize \in Nat /\ SampleSize \in Nat
  /\ Bundles \in Seq(ToSet(Bundles)) \ {<<>>} /\ Head(Bundles) \notin DeniedBundles
  /\ \A s \in ReportScenes :
       /\ s.plan \in Seq(DOMAIN ReportOf)
       /\ DOMAIN s.content = ToSet(Bundles) /\ s.type \in {""} \cup ToSet(Bundles)
       /\ \A b \in ToSet(Bundles) : /\ s.content[b] \in Seq(ToSet(s.content[b]))
                                   /\ ToSet(s.content[b]) \cup {NewRow} \subseteq DOMAIN s.rows
       /\ \A b, c \in ToSet(Bundles) : b # c => ToSet(s.content[b]) \cap ToSet(s.content[c]) = {}

---------------------------------------------------------------------------
(* Reading *)

Least(a, b) == IF a < b THEN a ELSE b
Readable(b) == b \notin DeniedBundles
Name == Head(work.left)
Current == ReportOf[Name]

Matches(r, row) ==
  CASE r.only = "published" -> row.pub
    [] r.only = "unpublished" -> ~row.pub
    [] r.only = "bad" -> row.bad
    [] OTHER -> TRUE

\* The elements of a sequence that are in S, in their order.
Kept(seq, S) ==
  LET places == {i \in DOMAIN seq : seq[i] \in S}
      Nth(k) == CHOOSE i \in places : Cardinality({j \in places : j <= i}) = k
  IN  [k \in 1..Cardinality(places) |-> seq[Nth(k)]]
ListingOf(ids, of) == Kept(ids, {id \in ToSet(ids) : Matches(Current, of[id])})

\* The bundles a report goes through; a collection of another entity type, or of
\* log rows or configuration, stands in the place of the first.
ReadableNodeBundles == Kept(Bundles, {b \in ToSet(Bundles) : Readable(b)})
Scope(r) ==
  CASE r.over = "every" -> Bundles
    [] r.over = "readable" /\ work.type = "" -> ReadableNodeBundles
    [] r.over = "each" /\ work.type = "" -> Bundles
    [] r.over = "collection" -> <<Head(Bundles)>>
    [] OTHER -> <<work.type>>

NoReport ==
  [place |-> "idle", status |-> "", left |-> <<>>, offset |-> 0, seen |-> <<>>, queue |-> <<>>,
   asked |-> 0, known |-> 0, second |-> "", tried |-> FALSE, found |-> {}, admits |-> FALSE,
   silent |-> FALSE, cut |-> FALSE, sliced |-> FALSE, touched |-> {}, shifted |-> FALSE]

ReportCall(s) ==
  /\ content = s.content /\ rows = s.rows /\ rep = NoReport
  /\ work = [left |-> s.plan, health |-> s.health, type |-> s.type, lacks |-> s.lacks,
             sections |-> <<>>, grade |-> "", faults |-> s.faults, edits |-> s.edits]
ReportInit == \E s \in ReportScenes : ReportCall(s)

Ended(status) == [rep EXCEPT !.place = "ended", !.status = status]
Fault == work.faults > 0 /\ work' = [work EXCEPT !.faults = @ - 1]
Reading == rep.place = "reading"
ReadAll == Reading /\ rep.left = <<>>

\* A report that needs a content type, a readable one, or a capability stops here.
RequireContentType(r) == r.over = "bundle" => work.type # ""
Begin ==
  /\ rep.place = "idle" /\ work.left # <<>>
  /\ LET r == Current
         gated == r.needs \in work.lacks /\ r.needs # "inventory"
     IN  rep' = IF ~RequireContentType(r) THEN Ended(IF work.health THEN "gated" ELSE "error")
                ELSE IF r.guarded /\ r.over # "every" /\ ~Readable(work.type) THEN Ended("error")
                ELSE IF gated THEN Ended("gated")
                ELSE [rep EXCEPT !.place = "reading", !.left = Scope(r)]
  /\ UNCHANGED <<content, rows, work>>

\* The list of content types, or the counts a report starts with, failed.
FirstReadFails ==
  /\ rep.place = "idle" /\ work.left # <<>> /\ RequireContentType(Current)
  /\ \/ Current.over = "every"
     \/ Current.over \in {"readable", "each"} /\ work.type = ""
     \/ Current.listFails = "silent"
  /\ Fault /\ rep' = Ended("error")
  /\ UNCHANGED <<content, rows>>

\* A sample says that it is one when it is full, a window when Drupal has more.
Approximate(r, full, hasNext) ==
  \/ r.tells = "atCap" /\ r.pages = "paged" /\ full
  \/ r.tells = "hasNext" /\ hasNext

\* Whether another page is read: of a sample, of a window or count.
HasNext(list, end) == Len(list) > end
CollectGoesOn(limit, got, end, next) == got = limit /\ next /\ end < SampleSize
CountGoesOn(got, end, next) == got # 0 /\ next /\ end < SampleSize
GoesOn(r, limit, got, end, next) ==
  IF r.pages \in {"whole", "top"} THEN FALSE
  ELSE IF r.pages = "counted" \/ r.tells = "hasNext" THEN CountGoesOn(got, end, next)
  ELSE CollectGoesOn(limit, got, end, next)

\* One page of collectEntities, of listEntities' window or of a count.  The next
\* one starts after the rows that came, wherever those rows are by then.
ReadPage ==
  /\ Reading /\ rep.left # <<>>
  /\ LET r == Current
         b == Head(rep.left)
         list == ListingOf(content[b], rows)
         limit == CASE r.pages = "whole" -> Len(list)
                    [] r.pages = "top" -> SampleSize
                    [] r.pages = "counted" -> PageSize
                    [] OTHER -> Least(PageSize, SampleSize - rep.offset)
         end == Least(rep.offset + limit, Len(list))
         batch == SubSeq(list, rep.offset + 1, end)
         hasNext == HasNext(list, end)
         more == GoesOn(r, limit, Len(batch), end, hasNext)
         full == rep.offset + Len(batch) >= SampleSize
     IN  /\ r.over = "each" => Readable(b)
         /\ rep' = [rep EXCEPT
              !.left = IF more THEN @ ELSE Tail(@),
              !.offset = IF more THEN @ + Len(batch) ELSE 0,
              !.seen = [id \in DOMAIN @ \cup ToSet(batch) |->
                          IF id \in ToSet(batch) THEN [row |-> rows[id], bundle |-> b] ELSE @[id]],
              !.queue = @ \o batch, !.tried = FALSE,
              !.cut = @ \/ (~more /\ hasNext),
              !.admits = @ \/ (~more /\ Approximate(r, full, hasNext))]
  /\ UNCHANGED <<content, rows, work>>

\* A bundle the policy denies is one of the rows of the result.
DeniedBundle ==
  /\ Reading /\ rep.left # <<>> /\ Current.over = "each" /\ ~Readable(Head(rep.left))
  /\ rep' = [rep EXCEPT !.left = Tail(@), !.admits = TRUE]
  /\ UNCHANGED <<content, rows, work>>

\* Another source or another method is asked once a first one has failed.
SecondWay(r) == ~rep.tried /\ (r.retry = "always" \/ (r.retry = "drush" /\ "drush" \notin work.lacks))

\* A listing failed: the report, its bundle or, unsaid, its list is given up.
PageFails ==
  /\ Reading /\ rep.left # <<>> /\ Current.listFails # "never" /\ Fault
  /\ Current.over = "each" => Readable(Head(rep.left))
  /\ LET r == Current
         b == Head(rep.left)
         throws == r.listFails = "throws" \/ (r.listFails = "told" /\ r.over # "every" /\ work.type # "")
     IN  rep' = IF SecondWay(r) THEN [rep EXCEPT !.tried = TRUE]
                ELSE IF throws THEN Ended("error")
                ELSE IF r.listFails = "gated" THEN Ended("gated")
                ELSE IF r.listFails = "silent" THEN [rep EXCEPT !.left = <<>>, !.silent = TRUE, !.offset = 0]
                ELSE [rep EXCEPT !.left = Tail(@), !.offset = 0, !.admits = TRUE,
                        !.seen = [id \in {i \in DOMAIN @ : @[i].bundle # b} |-> @[id]]]
  /\ UNCHANGED <<content, rows>>

---------------------------------------------------------------------------
(* Asking more *)

Present(id) == \E b \in DOMAIN content : id \in ToSet(content[b])
RowAnswer(r, id) ==
  IF ~rows[id].open THEN "closed"
  ELSE IF r.follow = "row" /\ ~Present(id) THEN "absent"
  ELSE IF rows[id].bad THEN "bad" ELSE "good"

Follows(r) == r.follow \in {"row", "target"}
Available(r) == ~(r.needs = "inventory" /\ r.needs \in work.lacks)
Uninventoried(r) == r.needs = "inventory" /\ rep.known = 0 /\ DOMAIN rep.seen # {}
Finding(id, why) == [id |-> id, why |-> why]
Take(verdict, id) ==
  LET next == [rep EXCEPT !.queue = Kept(@, ToSet(@) \ {id}), !.asked = @ + 1, !.tried = FALSE]
      known == [next EXCEPT !.known = @ + 1]
  IN  CASE verdict = "ok" -> known
        [] verdict = "told" -> [next EXCEPT !.admits = TRUE]
        [] verdict \in {"bad", "unseen"} -> [known EXCEPT !.found = @ \cup {Finding(id, verdict)}]
        [] verdict = "throws" -> Ended("error")
        [] verdict = "gates" -> Ended("gated")

\* The rows that may be asked about next: one after the other, or several at once.
Askable(r) ==
  IF ~ReadAll \/ ~Follows(r) \/ ~Available(r) \/ rep.queue = <<>> THEN {}
  ELSE IF r.links /\ rep.asked = MaxLinks THEN {}
  ELSE IF r.parallel THEN ToSet(rep.queue) ELSE {Head(rep.queue)}

AskRow(id) ==
  /\ rep' = Take(Current.verdict[RowAnswer(Current, id)], id)
  /\ UNCHANGED <<content, rows, work>>
AskFails(id) ==
  /\ Fault
  /\ rep' = IF SecondWay(Current) THEN [rep EXCEPT !.tried = TRUE] ELSE Take(Current.verdict.down, id)
  /\ UNCHANGED <<content, rows>>
CheckRow == ReadAll /\ \E id \in Askable(Current) : AskRow(id) \/ AskFails(id)

\* One request for all rows: the rendered pages, the aliases or the advisories.
CheckAll ==
  /\ ReadAll /\ Current.follow \in {"rendered", "aliases", "advisories"} /\ rep.second = ""
  /\ \/ rep' = [rep EXCEPT !.second = "ok"] /\ UNCHANGED work
     \/ rep' = [rep EXCEPT !.second = "failed"] /\ Fault
  /\ UNCHANGED <<content, rows>>

---------------------------------------------------------------------------
(* Judging *)

\* Of the rows read, those whose field did not come with them.
Hidden == {id \in DOMAIN rep.seen : ~rep.seen[id].row.shown}
Blind(ids) == ids # {} /\ ids \subseteq Hidden

\* A page that renders says what its description is; without one the field does.
Sight(r) ==
  IF r.follow # "rendered" THEN r.sight ELSE IF rep.second = "ok" THEN "rendered" ELSE r.sight
Unrendered == {id \in DOMAIN rep.seen : ~rep.seen[id].row.open}

Overlooks(sight) ==
  CASE sight = "clear" -> {} [] sight = "rendered" -> Unrendered [] OTHER -> Hidden
Listed(r, ids) ==
  LET sight == Sight(r)
      bad == {id \in ids \ Overlooks(sight) : r.of = "all" \/ rep.seen[id].row.bad}
      unlinked == {id \in ids : rep.seen[id].row.bad \/ Linker \notin ids \ Hidden}
      as(why, set) == {Finding(id, why) : id \in set}
  IN  IF r.of = "unlinked" THEN as("unseen", unlinked)
      ELSE IF r.of = "twins" THEN IF Cardinality(bad) > 1 THEN as("bad", bad) ELSE {}
      ELSE IF sight \in {"lists", "guesses"} /\ Blind(ids) THEN {}
      ELSE IF sight = "lists" THEN as("bad", bad) \cup as("unseen", ids \cap Hidden)
      ELSE IF sight = "guesses" THEN as("bad", bad \cup (ids \cap Hidden))
      ELSE as("bad", bad)

BlindBundle == \E b \in ToSet(Bundles) : Blind({id \in DOMAIN rep.seen : rep.seen[id].bundle = b})
Admits(r) ==
  \/ Sight(r) \in {"lists", "guesses", "gates"} /\ BlindBundle
  \/ Sight(r) = "counts" /\ Hidden # {}
  \/ r.follow = "aliases" /\ rep.second = "failed"
  \/ r.links /\ rep.queue # <<>>

\* What a result leaves out without a word.
Omits(r) ==
  \/ r.follow = "advisories" /\ rep.second = "failed"
  \/ Sight(r) = "rendered" /\ Unrendered # {}

Complete(r) ==
  [rep EXCEPT !.place = "ended", !.status = "ok", !.admits = @ \/ Admits(r),
              !.silent = @ \/ Omits(r),
              !.found = IF Follows(r) THEN @
                        ELSE IF r.follow = "advisories" /\ rep.second = "failed" THEN {}
                        ELSE Listed(r, DOMAIN rep.seen)]

\* A list over several bundles keeps its first rows; one report also says the total.
Slice(r, done) ==
  IF r.over # "readable" \/ Cardinality(done.found) <= SampleSize THEN {done}
  ELSE {[done EXCEPT !.found = kept, !.sliced = TRUE, !.admits = @ \/ r.only = "unpublished"] :
          kept \in {s \in SUBSET done.found : Cardinality(s) = SampleSize}}

Finish ==
  /\ ReadAll
  /\ LET r == Current
     IN  /\ Available(r) => Askable(r) = {}
         /\ r.follow \in {"rendered", "aliases", "advisories"} => rep.second # ""
         /\ IF \/ ~Available(r) \/ Uninventoried(r)
               \/ Sight(r) = "gates" /\ BlindBundle /\ (r.over = "each" => work.type # "")
            THEN rep' = Ended("gated")
            ELSE rep' \in Slice(r, Complete(r))
  /\ UNCHANGED <<content, rows, work>>

---------------------------------------------------------------------------
(* The site's health: reports in turn, whatever becomes of each.  A finding of   *)
(* the configuration reports counts as one of high severity.                     *)

Score(report, found) == IF report = "contentSummary" THEN 0 ELSE Cardinality(found)
High(report, found) ==
  IF report \in {"piiExposure", "configBestPractices", "moduleAudit", "permissionAudit"}
  THEN Cardinality(found) ELSE 0
Grade(sum) ==
  IF sum.high = 0 /\ sum.issues = 0 THEN "A"
  ELSE IF sum.high = 0 /\ sum.issues <= 5 THEN "B"
  ELSE IF sum.high <= 2 THEN "C"
  ELSE IF sum.high <= 5 THEN "D" ELSE "F"

\* What the sections that have a result add up to.
Total(sections) ==
  FoldSeq(LAMBDA s, n : IF s.status # "ok" THEN n
                        ELSE [high |-> n.high + High(s.report, s.found),
                              issues |-> n.issues + Score(s.report, s.found)],
          [high |-> 0, issues |-> 0], sections)

NextSection ==
  /\ rep.place = "ended" /\ work.left # <<>>
  /\ LET sections == Append(work.sections, [report |-> Name, status |-> rep.status, found |-> rep.found])
     IN  work' = [work EXCEPT !.left = Tail(@), !.sections = sections,
                    !.grade = IF work.health /\ Len(work.left) = 1
                              THEN Grade(Total(sections)) ELSE @]
  /\ rep' = NoReport
  /\ UNCHANGED <<content, rows>>

---------------------------------------------------------------------------
(* Editors *)

\* Where a row goes that is saved while the report runs.
Saved(r, list, id) ==
  LET others == Kept(list, ToSet(list) \ {id})
  IN  CASE r.order = "newest" -> <<id>> \o others
        [] r.order # "newest" /\ (r.order = "oldest" \/ id \notin ToSet(list)) -> Append(others, id)
        [] OTHER -> list

\* Rows still to be read that now stand among those already passed.
Slipped(b, before, after) ==
  LET unread == {id \in ToSet(before) : \E i \in DOMAIN before : i > rep.offset /\ before[i] = id}
  IN  b = Head(rep.left) /\ \E i \in DOMAIN after : i <= rep.offset /\ after[i] \in unread

Edit ==
  /\ Reading /\ rep.left # <<>> /\ work.edits > 0 /\ work' = [work EXCEPT !.edits = @ - 1]
  /\ \E b \in ToSet(Bundles) : \E id \in ToSet(content[b]) \cup {NewRow} :
       /\ id = NewRow => ~Present(id)
       /\ \E pub, bad \in BOOLEAN :
            rows' = [rows EXCEPT ![id].pub = pub, ![id].bad = bad]
       /\ content' \in {[content EXCEPT ![b] = Saved(Current, @, id)],
                        [content EXCEPT ![b] = Kept(@, ToSet(@) \ {id})]}
       /\ rep' = [rep EXCEPT !.touched = @ \cup {id},
                             !.shifted = @ \/ Slipped(b, ListingOf(content[b], rows), ListingOf(content'[b], rows'))]

ReportNext ==
  \/ Begin \/ FirstReadFails \/ ReadPage \/ DeniedBundle \/ PageFails
  \/ CheckRow \/ CheckAll \/ Finish \/ NextSection \/ Edit

\* Whatever reports are asked for.
ReportSpec == ReportInit /\ [][ReportNext]_reportVars

---------------------------------------------------------------------------
(* Properties *)

\* The defects a report owes its reader: rows nobody touched meanwhile, in the
\* bundles it covers, that it could see and that have what it looks for.
InScope(r) == UNION {ToSet(content[b]) : b \in ToSet(Scope(r))}
Owed(r) ==
  LET bad == {id \in InScope(r) \ rep.touched :
                /\ Matches(r, rows[id]) /\ (r.of = "all" \/ rows[id].bad)
                /\ r.sight = "clear" \/ rows[id].shown}
  IN  IF r.of = "twins" /\ Cardinality(bad) < 2 THEN {} ELSE bad

\* Known to say less than it should: a list that ends at its limit without a word
\* (never), rows that moved under the offset, and three silent failures.
Excused(r) ==
  \/ rep.cut /\ r.tells = "never"
  \/ rep.shifted
  \/ rep.silent /\ Name \in {"userActivity", "moduleAudit", "seoAudit"}
  \/ rep.sliced /\ Name = "recentlyPublished"

\* A report that ends with a result may be believed (collectEntities, the report
\* functions): what it lists as a defect is one, it has read no row of a content
\* type the policy denies, and unless it admits that it may be incomplete it
\* lists every defect there was to see.  A row whose field is hidden may be
\* listed as lacking it by the two reports that guess, if they saw it elsewhere.
ReportIsTrue ==
  rep.place = "ended" /\ rep.status = "ok" =>
    LET r == Current
        found == {f.id : f \in rep.found}
    IN  /\ \A f \in rep.found : f.why = "bad" /\ f.id \notin rep.touched =>
             \/ IF r.of = "all" THEN Matches(r, rows[f.id]) ELSE rows[f.id].bad
             \/ r.sight = "guesses" /\ ~rows[f.id].shown /\ ~Blind(DOMAIN rep.seen)
        /\ \A id \in DOMAIN rep.seen : Readable(rep.seen[id].bundle) \/ r.pages = "counted"
        /\ rep.admits \/ Excused(r) \/ Owed(r) \subseteq found
=============================================================================
