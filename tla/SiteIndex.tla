----------------------------- MODULE SiteIndex -----------------------------
(***************************************************************************)
(* The static site of examples/bench/ab: startup.sh starts cron, builds    *)
(* the index once and then starts nginx; cron runs build_index.sh every    *)
(* minute, whether or not the last build is over.  A build lists a         *)
(* directory, makes the links and then truncates and writes its            *)
(* index.html, while users change the files and other builds write the     *)
(* same page.                                                              *)
(*                                                                         *)
(* A page is the set of its links.  Every writer starts at the beginning   *)
(* of the file, so a page written over a longer one that was written after *)
(* the truncation leaves the tail of the longer one; links count as        *)
(* equally long.                                                           *)
(***************************************************************************)
EXTENDS Naturals, FiniteSets

CONSTANTS Root,        \* /siteroot/fs
          Subs,        \* directories users may make in it, each once
          Names,       \* files users may place
          Like,        \* those whose name contains index.html without being it
          Builds,      \* processes that may run build_index.sh at one time
          First,       \* the one startup.sh waits for
          MaxChanges   \* bound on the changes users make

ASSUME SiteIndexAssumption ==
  /\ Root \notin Subs /\ Like \subseteq Names /\ First \in Builds
  /\ MaxChanges \in Nat

VARIABLES files,    \* the files users placed, per directory
          subs,     \* the directories that exist
          unmade,   \* those that have not been made yet
          index,    \* the index.html of each directory
          build,    \* what each build is doing
          nginx,    \* nginx serves
          changes   \* changes made so far

siteVars == <<files, subs, unmade, index, build, nginx, changes>>

Dirs == {Root} \cup Subs
Exists(d) == d = Root \/ d \in subs
IndexHtml == "index.html"

Links == [name: Names \cup Subs \cup {IndexHtml}, dir: BOOLEAN]
NoPage == [is |-> "missing", links |-> {}, tail |-> {}]
Truncated == [is |-> "empty", links |-> {}, tail |-> {}]
Page(links) == [is |-> "page", links |-> links, tail |-> {}]

Idle == [pc |-> "idle", todo |-> {}, dir |-> Root, seen |-> {}, links |-> {}]

SiteInit ==
  /\ files = [d \in Dirs |-> {}]
  /\ subs = {} /\ unmade = Subs
  /\ index = [d \in Dirs |-> NoPage]
  /\ build = [b \in Builds |-> IF b = First THEN [Idle EXCEPT !.pc = "find"] ELSE Idle]
  /\ nginx = FALSE
  /\ changes = 0
-----------------------------------------------------------------------------
(* build_index.sh *)

Site == <<files, subs, unmade, changes>>

\* ls -1
Entries(d) ==
  IF ~Exists(d) THEN {}
  ELSE files[d] \cup (IF d = Root THEN subs ELSE {})
                \cup (IF index[d].is = "missing" THEN {} ELSE {IndexHtml})

\* The links of what was listed: a name that is no directory by now and that
\* grep "index.html" finds is left out.
LinksOf(names) ==
  {[name |-> n, dir |-> n \in subs] :
     n \in {x \in names : x \in subs \/ x \notin Like \cup {IndexHtml}}}

\* cron, every minute.
Start(b) ==
  /\ build[b].pc = "idle"
  /\ build' = [build EXCEPT ![b].pc = "find"]
  /\ UNCHANGED <<Site, index, nginx>>

\* find ${1} -type d, all of it before the loop begins.
Find(b) ==
  /\ build[b].pc = "find"
  /\ build' = [build EXCEPT ![b].pc = "dir", ![b].todo = {Root} \cup subs]
  /\ UNCHANGED <<Site, index, nginx>>

List(b) ==
  /\ build[b].pc = "dir"
  /\ \E d \in build[b].todo :
       build' = [build EXCEPT ![b] = [pc |-> "links", todo |-> @.todo \ {d}, dir |-> d,
                                      seen |-> Entries(d), links |-> {}]]
  /\ UNCHANGED <<Site, index, nginx>>

\* The loop over the names, where only the tests for a directory look at the
\* file system again.
MakeLinks(b) ==
  /\ build[b].pc = "links"
  /\ build' = [build EXCEPT ![b].pc = "open", ![b].links = LinksOf(build[b].seen)]
  /\ UNCHANGED <<Site, index, nginx>>

\* Mutant of Truncate: the page is kept until it is written.
TruncateNot(b) ==
  /\ build[b].pc = "open"
  /\ build' = [build EXCEPT ![b].pc = IF Exists(build[b].dir) THEN "write" ELSE "dir"]
  /\ UNCHANGED <<Site, index, nginx>>

\* > $1/index.html, which fails when the directory is gone.
Truncate(b) ==
  /\ build[b].pc = "open"
  /\ IF Exists(build[b].dir)
     THEN /\ build' = [build EXCEPT ![b].pc = "write"]
          /\ index' = [index EXCEPT ![build[b].dir] = Truncated]
     ELSE build' = [build EXCEPT ![b].pc = "dir"] /\ index' = index
  /\ UNCHANGED <<Site, nginx>>

\* What a page leaves of the one it is written over.
Rest(page, links) ==
  LET old == IF page.tail = {} THEN page.links ELSE page.tail
  IN IF Cardinality(old) > Cardinality(links) THEN old ELSE {}

\* echo: into a file that is gone when its directory is.
WritePage(b) ==
  /\ build[b].pc = "write"
  /\ build' = [build EXCEPT ![b].pc = "dir"]
  /\ LET d == build[b].dir
     IN index' = IF Exists(d)
                 THEN [index EXCEPT ![d] = [Page(build[b].links) EXCEPT
                                              !.tail = Rest(index[d], build[b].links)]]
                 ELSE index
  /\ UNCHANGED <<Site, nginx>>

\* Mutant of Finish: startup.sh runs its build in the background.
FinishBackground(b) ==
  /\ build[b].pc # "idle"
  /\ nginx' = (nginx \/ b = First)
  /\ UNCHANGED <<Site, index, build>>

\* The end of the script; startup.sh goes on to start nginx when it is the
\* build it has been waiting for.
Finish(b) ==
  /\ build[b].pc = "dir" /\ build[b].todo = {}
  /\ build' = [build EXCEPT ![b] = Idle]
  /\ nginx' = (nginx \/ b = First)
  /\ UNCHANGED <<Site, index>>

Build(b) ==
  \/ Find(b) \/ List(b) \/ MakeLinks(b) \/ Truncate(b) \/ WritePage(b) \/ Finish(b)
-----------------------------------------------------------------------------
(* Users of the site *)

Change == changes < MaxChanges /\ changes' = changes + 1 /\ UNCHANGED <<build, nginx>>

Place(d, f) ==
  /\ Change
  /\ Exists(d) /\ f \notin files[d]
  /\ files' = [files EXCEPT ![d] = @ \cup {f}]
  /\ UNCHANGED <<subs, unmade, index>>

Remove(d, f) ==
  /\ Change
  /\ f \in files[d]
  /\ files' = [files EXCEPT ![d] = @ \ {f}]
  /\ UNCHANGED <<subs, unmade, index>>

MkDir(s) ==
  /\ Change
  /\ s \in unmade
  /\ subs' = subs \cup {s} /\ unmade' = unmade \ {s}
  /\ UNCHANGED <<files, index>>

\* rm -r
RmDir(s) ==
  /\ Change
  /\ s \in subs
  /\ subs' = subs \ {s}
  /\ files' = [files EXCEPT ![s] = {}]
  /\ index' = [index EXCEPT ![s] = NoPage]
  /\ UNCHANGED unmade

Users ==
  \/ \E d \in Dirs, f \in Names : Place(d, f) \/ Remove(d, f)
  \/ \E s \in Subs : MkDir(s) \/ RmDir(s)

SiteNext == Users \/ \E b \in Builds : Start(b) \/ Build(b)

\* cron never stops starting builds, and a build that runs goes on.
SiteFairness == \A b \in Builds : WF_siteVars(Start(b)) /\ WF_siteVars(Build(b))

SiteSpec == SiteInit /\ [][SiteNext]_siteVars /\ SiteFairness
-----------------------------------------------------------------------------
(* Properties *)

PageType == [is: {"missing", "empty", "page"}, links: SUBSET Links, tail: SUBSET Links]

SiteTypeOK ==
  /\ files \in [Dirs -> SUBSET Names]
  /\ subs \subseteq Subs /\ unmade \subseteq Subs \ subs
  /\ index \in [Dirs -> PageType]
  /\ \A b \in Builds :
       /\ build[b].pc \in {"idle", "find", "dir", "links", "open", "write"}
       /\ build[b].todo \subseteq Dirs /\ build[b].dir \in Dirs
       /\ build[b].seen \subseteq Names \cup Subs \cup {IndexHtml}
       /\ build[b].links \subseteq Links
  /\ nginx \in BOOLEAN
  /\ changes \in 0 .. MaxChanges

\* A file placed is served and linked in the end, and what was removed is no
\* longer: however builds overlapped while users changed the site, with pages
\* torn, mixed or made from an old listing, every page is rebuilt, and in the
\* end a page is the right one or being rewritten.
RightPage(d) == index[d] = Page(LinksOf(Entries(d)))
Converges ==
  /\ \A d \in Dirs : []<>(Exists(d) => RightPage(d))
  /\ <>[](\A d \in Dirs : Exists(d) => RightPage(d) \/ index[d] \in {NoPage, Truncated})

\* startup.sh builds the index "once do we don't have to wait a minute for
\* cron": when nginx serves, the root has an index, whatever cron's builds do.
ServedWithIndex == nginx => index[Root].is # "missing"
=============================================================================
