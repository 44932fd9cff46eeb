------------------------------- MODULE MCCapture -------------------------------
(* Capture for TLC: the inboxes its runs send. *)
EXTENDS Capture

CONSTANTS jalon, compass,  \* repositories
          rate, drop       \* slugs

Idea(r, s) == [say |-> "idea", repo |-> r, slug |-> s]
Command(r, s) == [say |-> "command", repo |-> r, slug |-> s]
Other(w) == [say |-> w, repo |-> NoRepo, slug |-> NoSlug]

\* A line nobody can route, a command that names no repository, and the same idea
\* twice.
SameTitles ==
  <<Other("unrouted"), Command(NoRepo, drop), Idea(jalon, rate), Idea(jalon, rate)>>
\* A titled line, an idea, and one whose id is the prefix of its.
TitledFirst == <<Other("skip"), Idea(jalon, rate), Idea(jalon, drop)>>
RateExtendsDrop == {<<rate, drop>>}
DecideThenBuild == <<Command(compass, drop), Command(compass, drop)>>

DropInCompass == [r \in Repo |-> IF r = compass THEN {drop} ELSE {}]
NoSeeds == [r \in Repo |-> {}]
=============================================================================
