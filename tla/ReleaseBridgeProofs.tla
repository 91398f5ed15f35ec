------------------------- MODULE ReleaseBridgeProofs -------------------------
(***************************************************************************)
(* Nothing unverified leaves a release bridge, and what the registry calls *)
(* its head has its accepted sources in it, for any sources, any number of *)
(* commands that die at any step and any moves of production, of the pull  *)
(* requests and of the files under them.                                   *)
(*                                                                         *)
(* The argument: production only moves forward, so a publication that      *)
(* finds production where the seal was made finds the sealed head still on *)
(* record (SealHolds), though a publication that died or failed between    *)
(* its rebuild and its verification has put an unverified head there; and  *)
(* the commit a command works with is known, at every step between the     *)
(* rebuild and the push, by what it was made of (CommitOfJob).  A commit   *)
(* that a user puts on top in the managed worktree is told by the commit   *)
(* under it, which is all that the steps after the last comparison know.   *)
(***************************************************************************)
EXTENDS ReleaseBridge, SequenceTheorems, TLAPS

Known == 1..Len(made)

Command == {"open", "add", "again", "seal", "publish"}

Pc == Command \cup
  {"worktree", "recover", "accept", "check", "reset", "patch", "commit", "record",
   "verify", "drift", "sealed", "find", "ready", "push", "pull", "write"}

Job == [pc : Pc, command : Command, source : Source \cup {NoSource},
        sources : Seq(Source), target : Sha \cup {NoSha}, remote : Sha \cup {NoSha},
        original : Sha \cup {NoSha}, head : Sha \cup {NoSha}, attempt : 1..2]

CommitRow == [base : Sha \cup {NoSha}, sources : Seq(Source), on : Sha \cup {NoSha}]

\* A commit of the program's, or of production.
Own(c) == c \in Known /\ made[c].on = NoSha

\* A user's commit is on top of one of the program's, and no rebuild made it.
UsersOnTop == \A c \in Known : made[c].on # NoSha => made[c].base = NoSha /\ Own(made[c].on)

\* Every commit that is named anywhere exists, and production has no sources in it.
CommitsKnown ==
  /\ lease # NoLease => Own(lease.head)
  /\ UsersOnTop
  /\ tree.head \in Known \cup {NoSha} /\ (tree.there => tree.head \in Known)
  /\ remote \in Known \cup {NoSha} /\ target \in Known
  /\ pull.head \in Known \cup {NoSha}
  /\ verified \subseteq Known
  /\ made[target].sources = <<>> /\ Own(target)

\* Lease and release are written together.
RowsPaired == (lease = NoLease) <=> (release = NoRelease)

\* The steps that rebuild the worktree, those after a rebuild is on record, and
\* those that publish what is sealed.
Building == {"check", "reset", "patch", "commit", "record"}

Rebuilt == {"verify", "drift", "sealed"}

Publishing == {"ready", "push", "pull", "write"}

JobType ==
  job # NoJob =>
    /\ job \in Job
    /\ job.command = "add" => job.source \in Source
    /\ job.pc \in Command => job.command = job.pc

\* What the running command knows of the release it began with.
ReleaseOfJob ==
  /\ job.pc \in {"recover", "accept"} \cup Building \cup Rebuilt =>
       /\ release # NoRelease
       /\ release.state = IF job.command = "publish" THEN "SEALED" ELSE "OPEN"
       /\ job.sources = IF job.command = "add" THEN Append(release.sources, job.source)
                        ELSE release.sources
  /\ job.pc \in {"recover", "accept"} => job.command = "add"
  /\ job.pc \in Building => job.command # "open"
  /\ job.pc \in Rebuilt => job.command \in {"seal", "publish"}
  /\ job.pc \in (Building \ {"check"}) \cup Rebuilt => job.sources # <<>>
  /\ job.pc \in (Building \ {"check"}) \cup {"verify"} => job.original \in Known
  /\ job.pc \in {"find"} \cup Publishing =>
       /\ job.command = "publish"
       /\ release # NoRelease /\ release.state = "SEALED"
       /\ job.sources = release.sources
  /\ job.pc = "worktree" => lease # NoLease

\* The production commit it works on, which only moves forward.
TargetOfJob ==
  /\ job.pc \in Command => job.target = NoSha
  /\ job.pc \in Building => job.target <= target
  /\ job.pc \in (Building \ {"check"}) \cup Rebuilt => job.target \in 1..target
  /\ job.pc \in Building \cup Rebuilt /\ job.command = "publish" => release.verified < job.target
  /\ job.pc = "find" => release.verified <= job.target /\ job.target <= target

\* A commit of the sources on a base.
Made(head, base, sources) ==
  Own(head) /\ made[head].base = base /\ made[head].sources = sources

\* The commit it works with.
CommitOfJob ==
  /\ job.pc \in {"accept", "record"} => Made(job.head, job.target, job.sources)
  /\ job.pc = "record" =>
       /\ job.command # "add" /\ tree.head \in Known /\ Under(tree.head) = job.head
       /\ \A head \in {remote, pull.head} \ {NoSha} : Under(head) # job.head
  /\ job.pc = "recover" => tree.head \in Known
  /\ job.pc \in Rebuilt \cup Publishing =>
       /\ tree.head \in Known /\ Under(tree.head) = lease.head
       /\ made[lease.head].base = job.target
  /\ job.pc \in {"drift", "sealed"} \cup Publishing => GatesPassed(lease.head)
  /\ job.pc = "find" /\ job.target = release.verified =>
       GatesPassed(lease.head) /\ made[lease.head].base = release.verified
  /\ job.pc \in Publishing => job.target = release.verified
  /\ job.pc \in {"pull", "write"} => remote \in Known /\ Under(remote) = lease.head

JobInv == JobType /\ ReleaseOfJob /\ TargetOfJob /\ CommitOfJob

\* What left the machine was sealed and verified, or is on top of what was, and
\* while that is what the lease names it is on the production commit of the seal.
LeftIsSealed ==
  /\ pull.state = "NONE" => pull.head = NoSha
  /\ \A head \in {remote, pull.head} \ {NoSha} :
       /\ release # NoRelease /\ release.state # "OPEN"
       /\ GatesPassed(Under(head))
       /\ made[Under(head)].sources = release.sources
       /\ Under(head) = lease.head => made[lease.head].base = release.verified

\* A seal is of the head on record, unless production moved since.
SealHolds ==
  release # NoRelease /\ release.state = "SEALED" =>
    /\ release.sources # <<>>
    /\ release.verified <= target
    /\ release.verified = target =>
         GatesPassed(lease.head) /\ made[lease.head].base = release.verified

PublishedIsVerified ==
  release # NoRelease /\ release.state = "PUBLISHED" =>
    /\ Own(release.published) /\ GatesPassed(release.published)
    /\ made[release.published].sources = release.sources
    /\ made[release.published].base = release.verified

RowsInv == HeadHasSources /\ LeftIsSealed /\ SealHolds /\ PublishedIsVerified

ReleaseInv == TypeOK /\ CommitsKnown /\ RowsPaired /\ RowsInv /\ JobInv

-----------------------------------------------------------------------------
(* The rows. *)

\* The types of the two rows of the bridge.
LEMMA RowTypes ==
  ASSUME ReleaseAssumption, TypeOK
  PROVE  /\ lease \in Lease \cup {NoLease} /\ release \in Release \cup {NoRelease}
         /\ NoLease \notin Lease /\ NoRelease \notin Release
BY DEF ReleaseAssumption, TypeOK, Registry, lease, release

\* Rows of the right type make a registry.
LEMMA RowsWritten ==
  ASSUME ReleaseAssumption, TypeOK, NEW l \in Lease, NEW r \in Release,
         reg' = [reg EXCEPT !.leases[Bridge] = l, !.releases[Bridge] = r]
  PROVE  reg' \in Registry /\ lease' = l /\ release' = r
<1> DEFINE x == [reg EXCEPT !.leases[Bridge] = l]
<1>1. /\ x \in Registry /\ x.leases[Bridge] = l
      /\ x.releases = reg.releases
  BY DEF ReleaseAssumption, TypeOK, Registry
<1>2. reg' = [x EXCEPT !.releases[Bridge] = r]
  OBVIOUS
<1>3. reg'.leases = x.leases /\ reg'.releases = [x.releases EXCEPT ![Bridge] = r]
      /\ reg'.reservations = x.reservations
      /\ reg' = [leases |-> reg'.leases, reservations |-> reg'.reservations,
                 releases |-> reg'.releases]
  <2> HIDE DEF x
  <2> QED BY <1>1, <1>2 DEF Registry
<1>4. reg'.releases[Bridge] = r /\ reg' \in Registry
  <2> HIDE DEF x
  <2> QED BY <1>1, <1>3 DEF ReleaseAssumption, Registry
<1> QED BY <1>1, <1>3, <1>4 DEF lease, release

\* The release but for its version and its pending source.
SameRelease ==
  /\ release' \in Release
  /\ release'.state = release.state /\ release'.sources = release.sources
  /\ release'.verified = release.verified /\ release'.published = release.published

\* The version of a row is the only thing that a bump changes.
LEMMA BumpedRelease ==
  ASSUME NEW r \in Release
  PROVE  /\ Bumped(r) \in Release
         /\ Bumped(r).state = r.state /\ Bumped(r).sources = r.sources
         /\ Bumped(r).verified = r.verified /\ Bumped(r).published = r.published
BY DEF Bumped, Release

LEMMA BumpedLease ==
  ASSUME NEW l \in Lease
  PROVE  Bumped(l) \in Lease /\ Bumped(l).head = l.head /\ Bumped(l).base = l.base
BY DEF Bumped, Lease

\* Staging a source, or withdrawing it, leaves what the release has.
LEMMA PendingWritten ==
  ASSUME ReleaseAssumption, TypeOK, release # NoRelease, NEW source \in Source,
         reg' \in {StageSource(reg, Bridge, source), ClearPending(reg, Bridge)}
  PROVE  reg' \in Registry /\ lease' = lease /\ SameRelease
<1>1. release \in Release
  BY RowTypes
<1>2. ASSUME NEW p \in Source \cup {NoSource},
             reg' = [reg EXCEPT !.releases[Bridge] = Bumped([@ EXCEPT !.pending = p])]
      PROVE  reg' \in Registry /\ lease' = lease /\ SameRelease
  <2> DEFINE q == [release EXCEPT !.pending = p]
             r == Bumped(q)
  <2>1. /\ q \in Release /\ q.state = release.state /\ q.sources = release.sources
        /\ q.verified = release.verified /\ q.published = release.published
    BY <1>1 DEF Release
  <2>2. /\ r \in Release /\ r.state = q.state /\ r.sources = q.sources
        /\ r.verified = q.verified /\ r.published = q.published
    <3> HIDE DEF q
    <3> QED BY <2>1, BumpedRelease
  <2>3. reg' = [reg EXCEPT !.releases[Bridge] = r]
    BY <1>2 DEF release
  <2>4. reg' \in Registry /\ lease' = lease /\ release' = r
    <3> HIDE DEF r
    <3> QED BY <2>2, <2>3 DEF ReleaseAssumption, TypeOK, Registry, lease, release
  <2> QED BY <2>1, <2>2, <2>4 DEF SameRelease
<1>3. CASE reg' = reg
  BY <1>1, <1>3 DEF TypeOK, lease, release, SameRelease
<1> QED BY <1>2, <1>3 DEF StageSource, ClearPending

-----------------------------------------------------------------------------
(* Commits. *)

\* What there is stays as it is.
Grown == \A h \in Known : h \in Known' /\ made'[h] = made[h]

LEMMA NothingCommitted ==
  ASSUME UNCHANGED made
  PROVE  Grown /\ (UsersOnTop => UsersOnTop')
BY DEF Grown, Known, UsersOnTop, Own

\* A new commit is none of those there were, and records what it was made of.
LEMMA CommitGrows ==
  ASSUME ReleaseAssumption, TypeOK, UsersOnTop, Len(made) + 1 \in Sha,
         NEW base \in Sha \cup {NoSha}, NEW sources \in Seq(Source), NEW on \in Sha \cup {NoSha},
         on # NoSha => base = NoSha /\ Own(on),
         made' = Append(made, [base |-> base, sources |-> sources, on |-> on])
  PROVE  /\ Grown /\ UsersOnTop'
         /\ made' \in Seq(CommitRow)
         /\ Len(made') \in Sha \cap Known' /\ Len(made') \notin Known
         /\ \A h \in Known : h < Len(made')
         /\ made'[Len(made')].base = base /\ made'[Len(made')].sources = sources
         /\ made'[Len(made')].on = on
<1> DEFINE x == [base |-> base, sources |-> sources, on |-> on]
<1>1. made \in Seq(CommitRow) /\ x \in CommitRow /\ made' = Append(made, x)
  BY DEF TypeOK, CommitRow
<1>2. /\ made' \in Seq(CommitRow) /\ Len(made') = Len(made) + 1
      /\ \A i \in 1..Len(made) : made'[i] = made[i]
      /\ made'[Len(made) + 1] = x
  <2> HIDE DEF x
  <2> QED BY <1>1, AppendProperties
<1>3. Len(made) \in Nat
  BY <1>1, LenProperties
<1>4. Grown /\ Known' = Known \cup {Len(made) + 1}
  BY <1>2, <1>3 DEF Known, Grown
<1>5. UsersOnTop'
  <2> SUFFICES ASSUME NEW c \in Known', made'[c].on # NoSha
               PROVE  /\ made'[c].base = NoSha
                      /\ made'[c].on \in Known' /\ made'[made'[c].on].on = NoSha
    BY DEF UsersOnTop, Own
  <2>1. CASE c \in Known
    <3>1. made'[c] = made[c] /\ made[c].on \in Known /\ made[made[c].on].on = NoSha
          /\ made[c].base = NoSha
      BY <1>4, <2>1 DEF UsersOnTop, Own, Grown
    <3> QED BY <1>4, <3>1 DEF Grown
  <2>2. CASE c = Len(made) + 1
    <3>1. made'[c].on = on /\ made'[c].base = base
      BY <1>2, <2>2
    <3>2. base = NoSha /\ on \in Known /\ made[on].on = NoSha
      BY <3>1 DEF Own
    <3> QED BY <1>4, <3>1, <3>2 DEF Grown
  <2> QED BY <1>4, <2>1, <2>2
<1> QED BY <1>1, <1>2, <1>3, <1>4, <1>5 DEF Known

\* What is under a commit is one of the program's, and stays what it is.
LEMMA UnderKnown ==
  ASSUME UsersOnTop, NEW c \in Known
  PROVE  Own(Under(c)) /\ (Own(c) => Under(c) = c) /\ (Grown => Under(c)' = Under(c))
BY DEF UsersOnTop, Own, Under, Grown

\* Gates that have passed have passed over one of the program's commits.
LEMMA GatesKept ==
  ASSUME UsersOnTop, verified \subseteq Known, NEW c, GatesPassed(c)
  PROVE  Own(c) /\ (Grown /\ verified \subseteq verified' => GatesPassed(c)')
<1>1. PICK d \in verified : Under(d) = c
  BY DEF GatesPassed
<1>2. Own(c) /\ (Grown => Under(d)' = c)
  BY <1>1, UnderKnown
<1>3. ASSUME Grown, verified \subseteq verified'
      PROVE  GatesPassed(c)'
  <2>1. d \in verified' /\ Under(d)' = c
    BY <1>1, <1>2, <1>3
  <2> QED BY <2>1 DEF GatesPassed
<1> QED BY <1>2, <1>3

\* Numbers of commits are numbers.
LEMMA ShaTypes ==
  ASSUME ReleaseAssumption, TypeOK
  PROVE  /\ Sha \subseteq Nat \ {0} /\ NoSha = 0
         /\ target \in Nat /\ Len(made) \in Nat
         /\ release # NoRelease => release.verified \in Nat
         /\ Known \subseteq Nat \ {0}
<1>1. Len(made) \in Nat
  BY LenProperties DEF TypeOK
<1>2. Sha \subseteq Nat \ {0} /\ NoSha = 0 /\ target \in Nat
  BY DEF ReleaseAssumption, TypeOK
<1>3. ASSUME release # NoRelease
      PROVE  release.verified \in Nat
  <2>1. release \in Release
    BY <1>3, RowTypes
  <2>2. release.verified \in Sha \cup {NoSha}
    BY <2>1 DEF Release
  <2>3. \A x \in Sha \cup {NoSha} : x \in Nat
    BY <1>2
  <2> QED BY <2>2, <2>3
<1>4. Known \subseteq Nat \ {0}
  BY <1>1 DEF Known
<1> QED BY <1>1, <1>2, <1>3, <1>4

-----------------------------------------------------------------------------
(* What steps have in common. *)

\* The pull request as far as the invariant looks at it.
SamePull == pull'.head = pull.head /\ (pull'.state = "NONE" <=> pull.state = "NONE")

\* A step that writes neither what the rows say of commits nor what has left.
LEMMA RowsKept ==
  ASSUME ReleaseAssumption, ReleaseInv, TypeOK',
         lease' = lease, release' = release \/ (release # NoRelease /\ SameRelease),
         Grown, SamePull, remote' = remote,
         tree'.head \in Known' \cup {NoSha}, tree'.there => tree'.head \in Known',
         UsersOnTop', target <= target', Own(target)', made'[target'].sources = <<>>,
         verified \subseteq verified', verified' \subseteq Known'
  PROVE  CommitsKnown' /\ RowsPaired' /\ RowsInv'
<1> USE DEF ReleaseInv, CommitsKnown, RowsInv, Grown, SamePull, SameRelease, Own
<1>1. CommitsKnown'
  OBVIOUS
<1>u. \A c \in Known : c \in Known' /\ Own(Under(c)) /\ Under(c)' = Under(c)
  BY UnderKnown
<1>g. \A c : GatesPassed(c) => Own(c) /\ GatesPassed(c)'
  BY GatesKept
<1>2. RowsPaired'
  BY RowTypes DEF RowsPaired
<1>3. HeadHasSources'
  BY RowTypes DEF HeadHasSources, RowsPaired
<1>4. LeftIsSealed'
  <2> SUFFICES ASSUME NEW head \in {remote, pull.head} \ {NoSha}
               PROVE  /\ release' # NoRelease /\ release'.state # "OPEN"
                      /\ GatesPassed(Under(head))'
                      /\ made'[Under(head)'].sources = release'.sources
                      /\ Under(head)' = lease'.head => made'[lease'.head].base = release'.verified
    BY DEF LeftIsSealed
  <2>1. /\ release # NoRelease /\ release.state # "OPEN" /\ head \in Known
        /\ GatesPassed(Under(head)) /\ made[Under(head)].sources = release.sources
        /\ Under(head) = lease.head => made[lease.head].base = release.verified
    BY DEF LeftIsSealed
  <2>2. Under(head)' = Under(head) /\ Own(Under(head))
    BY <1>u, <2>1
  <2>3. GatesPassed(Under(head))'
    <3>1. \E d \in verified : Under(d) = Under(head)
      BY <2>1 DEF GatesPassed
    <3>2. \E d \in verified' : Under(d)' = Under(head)'
      BY <1>u, <2>2, <3>1
    <3> QED BY <3>2 DEF GatesPassed
  <2>4. release' # NoRelease /\ release'.state = release.state
        /\ release'.sources = release.sources /\ release'.verified = release.verified
    BY <2>1, RowTypes
  <2> QED BY <2>1, <2>2, <2>3, <2>4
<1>5. SealHolds'
  <2> SUFFICES ASSUME release' # NoRelease, release'.state = "SEALED"
               PROVE  /\ release'.sources # <<>>
                      /\ release'.verified <= target'
                      /\ release'.verified = target' =>
                           /\ GatesPassed(lease.head)'
                           /\ made'[lease'.head].base = release'.verified
    BY DEF SealHolds
  <2>1. /\ release # NoRelease /\ release.state = "SEALED"
        /\ release'.sources = release.sources /\ release'.verified = release.verified
    OBVIOUS
  <2>2. /\ release.verified \in Nat /\ target \in Nat /\ target' \in Nat
        /\ release.verified <= target
    BY <2>1, ShaTypes DEF SealHolds, TypeOK, ReleaseAssumption
  <2>3. lease.head \in Known
    BY <2>1 DEF RowsPaired
  <2>4. release'.verified <= target' /\ (release'.verified = target' => release.verified = target)
    BY <2>1, <2>2
  <2> QED BY <1>g, <2>1, <2>3, <2>4 DEF SealHolds
<1>6. PublishedIsVerified'
  <2> SUFFICES ASSUME release' # NoRelease, release'.state = "PUBLISHED"
               PROVE  /\ Own(release.published)' /\ GatesPassed(release.published)'
                      /\ made'[release'.published].sources = release'.sources
                      /\ made'[release'.published].base = release'.verified
    BY DEF PublishedIsVerified
  <2>1. release # NoRelease /\ release.state = "PUBLISHED" /\ release'.published = release.published
        /\ release'.sources = release.sources /\ release'.verified = release.verified
    BY RowTypes
  <2>2. /\ Own(release.published) /\ GatesPassed(release.published)
        /\ made[release.published].sources = release.sources
        /\ made[release.published].base = release.verified
    BY <2>1 DEF PublishedIsVerified
  <2>3. \E d \in verified' : Under(d)' = release.published
    BY <1>u, <2>2 DEF GatesPassed
  <2> QED BY <2>1, <2>2, <2>3 DEF GatesPassed
<1> QED BY <1>1, <1>2, <1>3, <1>4, <1>5, <1>6

\* A command at its end knows nothing.
LEMMA JobOver == job' = NoJob => JobInv'
BY DEF JobInv, JobType, ReleaseOfJob, TargetOfJob, CommitOfJob, NoJob, Building, Rebuilt,
       Publishing, Command

\* Whatever is put on top of the commit of the worktree, or taken off it.
UnderKept == tree.head \in Known => tree'.head \in Known' /\ Under(tree.head)' = Under(tree.head)

LEMMA TreeKept == UsersOnTop /\ Grown /\ tree'.head = tree.head => UnderKept
BY UnderKnown DEF UnderKept, Grown

\* A step of the world leaves what the running command knows true.
LEMMA JobKept ==
  ASSUME ReleaseAssumption, ReleaseInv, TypeOK',
         UNCHANGED <<reg, job, remote, verified>>, Grown, pull'.head = pull.head,
         UnderKept, target <= target'
  PROVE  JobInv'
<1> USE DEF ReleaseInv, JobInv, CommitsKnown
<1>1. lease' = lease /\ release' = release
  BY DEF lease, release
<1>2. JobType'
  BY DEF JobType
<1>3. ReleaseOfJob'
  BY <1>1 DEF ReleaseOfJob, Grown
<1>4. TargetOfJob'
  <2>1. target \in Nat /\ target' \in Nat
    BY ShaTypes DEF TypeOK, ReleaseAssumption
  <2>2. job.pc \in Building \cup {"find"} => job.target \in Nat
    <3>1. job.pc \in Building \cup {"find"} => job # NoJob
      BY DEF NoJob, Building
    <3> QED BY <3>1 DEF JobType, Job, ReleaseAssumption
  <2> QED BY <1>1, <2>1, <2>2 DEF TargetOfJob
<1>5. CommitOfJob'
  <2>u. \A c \in Known : c \in Known' /\ Own(Under(c)) /\ Under(c)' = Under(c)
    BY UnderKnown DEF Grown
  <2>g. \A c : GatesPassed(c) => Own(c) /\ GatesPassed(c)'
    BY GatesKept
  <2>1. job.pc \in Rebuilt \cup Publishing \cup {"find"} => lease.head \in Known
    BY DEF ReleaseOfJob, RowsPaired, Own
  <2>2. job.pc \in {"accept", "record"} => Made(job.head, job.target, job.sources)'
    BY DEF CommitOfJob, Made, Grown, Own
  <2>3. job.pc \in {"recover", "record"} \cup Rebuilt \cup Publishing =>
          tree'.head \in Known' /\ Under(tree.head)' = Under(tree.head)
    BY DEF CommitOfJob, UnderKept
  <2>4. job.pc \in Rebuilt \cup Publishing => made'[lease.head].base = job.target
    BY <2>1 DEF CommitOfJob, Grown
  <2>5. job.pc = "find" /\ job.target = release.verified
          => made'[lease.head].base = release.verified
    BY <2>1 DEF CommitOfJob, Grown
  <2>6. job.pc = "record" => \A head \in {remote, pull.head} \ {NoSha} : Under(head)' # job.head
    BY <2>u DEF CommitOfJob
  <2>7. job.pc = "find" /\ job.target = release.verified => GatesPassed(lease.head)'
    BY <1>1, <2>g DEF CommitOfJob
  <2>8. job.pc \in {"drift", "sealed"} \cup Publishing => GatesPassed(lease.head)'
    BY <1>1, <2>g DEF CommitOfJob
  <2>9. job.pc \in {"pull", "write"} => remote \in Known' /\ Under(remote)' = lease.head
    BY <2>u DEF CommitOfJob
  <2> QED BY <1>1, <2>2, <2>3, <2>4, <2>5, <2>6, <2>7, <2>8, <2>9 DEF CommitOfJob
<1> QED BY <1>2, <1>3, <1>4, <1>5

\* A step that only moves the command.
LEMMA CommandMoves ==
  ASSUME ReleaseAssumption, ReleaseInv, JobInv',
         UNCHANGED <<reg, made, tree, remote, target, pull, live, verified>>
  PROVE  ReleaseInv'
<1>1. /\ TypeOK' /\ lease' = lease /\ release' = release /\ Grown /\ SamePull
      /\ UsersOnTop' /\ Own(target)' /\ target' = target /\ remote' = remote /\ Known' = Known
  BY NothingCommitted DEF ReleaseInv, TypeOK, lease, release, SamePull, Known, CommitsKnown, Own
<1>2. target \in Nat
  BY ShaTypes DEF ReleaseInv
<1>3. CommitsKnown' /\ RowsPaired' /\ RowsInv'
  BY <1>1, <1>2, RowsKept DEF ReleaseInv, CommitsKnown
<1> QED BY <1>1, <1>3 DEF ReleaseInv

\* A command that goes on knows what it knew.
LEMMA JobGoes ==
  ASSUME ReleaseInv, job # NoJob, NEW p \in Pc \ Command, Go(p)
  PROVE  /\ JobType' /\ job' # NoJob /\ job'.pc = p /\ job'.command = job.command
         /\ job'.source = job.source /\ job'.sources = job.sources
         /\ job'.target = job.target /\ job'.remote = job.remote
         /\ job'.original = job.original /\ job'.attempt = job.attempt /\ job'.head = job.head
<1>1. job \in Job /\ (job.command = "add" => job.source \in Source)
  BY DEF ReleaseInv, JobInv, JobType
<1>2. job' = [job EXCEPT !.pc = p]
  BY DEF Go
<1>3. /\ job' \in Job /\ job'.pc = p /\ job'.command = job.command
      /\ job'.source = job.source /\ job'.sources = job.sources
      /\ job'.target = job.target /\ job'.remote = job.remote
      /\ job'.original = job.original /\ job'.attempt = job.attempt /\ job'.head = job.head
  BY <1>1, <1>2 DEF Job
<1>4. p # "none"
  BY DEF Pc, Command
<1> QED BY <1>1, <1>3, <1>4 DEF JobType, NoJob

-----------------------------------------------------------------------------
(* Commands that begin, that end and that only read. *)

\* A command that stops leaves everything as it is, and so does one that dies.
LEMMA CommandEnds ==
  ASSUME ReleaseAssumption, ReleaseInv, Stop \/ Crash
  PROVE  ReleaseInv'
BY CommandMoves, JobOver DEF Stop, Crash, End, outside

\* A command begins with nothing but what it was called with.
LEMMA CommandBegins ==
  ASSUME ReleaseAssumption, ReleaseInv, Start
  PROVE  ReleaseInv'
<1>1. PICK c \in Command \ {"again"}, s \in Source \cup {NoSource} :
        Begin(c, s) /\ (c = "add" => s \in Source)
  BY DEF Start, Command
<1>2. /\ job' = [pc |-> c, command |-> c, source |-> s, sources |-> <<>>,
                 target |-> NoSha, remote |-> NoSha, original |-> NoSha, head |-> NoSha,
                 attempt |-> 1]
      /\ UNCHANGED <<reg, made, tree, verified, outside>>
  BY <1>1 DEF Begin
<1>3. <<>> \in Seq(Source)
  OBVIOUS
<1>4. JobType'
  BY <1>1, <1>2, <1>3 DEF JobType, Job, Pc, Command
<1>5. job'.pc = c /\ job'.target = NoSha
  BY <1>2
<1>6. JobInv'
  BY <1>1, <1>4, <1>5
     DEF JobInv, ReleaseOfJob, TargetOfJob, CommitOfJob, Building, Rebuilt, Publishing, Command
<1> QED BY <1>2, <1>6, CommandMoves DEF outside

\* The steps of open, add and seal that only read.
LEMMA CommandReads ==
  ASSUME ReleaseAssumption, ReleaseInv, OpenAgain \/ AddAgain \/ AddRefused \/ Seal \/ SealRefused
  PROVE  ReleaseInv'
<1>a. JobType /\ (release # NoRelease => release \in Release /\ lease # NoLease)
  BY RowTypes DEF ReleaseInv, JobInv, RowsPaired
<1>1. CASE Stop
  BY <1>1, CommandEnds
<1>2. CASE OpenAgain /\ ~Stop
  <2>1. /\ job # NoJob /\ job.pc = "open" /\ release # NoRelease /\ Go("worktree")
        /\ UNCHANGED <<reg, made, tree, verified, outside>>
    BY <1>2 DEF OpenAgain, At, NoJob
  <2>2. JobType' /\ job'.pc = "worktree"
    BY <2>1, JobGoes DEF Pc, Command
  <2>3. lease' = lease /\ lease # NoLease
    BY <1>a, <2>1 DEF lease
  <2>4. JobInv'
    BY <2>2, <2>3 DEF JobInv, ReleaseOfJob, TargetOfJob, CommitOfJob, Building, Rebuilt, Publishing, Command
  <2> QED BY <2>1, <2>4, CommandMoves DEF outside
<1>3. CASE (AddAgain \/ Seal) /\ ~Stop
  <2>1. /\ job # NoJob /\ release # NoRelease /\ release.state = "OPEN"
        /\ UNCHANGED <<reg, made, tree, verified, outside>>
    BY <1>3 DEF AddAgain, Seal, At, NoJob
  <2>2. job \in Job /\ release.sources \in Seq(Source) /\ target \in Nat
        /\ (job.pc = "seal" => job.command = "seal")
        /\ lease' = lease /\ release' = release /\ target' = target
    BY <1>a, <2>1, ShaTypes DEF JobType, Release, ReleaseInv, lease, release, outside, Command
  <2>3. PICK c \in {"again", "seal"} :
          job' = [job EXCEPT !.pc = "check", !.command = c, !.sources = release.sources]
    <3>1. CASE AddAgain
      BY <3>1 DEF AddAgain
    <3>2. CASE Seal
      <4>1. job' = [job EXCEPT !.pc = "check", !.sources = release.sources] /\ job.command = "seal"
        BY <2>2, <3>2 DEF Seal, At
      <4>2. [job EXCEPT !.pc = "check", !.sources = release.sources]
              = [job EXCEPT !.pc = "check", !.command = "seal", !.sources = release.sources]
        BY <2>2, <4>1 DEF Job
      <4> QED BY <4>1, <4>2
    <3> QED BY <1>3, <3>1, <3>2
  <2>4. /\ job' \in Job /\ job'.pc = "check" /\ job'.command = c
        /\ job'.sources = release.sources /\ job'.target = job.target
    BY <2>2, <2>3 DEF Job, Pc, Command
  <2>5. job'.target <= target
    BY <1>3, <2>2, <2>4, ShaTypes
       DEF ReleaseInv, JobInv, TargetOfJob, AddAgain, Seal, At, Command
  <2>6. JobInv'
    BY <2>1, <2>2, <2>4, <2>5 DEF JobInv, JobType, ReleaseOfJob, TargetOfJob, CommitOfJob, Building, Rebuilt,
       Publishing, Command
  <2> QED BY <2>1, <2>6, CommandMoves DEF outside
<1> QED BY <1>1, <1>2, <1>3 DEF AddRefused, SealRefused

\* Another attempt at a rebuild, or a commit that was found, comes with its production commit.
LEMMA JobAims ==
  ASSUME ReleaseInv, job # NoJob, NEW p \in {"accept", "check", "reset", "find"},
         NEW t \in Sha \cup {NoSha}, job'.pc = p, job'.target = t,
         job' \in Job, job'.command = job.command, job'.source = job.source
  PROVE  JobType' /\ job' # NoJob
BY DEF ReleaseInv, JobInv, JobType, Command, NoJob

\* A commit that is of the staged source is what a rebuild would have made.
LEMMA CandidateFound ==
  ASSUME ReleaseAssumption, ReleaseInv, Recover
  PROVE  ReleaseInv'
<1>1. CASE Stop
  BY <1>1, CommandEnds
<1>2. CASE ~Stop
  <2>1. /\ job # NoJob /\ job.pc = "recover"
        /\ made[tree.head].sources = job.sources /\ made[tree.head].base # NoSha
        /\ job' = [job EXCEPT !.pc = "accept", !.head = tree.head, !.target = made[tree.head].base]
        /\ UNCHANGED <<reg, made, tree, verified, outside>>
    BY <1>2 DEF Recover, At, NoJob
  <2>2. /\ job \in Job /\ Own(tree.head) /\ tree.head \in Sha \cup {NoSha}
        /\ made[tree.head].base \in Sha \cup {NoSha}
    <3>1. job \in Job /\ tree.head \in 1..Len(made) /\ tree.head \in Sha \cup {NoSha}
      BY <2>1 DEF ReleaseInv, JobInv, JobType, CommitOfJob, Known, TypeOK
    <3>2. made[tree.head] \in CommitRow
      BY <3>1, ElementOfSeq DEF ReleaseInv, TypeOK, CommitRow
    <3>3. Own(tree.head)
      BY <2>1, <3>1 DEF ReleaseInv, CommitsKnown, UsersOnTop, Own, Known
    <3> QED BY <3>1, <3>2, <3>3 DEF CommitRow
  <2>3. /\ job' \in Job /\ job'.pc = "accept" /\ job'.command = job.command
        /\ job'.source = job.source /\ job'.sources = job.sources
        /\ job'.target = made[tree.head].base /\ job'.head = tree.head
    BY <2>1, <2>2 DEF Job, Pc
  <2>4. JobType'
    BY <2>1, <2>2, <2>3, JobAims
  <2>5. lease' = lease /\ release' = release /\ tree' = tree /\ made' = made /\ Known' = Known
    BY <2>1 DEF lease, release, Known
  <2>6. ReleaseOfJob'
    BY <2>1, <2>3, <2>5 DEF ReleaseInv, JobInv, ReleaseOfJob, Building, Rebuilt, Publishing
  <2>7. TargetOfJob' /\ CommitOfJob'
    BY <2>1, <2>2, <2>3, <2>5
       DEF TargetOfJob, CommitOfJob, Made, Own, Building, Rebuilt, Publishing, Command
  <2> QED BY <2>1, <2>4, <2>6, <2>7, CommandMoves DEF JobInv, outside
<1> QED BY <1>1, <1>2

\* A rebuild begins on a production commit that is still an ancestor.
LEMMA RebuildBegins ==
  ASSUME ReleaseAssumption, ReleaseInv, At("check"), Rebuildable,
         job' = [job EXCEPT !.pc = "reset", !.original = lease.head,
                   !.target = IF @ = NoSha THEN target ELSE @],
         UNCHANGED <<reg, made, tree, verified, outside>>
  PROVE  ReleaseInv'
<1>1. /\ job # NoJob /\ job \in Job /\ job.pc = "check" /\ release # NoRelease
      /\ job.sources # <<>> /\ job.target <= target
      /\ job.target \in Sha \cup {NoSha} /\ target \in Sha
      /\ lease.head \in Known /\ lease.head \in Sha \cup {NoSha}
  <2>1. job # NoJob /\ job \in Job /\ job.pc = "check"
    BY DEF At, NoJob, ReleaseInv, JobInv, JobType
  <2>2. release # NoRelease /\ lease \in Lease /\ lease.head \in Known
    BY <2>1, RowTypes DEF ReleaseInv, JobInv, ReleaseOfJob, RowsPaired, CommitsKnown, Building, Own
  <2>3. lease.head \in Sha \cup {NoSha}
    BY <2>2 DEF Lease
  <2> QED BY <2>1, <2>2, <2>3
          DEF Rebuildable, ReleaseInv, JobInv, TargetOfJob, Building, Job, TypeOK
<1>2. PICK t \in Sha : /\ t = IF job.target = NoSha THEN target ELSE job.target
                       /\ t \in 1..target
  BY <1>1 DEF ReleaseAssumption
<1>3. /\ job' \in Job /\ job'.pc = "reset" /\ job'.command = job.command
      /\ job'.source = job.source /\ job'.sources = job.sources
      /\ job'.target = t /\ job'.original = lease.head
  <2>1. job' = [job EXCEPT !.pc = "reset", !.original = lease.head, !.target = t]
    BY <1>1, <1>2 DEF Job
  <2> QED BY <1>1, <2>1 DEF Job, Pc
<1>4. JobType'
  BY <1>1, <1>3, JobAims
<1>5. lease' = lease /\ release' = release /\ target' = target /\ Known' = Known
  BY DEF lease, release, Known, outside
<1>6. ReleaseOfJob'
  BY <1>1, <1>3, <1>5 DEF ReleaseInv, JobInv, ReleaseOfJob, Building, Rebuilt, Publishing
<1>7. job.command = "publish" => release.verified < t
  <2> SUFFICES ASSUME job.command = "publish"  PROVE release.verified < t
    OBVIOUS
  <2>1. release.verified < job.target /\ release.verified \in Nat
    BY <1>1, ShaTypes DEF ReleaseInv, JobInv, TargetOfJob, Building
  <2> QED BY <1>1, <1>2, <2>1 DEF ReleaseAssumption
<1>8. TargetOfJob' /\ CommitOfJob'
  BY <1>2, <1>3, <1>5, <1>7
     DEF TargetOfJob, CommitOfJob, Building, Rebuilt, Publishing, Command
<1> QED BY <1>4, <1>6, <1>8, CommandMoves DEF JobInv, outside

\* A verified bridge is sealed where it was built, or built again further on.
LEMMA DriftSeen ==
  ASSUME ReleaseAssumption, ReleaseInv, Drift
  PROVE  ReleaseInv'
<1> USE DEF At
<1>1. CASE Stop
  BY <1>1, CommandEnds
<1>2. CASE ~Stop
  <2>1. /\ job # NoJob /\ job.pc = "drift" /\ job \in Job /\ target \in Sha /\ target \in Nat
        /\ UNCHANGED <<reg, made, tree, verified, outside>>
    BY <1>2, ShaTypes DEF Drift, NoJob, ReleaseInv, JobInv, JobType, TypeOK
  <2>2. /\ lease' = lease /\ release' = release /\ target' = target /\ tree' = tree
        /\ made' = made /\ verified' = verified /\ Known' = Known
    BY <2>1 DEF lease, release, Known, outside
  <2>3. CASE Go("sealed")
    <3>1. /\ JobType' /\ job'.pc = "sealed" /\ job'.command = job.command
          /\ job'.source = job.source /\ job'.sources = job.sources /\ job'.target = job.target
      BY <2>1, <2>3, JobGoes DEF Pc, Command
    <3>2. ReleaseOfJob' /\ TargetOfJob' /\ CommitOfJob'
      BY <2>1, <2>2, <3>1 DEF ReleaseInv, JobInv, ReleaseOfJob, TargetOfJob, CommitOfJob,
         GatesPassed, Under, Building, Rebuilt, Publishing, Command
    <3> QED BY <2>1, <3>1, <3>2, CommandMoves DEF JobInv, outside
  <2>4. CASE job' = [job EXCEPT !.pc = "check", !.attempt = 2, !.target = target]
    <3>1. /\ job' \in Job /\ job'.pc = "check" /\ job'.command = job.command
          /\ job'.source = job.source /\ job'.sources = job.sources /\ job'.target = target
      <4>1. job \in Job /\ target \in Sha \cup {NoSha} /\ 2 \in 1..2 /\ "check" \in Pc
        BY <2>1 DEF Pc
      <4> QED BY <4>1, <2>4 DEF Job
    <3>2. JobType'
      BY <2>1, <3>1, JobAims
    <3>3. ReleaseOfJob' /\ CommitOfJob'
      BY <2>1, <2>2, <3>1 DEF ReleaseInv, JobInv, ReleaseOfJob, CommitOfJob,
         Building, Rebuilt, Publishing
    <3>4. job.command = "publish" => release.verified < target
      <4>1. release # NoRelease /\ job.target \in 1..target
        BY <2>1 DEF ReleaseInv, JobInv, ReleaseOfJob, TargetOfJob, Rebuilt
      <4>2. release.verified \in Nat
        BY <4>1, ShaTypes DEF ReleaseInv
      <4>3. job.command = "publish" => release.verified < job.target
        BY <2>1 DEF ReleaseInv, JobInv, TargetOfJob, Rebuilt
      <4> QED BY <2>1, <4>1, <4>2, <4>3
    <3>5. TargetOfJob'
      BY <2>1, <2>2, <3>1, <3>4 DEF TargetOfJob, Building, Rebuilt, Command
    <3> QED BY <2>1, <3>2, <3>3, <3>5, CommandMoves DEF JobInv, outside
  <2> QED BY <1>2, <2>3, <2>4 DEF Drift
<1> QED BY <1>1, <1>2

\* A publication that begins has a sealed release before it.
LEMMA PublicationBegins ==
  ASSUME ReleaseAssumption, ReleaseInv, Publish
  PROVE  ReleaseInv'
<1>1. CASE Stop
  BY <1>1, CommandEnds
<1>2. CASE ~Stop
  <2>1. /\ job # NoJob /\ job.pc = "publish" /\ job \in Job /\ job.command = "publish"
        /\ release # NoRelease /\ release.state = "SEALED"
        /\ job' = [job EXCEPT !.pc = "find", !.remote = remote,
                              !.target = target, !.sources = release.sources]
        /\ UNCHANGED <<reg, made, tree, verified, outside>>
    BY <1>2 DEF Publish, At, NoJob, ReleaseInv, JobInv, JobType, Command
  <2>2. /\ lease' = lease /\ release' = release /\ target' = target /\ tree' = tree
        /\ made' = made /\ verified' = verified /\ Known' = Known
    BY <2>1 DEF lease, release, Known, outside
  <2>3. /\ release.sources \in Seq(Source) /\ target \in Sha /\ remote \in Sha \cup {NoSha}
        /\ target \in Nat
    BY <2>1, RowTypes, ShaTypes DEF Release, ReleaseInv, TypeOK
  <2>4. /\ job' \in Job /\ job'.pc = "find" /\ job'.command = job.command
        /\ job'.source = job.source /\ job'.sources = release.sources /\ job'.target = target
    BY <2>1, <2>3 DEF Job, Pc
  <2>5. JobType'
    BY <2>1, <2>3, <2>4, JobAims
  <2>6. ReleaseOfJob'
    BY <2>1, <2>2, <2>4 DEF ReleaseOfJob, Building, Rebuilt, Publishing
  <2>7. TargetOfJob' /\ CommitOfJob'
    BY <2>1, <2>2, <2>3, <2>4 DEF ReleaseInv, RowsInv, SealHolds, TargetOfJob, CommitOfJob, GatesPassed, Under,
       Building, Rebuilt, Publishing, Command
  <2> QED BY <2>1, <2>5, <2>6, <2>7, CommandMoves DEF JobInv, outside
<1> QED BY <1>1, <1>2

\* A publication goes on where the seal still holds, and rebuilds where it does not.
LEMMA PublicationGoesOn ==
  ASSUME ReleaseAssumption, ReleaseInv,
         \/ At("find") /\ Go("check") /\ job.target # release.verified
         \/ At("find") /\ Go("ready") /\ job.target = release.verified /\ tree.head = lease.head
         \/ At("ready") /\ Go("push"),
         UNCHANGED <<reg, made, tree, verified, outside>>
  PROVE  ReleaseInv'
<1> USE DEF At
<1>1. /\ job # NoJob /\ job \in Job /\ release # NoRelease
  BY DEF NoJob, ReleaseInv, JobInv, JobType, ReleaseOfJob, Publishing
<1>2. /\ lease' = lease /\ release' = release /\ target' = target /\ tree' = tree
      /\ made' = made /\ verified' = verified /\ Known' = Known
  BY DEF lease, release, Known, outside
<1>3. /\ target \in Nat /\ release.verified \in Nat /\ job.target \in Nat
  <2>1. \A x \in Sha \cup {NoSha} : x \in Nat
    BY DEF ReleaseAssumption
  <2>2. job.target \in Sha \cup {NoSha}
    BY <1>1 DEF Job
  <2> QED BY <1>1, <2>1, <2>2, ShaTypes DEF ReleaseInv
<1>4. CASE At("find") /\ Go("check") /\ job.target # release.verified
  <2>1. /\ JobType' /\ job'.pc = "check" /\ job'.command = job.command
        /\ job'.source = job.source /\ job'.sources = job.sources /\ job'.target = job.target
    BY <1>1, <1>4, JobGoes DEF Pc, Command
  <2>2. ReleaseOfJob' /\ CommitOfJob'
    BY <1>2, <1>4, <2>1 DEF ReleaseInv, JobInv, ReleaseOfJob, CommitOfJob, Building, Rebuilt,
       Publishing
  <2>3. release.verified <= job.target /\ job.target <= target
    BY <1>4 DEF ReleaseInv, JobInv, TargetOfJob
  <2>4. TargetOfJob'
    BY <1>2, <1>3, <1>4, <2>1, <2>3 DEF TargetOfJob, Building, Rebuilt, Command
  <2> QED BY <2>1, <2>2, <2>4, CommandMoves DEF JobInv, outside
<1>5. CASE At("find") /\ Go("ready") /\ job.target = release.verified /\ tree.head = lease.head
  <2>1. /\ JobType' /\ job'.pc = "ready" /\ job'.command = job.command
        /\ job'.source = job.source /\ job'.sources = job.sources /\ job'.target = job.target
    BY <1>1, <1>5, JobGoes DEF Pc, Command
  <2>2. tree.head \in Known /\ Under(tree.head) = lease.head
    BY <1>1, <1>5 DEF ReleaseInv, RowsPaired, CommitsKnown, Own, Under
  <2>3. GatesPassed(lease.head) /\ made[lease.head].base = release.verified
    BY <1>5 DEF ReleaseInv, JobInv, CommitOfJob
  <2>4. ReleaseOfJob' /\ TargetOfJob'
    BY <1>2, <1>5, <2>1 DEF ReleaseInv, JobInv, ReleaseOfJob, TargetOfJob, Building,
       Rebuilt, Publishing, Command
  <2>5. CommitOfJob'
    BY <1>2, <1>5, <2>1, <2>2, <2>3 DEF CommitOfJob, GatesPassed, Under, Building, Rebuilt,
       Publishing
  <2> QED BY <2>1, <2>4, <2>5, CommandMoves DEF JobInv, outside
<1>6. CASE At("ready") /\ Go("push")
  <2>1. /\ JobType' /\ job'.pc = "push" /\ job'.command = job.command
        /\ job'.source = job.source /\ job'.sources = job.sources /\ job'.target = job.target
    BY <1>1, <1>6, JobGoes DEF Pc, Command
  <2>2. ReleaseOfJob' /\ TargetOfJob' /\ CommitOfJob'
    BY <1>2, <1>6, <2>1 DEF ReleaseInv, JobInv, ReleaseOfJob, TargetOfJob, CommitOfJob, GatesPassed, Under, Building,
       Rebuilt, Publishing, Command
  <2> QED BY <2>1, <2>2, CommandMoves DEF JobInv, outside
<1> QED BY <1>4, <1>5, <1>6

-----------------------------------------------------------------------------
(* The world moves. *)

\* A commit on production moves production on, and is not one that anybody has named.
LEMMA ProductionMoves ==
  ASSUME ReleaseAssumption, ReleaseInv, TargetMoves \/ MergePull
  PROVE  ReleaseInv'
<1> USE DEF inside
<1>1. /\ Commit(target, <<>>) /\ target' = Len(made')
      /\ UNCHANGED <<reg, tree, verified, job, remote, live>>
      /\ pull' \in {pull, [pull EXCEPT !.state = "MERGED"]}
      /\ pull' # pull => pull.state = "OPEN"
  BY DEF TargetMoves, MergePull
<1>2. target \in Sha \cup {NoSha} /\ <<>> \in Seq(Source) /\ TypeOK /\ UsersOnTop
      /\ NoSha \in Sha \cup {NoSha}
  BY DEF ReleaseInv, TypeOK, CommitsKnown
<1>3. /\ Grown /\ UsersOnTop' /\ target' \in Sha /\ target' \in Known'
      /\ made'[target'].sources = <<>> /\ made'[target'].on = NoSha
      /\ made' \in Seq(CommitRow)
      /\ \A h \in Known : h < target'
  BY <1>1, <1>2, CommitGrows DEF Commit
<1>t. Own(target)'
  BY <1>3 DEF Own
<1>4. /\ pull' \in [state : {"NONE", "OPEN", "MERGED", "CLOSED"},
                    head : Sha \cup {NoSha}, base : Sha \cup {NoSha}]
      /\ pull'.head = pull.head /\ SamePull
  BY <1>1, <1>2 DEF TypeOK, SamePull
<1>5. TypeOK'
  BY <1>1, <1>2, <1>3, <1>4 DEF TypeOK, CommitRow
<1>6. target <= target' /\ lease' = lease /\ release' = release
  <2>1. target < target' /\ target \in Nat /\ target' \in Nat
    BY <1>2, <1>3, ShaTypes DEF ReleaseInv, CommitsKnown, ReleaseAssumption, Own
  <2> QED BY <1>1, <2>1 DEF lease, release
<1>7. CommitsKnown' /\ RowsPaired' /\ RowsInv'
  <2>1. /\ tree'.head \in Known' \cup {NoSha} /\ (tree'.there => tree'.head \in Known')
        /\ verified' \subseteq Known'
    BY <1>1, <1>3 DEF ReleaseInv, CommitsKnown, Grown
  <2> QED BY <1>t, <1>1, <1>3, <1>4, <1>5, <1>6, <2>1, RowsKept
<1>8. JobInv'
  <2>1. UnderKept
    BY <1>1, <1>2, <1>3, TreeKept
  <2> QED BY <1>1, <1>3, <1>4, <1>5, <1>6, <2>1, JobKept
<1> QED BY <1>5, <1>7, <1>8 DEF ReleaseInv

\* Pull requests and files that change under a release change nothing it knows.
LEMMA UsersAct ==
  ASSUME ReleaseAssumption, ReleaseInv, SourceChanges \/ UserEdit \/ ClosePull
  PROVE  ReleaseInv'
<1> USE DEF inside
<1>1. UNCHANGED <<reg, made, verified, job, remote, target>>
  BY DEF SourceChanges, UserEdit, ClosePull
<1>2. tree' \in {tree, [tree EXCEPT !.files = "edited"]}
  BY DEF SourceChanges, UserEdit, ClosePull
<1>3. /\ pull' = pull \/ \E s \in {"OPEN", "CLOSED"} : pull' = [pull EXCEPT !.state = s]
      /\ pull' # pull => pull.state \in {"OPEN", "CLOSED"}
  <2>1. CASE ClosePull
    <3>1. pull' = [pull EXCEPT !.state = IF pull.state = "OPEN" THEN "CLOSED" ELSE "OPEN"]
          /\ pull.state \in {"OPEN", "CLOSED"}
      BY <2>1 DEF ClosePull, ReleaseInv, TypeOK
    <3> QED BY <3>1
  <2>2. CASE SourceChanges \/ UserEdit
    BY <2>2 DEF SourceChanges, UserEdit
  <2> QED BY <2>1, <2>2
<1>4. /\ tree' \in [there : BOOLEAN, head : Sha \cup {NoSha},
                    files : {"clean", "patched", "edited"}]
      /\ tree'.head = tree.head /\ tree'.there = tree.there
  BY <1>2 DEF ReleaseInv, TypeOK
<1>5. /\ pull' \in [state : {"NONE", "OPEN", "MERGED", "CLOSED"},
                    head : Sha \cup {NoSha}, base : Sha \cup {NoSha}]
      /\ pull'.head = pull.head /\ SamePull
  BY <1>3 DEF ReleaseInv, TypeOK, SamePull
<1>6. live' \subseteq Source
  BY DEF SourceChanges, UserEdit, ClosePull, ReleaseInv, TypeOK
<1>7. TypeOK'
  BY <1>1, <1>4, <1>5, <1>6 DEF ReleaseInv, TypeOK
<1>8. /\ Grown /\ lease' = lease /\ release' = release /\ Known' = Known
      /\ target \in Nat /\ UsersOnTop /\ UsersOnTop' /\ Own(target)'
  BY <1>1, NothingCommitted, ShaTypes DEF lease, release, Known, ReleaseInv, CommitsKnown, Own
<1>9. CommitsKnown' /\ RowsPaired' /\ RowsInv'
  BY <1>1, <1>4, <1>5, <1>7, <1>8, RowsKept DEF ReleaseInv, CommitsKnown
<1>10. JobInv'
  <2>1. UnderKept
    BY <1>4, <1>8, TreeKept
  <2> QED BY <1>1, <1>4, <1>5, <1>7, <1>8, <2>1, JobKept
<1> QED BY <1>7, <1>9, <1>10 DEF ReleaseInv

\* A user's commit in the managed worktree, and the way back from it, leave
\* what is under it.
LEMMA UserCommits ==
  ASSUME ReleaseAssumption, ReleaseInv, UserCommit \/ UserUndo
  PROVE  ReleaseInv'
<1>1. /\ tree.there /\ tree.head \in Known /\ Own(Under(tree.head))
      /\ UNCHANGED <<reg, remote, target, pull, live, verified, job>>
      /\ TypeOK /\ UsersOnTop
  BY UnderKnown DEF UserCommit, UserUndo, ReleaseInv, CommitsKnown, outside
<1>2. Under(tree.head) \in Sha \cup {NoSha} /\ <<>> \in Seq(Source)
  <2>1. made \in Seq(CommitRow) /\ tree.head \in 1..Len(made) /\ tree.head \in Sha \cup {NoSha}
    BY <1>1 DEF TypeOK, CommitRow, Known
  <2>2. made[tree.head] \in CommitRow
    BY <2>1, ElementOfSeq
  <2>3. made[tree.head].on \in Sha \cup {NoSha}
    BY <2>2 DEF CommitRow
  <2> QED BY <2>1, <2>3 DEF Under
<1>3. /\ Grown /\ UsersOnTop' /\ made' \in Seq(CommitRow)
      /\ tree'.there = TRUE /\ tree'.head \in Known' /\ tree'.head \in Sha
      /\ Under(tree.head)' = Under(tree.head)
      /\ tree' \in [there : BOOLEAN, head : Sha \cup {NoSha},
                    files : {"clean", "patched", "edited"}]
  <2>1. CASE UserCommit
    <3>1. /\ Grown /\ UsersOnTop' /\ made' \in Seq(CommitRow)
          /\ Len(made') \in Sha \cap Known' /\ made'[Len(made')].on = Under(tree.head)
      BY <1>1, <1>2, <2>1, CommitGrows DEF UserCommit
    <3>2. tree' = [tree EXCEPT !.head = Len(made'), !.files = "clean"]
      BY <2>1 DEF UserCommit
    <3>3. /\ tree'.there = TRUE /\ tree'.head = Len(made')
          /\ tree' \in [there : BOOLEAN, head : Sha \cup {NoSha},
                        files : {"clean", "patched", "edited"}]
      BY <1>1, <3>1, <3>2 DEF TypeOK
    <3>4. Under(tree.head) # NoSha
      BY <1>1, ShaTypes DEF Own, ReleaseInv
    <3> QED BY <3>1, <3>3, <3>4 DEF Under
  <2>2. CASE UserUndo
    <3>1. tree' = [tree EXCEPT !.head = Under(tree.head), !.files = "clean"] /\ made' = made
      BY <2>2 DEF UserUndo
    <3>2. /\ tree'.there = TRUE /\ tree'.head = Under(tree.head)
          /\ tree' \in [there : BOOLEAN, head : Sha \cup {NoSha},
                        files : {"clean", "patched", "edited"}]
      BY <1>1, <1>2, <3>1 DEF TypeOK
    <3>3. Grown /\ UsersOnTop' /\ made' \in Seq(CommitRow) /\ Known' = Known
      BY <1>1, <3>1, NothingCommitted DEF TypeOK, CommitRow, Known
    <3>4. Under(tree.head) \in Known /\ Under(tree.head) \in Sha
      BY <1>1, <1>2, ShaTypes DEF Own, ReleaseInv
    <3>5. Under(tree.head)' = Under(tree.head)
      BY <1>1, <3>1, <3>2 DEF Under, Own
    <3> QED BY <3>2, <3>3, <3>4, <3>5
  <2> QED BY <2>1, <2>2
<1>4. TypeOK'
  BY <1>1, <1>3 DEF UserCommit, UserUndo, TypeOK, CommitRow, outside
<1>5. lease' = lease /\ release' = release /\ SamePull /\ target \in Nat /\ UnderKept
  BY <1>1, <1>3, ShaTypes DEF lease, release, SamePull, UnderKept, ReleaseInv
<1>6. target' \in Known' /\ Own(target)' /\ made'[target'].sources = <<>> /\ verified' \subseteq Known'
  BY <1>1, <1>3 DEF ReleaseInv, CommitsKnown, Own, Grown
<1>7. CommitsKnown' /\ RowsPaired' /\ RowsInv'
  BY <1>1, <1>3, <1>4, <1>5, <1>6, RowsKept
<1>8. JobInv'
  BY <1>1, <1>3, <1>4, <1>5, JobKept
<1> QED BY <1>4, <1>7, <1>8 DEF ReleaseInv

-----------------------------------------------------------------------------
(* The worktree moves. *)

\* A step that moves the worktree, and may verify the head it is on.
LEMMA TreeMoves ==
  ASSUME ReleaseAssumption, ReleaseInv, JobInv',
         tree' \in [there : BOOLEAN, head : Sha \cup {NoSha},
                    files : {"clean", "patched", "edited"}],
         tree'.head \in Known \cup {NoSha}, tree'.there => tree'.head \in Known,
         verified' \in {verified, verified \cup {tree.head}},
         verified' # verified => tree.head \in Known,
         UNCHANGED <<reg, made, remote, target, pull, live>>
  PROVE  ReleaseInv'
<1>1. /\ Known' = Known /\ Grown /\ lease' = lease /\ release' = release /\ SamePull
      /\ UsersOnTop' /\ Own(target)'
  BY NothingCommitted DEF Known, lease, release, SamePull, ReleaseInv, CommitsKnown, Own
<1>2. target \in Nat
  BY ShaTypes DEF ReleaseInv
<1>3. tree.head \in Sha \cup {NoSha} /\ NoSha \notin Known
  BY ShaTypes DEF ReleaseInv, TypeOK
<1>4. TypeOK'
  BY <1>3 DEF ReleaseInv, TypeOK
<1>5. CommitsKnown' /\ RowsPaired' /\ RowsInv'
  BY <1>1, <1>2, <1>4, RowsKept DEF ReleaseInv, CommitsKnown
<1> QED BY <1>4, <1>5 DEF ReleaseInv

\* The bridge gets its worktree at the head on record.
LEMMA WorktreeAdded ==
  ASSUME ReleaseAssumption, ReleaseInv, AddWorktree
  PROVE  ReleaseInv'
<1>1. job # NoJob /\ job.pc = "worktree" /\ job' = NoJob
      /\ UNCHANGED <<reg, made, verified, outside>>
  BY DEF AddWorktree, At, End, NoJob
<1>2. CASE tree' = tree
  BY <1>1, <1>2, CommandMoves, JobOver DEF outside
<1>3. CASE tree' = [there |-> TRUE, head |-> lease.head, files |-> "clean"]
  <2>1. lease # NoLease /\ lease \in Lease /\ lease.head \in Known
    BY <1>1, RowTypes DEF ReleaseInv, JobInv, ReleaseOfJob, CommitsKnown, Own
  <2>2. lease.head \in Sha \cup {NoSha}
    BY <2>1 DEF Lease
  <2> QED BY <1>1, <1>3, <2>1, <2>2, TreeMoves, JobOver DEF outside
<1> QED BY <1>2, <1>3 DEF AddWorktree

\* A rebuild takes the worktree to the production commit and patches it.
LEMMA TreeRebuilt ==
  ASSUME ReleaseAssumption, ReleaseInv, ResetToTarget \/ ApplyPatches
  PROVE  ReleaseInv'
<1>1. /\ job # NoJob /\ UNCHANGED <<reg, made, verified, outside>>
      /\ Go("patch") \/ Go("commit")
      /\ job.pc \in {"reset", "patch"}
  BY DEF ResetToTarget, ApplyPatches, At, NoJob
<1>2. job \in Job /\ job.pc \in {"reset", "patch"} /\ job.target \in 1..target
  BY DEF ResetToTarget, ApplyPatches, At, ReleaseInv, JobInv, JobType, TargetOfJob, Building, NoJob
<1>3. job.target \in Known /\ job.target \in Sha \cup {NoSha}
  <2>1. target \in 1..Len(made) /\ Len(made) \in Nat
    BY LenProperties DEF ReleaseInv, CommitsKnown, TypeOK, Known
  <2> QED BY <1>2, <2>1 DEF Job, Known
<1>4. PICK p \in {"patch", "commit"} : Go(p) /\ p \in Pc \ Command
  BY DEF ResetToTarget, ApplyPatches, Pc, Command
<1>5. /\ JobType' /\ job'.pc = p /\ job'.command = job.command
      /\ job'.source = job.source /\ job'.sources = job.sources /\ job'.target = job.target
      /\ job'.original = job.original
  BY <1>1, <1>4, JobGoes
<1>6. lease' = lease /\ release' = release /\ target' = target /\ Known' = Known
  BY <1>1 DEF lease, release, Known, outside
<1>7. JobInv'
  BY <1>2, <1>5, <1>6 DEF ReleaseInv, JobInv, ReleaseOfJob, TargetOfJob, CommitOfJob,
     Building, Rebuilt, Publishing, Command
<1>8. /\ tree' \in [there : BOOLEAN, head : Sha \cup {NoSha},
                    files : {"clean", "patched", "edited"}]
      /\ tree'.head \in Known \cup {NoSha} /\ (tree'.there => tree'.head \in Known)
  <2>1. CASE ResetToTarget
    BY <1>3, <2>1 DEF ResetToTarget, ReleaseInv, TypeOK
  <2>2. CASE ApplyPatches
    <3>1. tree' \in {tree, [tree EXCEPT !.files = "patched"]}
      BY <2>2 DEF ApplyPatches, ReleaseInv, TypeOK
    <3> QED BY <3>1 DEF ReleaseInv, TypeOK, CommitsKnown
  <2> QED BY <2>1, <2>2
<1> QED BY <1>1, <1>7, <1>8, TreeMoves DEF outside

\* The commit of a rebuild is of the sources, on the production commit, and new.
LEMMA RebuildCommitted ==
  ASSUME ReleaseAssumption, ReleaseInv, CommitRebuilt
  PROVE  ReleaseInv'
<1>1. /\ job # NoJob /\ job.pc = "commit" /\ job \in Job
      /\ release # NoRelease /\ UNCHANGED <<reg, verified, outside>>
      /\ Commit(job.target, job.sources) /\ UsersOnTop
      /\ tree' = [tree EXCEPT !.head = Len(made'),
                              !.files = IF @ = "edited" THEN @ ELSE "clean"]
      /\ job' = [job EXCEPT !.head = Len(made'),
                            !.pc = IF job.command = "add" THEN "accept" ELSE "record"]
  BY DEF CommitRebuilt, At, NoJob, ReleaseInv, JobInv, JobType, ReleaseOfJob, Building, CommitsKnown
<1>2. /\ Grown /\ UsersOnTop' /\ made' \in Seq(CommitRow)
      /\ Len(made') \in Sha \cap Known' /\ Len(made') \notin Known
      /\ made'[Len(made')].base = job.target /\ made'[Len(made')].sources = job.sources
      /\ made'[Len(made')].on = NoSha
  <2>1. job.target \in Sha \cup {NoSha} /\ job.sources \in Seq(Source) /\ TypeOK
        /\ NoSha \in Sha \cup {NoSha}
    BY <1>1 DEF Job, ReleaseInv
  <2> QED BY <1>1, <2>1, CommitGrows DEF Commit
<1>3. /\ tree' \in [there : BOOLEAN, head : Sha \cup {NoSha},
                    files : {"clean", "patched", "edited"}]
      /\ tree'.head = Len(made')
  BY <1>1, <1>2 DEF ReleaseInv, TypeOK
<1>4. TypeOK'
  BY <1>1, <1>2, <1>3 DEF ReleaseInv, TypeOK, CommitRow, outside
<1>5. lease' = lease /\ release' = release /\ target' = target /\ SamePull /\ target \in Nat
  BY <1>1, ShaTypes DEF lease, release, outside, SamePull, ReleaseInv
<1>6. CommitsKnown' /\ RowsPaired' /\ RowsInv'
  <2>1. verified' \subseteq Known' /\ Own(target)' /\ made'[target'].sources = <<>>
    BY <1>1, <1>2, <1>5 DEF ReleaseInv, CommitsKnown, Grown, Own
  <2> QED BY <1>1, <1>2, <1>3, <1>4, <1>5, <2>1, RowsKept DEF outside
<1>7. /\ Own(Len(made))' /\ Under(Len(made))' = Len(made')
      /\ \A head \in {remote, pull.head} \ {NoSha} : Under(head)' # Len(made')
  <2>1. ASSUME NEW head \in {remote, pull.head} \ {NoSha}
        PROVE  Under(head)' # Len(made')
    <3>1. head \in Known
      BY DEF ReleaseInv, CommitsKnown
    <3>2. Under(head)' = Under(head) /\ Own(Under(head))
      BY <1>1, <1>2, <3>1, UnderKnown
    <3> QED BY <1>2, <3>2 DEF Own
  <2>2. Own(Len(made))' /\ Under(Len(made))' = Len(made')
    BY <1>2 DEF Own, Under
  <2> QED BY <2>1, <2>2
<1>8. PICK p \in {"accept", "record"} :
        /\ job' = [job EXCEPT !.head = Len(made'), !.pc = p]
        /\ p = IF job.command = "add" THEN "accept" ELSE "record"
  BY <1>1
<1>9. /\ job' \in Job /\ job' # NoJob /\ job'.pc = p /\ job'.command = job.command
      /\ job'.source = job.source /\ job'.sources = job.sources /\ job'.target = job.target
      /\ job'.original = job.original /\ job'.head = Len(made')
  BY <1>1, <1>2, <1>8 DEF Job, Pc, NoJob
<1>t. JobType'
  BY <1>1, <1>9 DEF ReleaseInv, JobInv, JobType, Command
<1>10. ReleaseOfJob'
  <2>1. job.original \in Known'
    BY <1>1, <1>2 DEF ReleaseInv, JobInv, ReleaseOfJob, Building, Grown
  <2> QED BY <1>1, <1>5, <1>8, <1>9, <2>1
          DEF ReleaseInv, JobInv, ReleaseOfJob, Building, Rebuilt, Publishing
<1>11. TargetOfJob'
  BY <1>1, <1>5, <1>9 DEF ReleaseInv, JobInv, TargetOfJob, Building, Rebuilt, Command
<1>12. CommitOfJob'
  <2>1. Made(job.head, job.target, job.sources)'
    BY <1>2, <1>7, <1>9 DEF Made, Own
  <2>2. job'.command = "add" <=> p = "accept"
    BY <1>8, <1>9
  <2>3. tree'.head \in Known' /\ Under(tree.head)' = job'.head
    BY <1>2, <1>3, <1>7, <1>9 DEF Under
  <2>4. \A head \in {remote', pull'.head} \ {NoSha} : Under(head)' # job'.head
    BY <1>1, <1>7, <1>9 DEF outside
  <2> QED BY <1>9, <2>1, <2>2, <2>3, <2>4 DEF CommitOfJob, Building, Rebuilt, Publishing
<1> QED BY <1>4, <1>6, <1>t, <1>10, <1>11, <1>12 DEF ReleaseInv, JobInv

\* Gates that pass are of the head on record, and gates that fail leave nothing.
LEMMA Verified ==
  ASSUME ReleaseAssumption, ReleaseInv, Verify
  PROVE  ReleaseInv'
<1>1. /\ job # NoJob /\ job.pc = "verify" /\ release # NoRelease
      /\ UNCHANGED <<reg, made, outside>>
  BY DEF Verify, At, NoJob, ReleaseInv, JobInv, ReleaseOfJob, Rebuilt
<1>2. /\ lease \in Lease /\ lease.head \in Known
      /\ tree.head \in Known /\ Under(tree.head) = lease.head
      /\ made[lease.head].base = job.target
      /\ job.original \in Known /\ job \in Job
  BY <1>1, RowTypes DEF ReleaseInv, RowsPaired, CommitsKnown, JobInv, ReleaseOfJob,
     CommitOfJob, JobType, Rebuilt, Own
<1>3. lease' = lease /\ release' = release /\ target' = target /\ Known' = Known
  BY <1>1 DEF lease, release, Known, outside
<1>4. CASE verified' = verified \cup {tree.head} /\ Go("drift") /\ UNCHANGED tree
  <2>1. /\ JobType' /\ job'.pc = "drift" /\ job'.command = job.command
        /\ job'.source = job.source /\ job'.sources = job.sources /\ job'.target = job.target
    BY <1>1, <1>4, JobGoes DEF Pc, Command
  <2>2. ReleaseOfJob' /\ TargetOfJob'
    BY <1>1, <1>3, <2>1 DEF ReleaseInv, JobInv, ReleaseOfJob, TargetOfJob,
       Building, Rebuilt, Publishing, Command
  <2>3. GatesPassed(lease.head)' /\ Under(tree.head)' = lease.head
    BY <1>1, <1>2, <1>3, <1>4 DEF GatesPassed, Under
  <2>4. CommitOfJob'
    BY <1>1, <1>2, <1>3, <1>4, <2>1, <2>3 DEF CommitOfJob, Building, Rebuilt, Publishing
  <2>5. /\ tree' \in [there : BOOLEAN, head : Sha \cup {NoSha},
                      files : {"clean", "patched", "edited"}]
        /\ tree'.head \in Known
    BY <1>2, <1>4 DEF ReleaseInv, TypeOK
  <2> QED BY <1>1, <1>2, <1>4, <2>1, <2>2, <2>4, <2>5, TreeMoves DEF JobInv, outside
<1>5. CASE /\ \/ \E head \in {lease.head, job.original} :
                    tree' = [tree EXCEPT !.head = head, !.files = "clean"]
              \/ UNCHANGED tree
           /\ End /\ UNCHANGED verified
  <2>1. lease.head \in Sha \cup {NoSha} /\ job.original \in Sha \cup {NoSha}
    BY <1>2 DEF Lease, Job
  <2>2. /\ tree' \in [there : BOOLEAN, head : Sha \cup {NoSha},
                      files : {"clean", "patched", "edited"}]
        /\ tree'.head \in Known
    BY <1>2, <1>5, <2>1 DEF ReleaseInv, TypeOK
  <2> QED BY <1>1, <1>5, <2>2, TreeMoves, JobOver DEF End, outside
<1> QED BY <1>4, <1>5 DEF Verify

-----------------------------------------------------------------------------
(* The rows are written. *)

\* Only the lease is written.
LEMMA LeaseWritten ==
  ASSUME ReleaseAssumption, TypeOK, NEW l \in Lease,
         reg' = [reg EXCEPT !.leases[Bridge] = l]
  PROVE  reg' \in Registry /\ lease' = l /\ release' = release
BY DEF ReleaseAssumption, TypeOK, Registry, lease, release

\* Only the release is written.
LEMMA ReleaseWritten ==
  ASSUME ReleaseAssumption, TypeOK, NEW r \in Release,
         reg' = [reg EXCEPT !.releases[Bridge] = r]
  PROVE  reg' \in Registry /\ lease' = lease /\ release' = r
BY DEF ReleaseAssumption, TypeOK, Registry, lease, release

\* An empty release is opened on the production commit.
LEMMA Opened ==
  ASSUME ReleaseAssumption, ReleaseInv, OpenNew
  PROVE  ReleaseInv'
<1>1. /\ job # NoJob /\ release = NoRelease /\ Go("worktree")
      /\ reg' = [reg EXCEPT !.leases[Bridge] = NewLease, !.releases[Bridge] = NewRelease]
      /\ UNCHANGED <<made, tree, verified, outside>>
  BY DEF OpenNew, At, NoJob, CreateReleaseWithLease, CreateLease
<1>2. target \in Sha /\ Own(target) /\ TypeOK
  BY DEF ReleaseInv, TypeOK, CommitsKnown
<1>3. /\ NewLease \in Lease /\ NewLease.head = target
      /\ NewRelease \in Release /\ NewRelease.state = "OPEN" /\ NewRelease.sources = <<>>
  BY <1>2 DEF NewLease, NewRelease, Lease, LeaseState, DeploymentState, Release, ReleaseState
<1>4. reg' \in Registry /\ lease' = NewLease /\ release' = NewRelease
  BY <1>1, <1>2, <1>3, RowsWritten
<1>5. TypeOK'
  BY <1>1, <1>2, <1>4 DEF TypeOK, outside
<1>6. Known' = Known /\ made' = made /\ lease' # NoLease /\ release' # NoRelease
  BY <1>1, <1>3, <1>4 DEF Known, ReleaseAssumption
<1>7. CommitsKnown' /\ RowsPaired'
  BY <1>1, <1>2, <1>3, <1>4, <1>6 DEF ReleaseInv, CommitsKnown, RowsPaired, UsersOnTop, Own, outside
<1>8. RowsInv'
  BY <1>1, <1>2, <1>3, <1>4, <1>6 DEF ReleaseInv, CommitsKnown, RowsInv, HeadHasSources,
     LeftIsSealed, SealHolds, PublishedIsVerified, outside
<1>9. JobType' /\ job'.pc = "worktree"
  BY <1>1, JobGoes DEF Pc, Command
<1>10. JobInv'
  BY <1>6, <1>9 DEF JobInv, ReleaseOfJob, TargetOfJob, CommitOfJob, Building, Rebuilt,
     Publishing, Command
<1> QED BY <1>5, <1>7, <1>8, <1>10 DEF ReleaseInv

\* Staging and withdrawing a source leave what the release has, wherever the
\* worktree goes meanwhile.
LEMMA PendingMoves ==
  ASSUME ReleaseAssumption, ReleaseInv, JobInv', release # NoRelease,
         reg' \in Registry, lease' = lease, SameRelease \/ release' = release,
         tree' \in [there : BOOLEAN, head : Sha \cup {NoSha},
                    files : {"clean", "patched", "edited"}],
         tree'.head \in Known \cup {NoSha}, tree'.there => tree'.head \in Known,
         UNCHANGED <<made, verified, outside>>
  PROVE  ReleaseInv'
<1>1. /\ Known' = Known /\ Grown /\ SamePull /\ remote' = remote /\ target' = target
      /\ UsersOnTop' /\ Own(target)'
  BY NothingCommitted DEF Known, SamePull, outside, ReleaseInv, CommitsKnown, Own
<1>2. target \in Nat
  BY ShaTypes DEF ReleaseInv
<1>3. TypeOK'
  BY DEF ReleaseInv, TypeOK, outside
<1>4. CommitsKnown' /\ RowsPaired' /\ RowsInv'
  BY <1>1, <1>2, <1>3, RowsKept DEF ReleaseInv, CommitsKnown
<1> QED BY <1>3, <1>4 DEF ReleaseInv

\* The source that add stages is not in the head on record, nor does it become so.
LEMMA Staged ==
  ASSUME ReleaseAssumption, ReleaseInv, AddStage
  PROVE  ReleaseInv'
<1>1. /\ job # NoJob /\ job.pc = "add" /\ job \in Job /\ job.command = "add"
      /\ job.source \in Source /\ job.target = NoSha
      /\ release # NoRelease /\ release \in Release /\ release.state = "OPEN"
      /\ UNCHANGED <<made, tree, verified, outside>>
  BY RowTypes DEF AddStage, At, NoJob, CanStage, release, ReleaseInv, JobInv, JobType,
     TargetOfJob, Command
<1>2. reg' \in Registry /\ lease' = lease /\ SameRelease
  BY <1>1, PendingWritten DEF AddStage, ReleaseInv
<1>3. CASE job' = NoJob
  BY <1>1, <1>2, <1>3, JobOver, PendingMoves DEF ReleaseInv, TypeOK, CommitsKnown
<1>4. CASE job' # NoJob
  <2>1. PICK p \in {"recover", "check"} :
          /\ job' = [job EXCEPT !.sources = Append(release.sources, job.source), !.pc = p]
          /\ p = "recover" => tree.there
    BY <1>4 DEF AddStage
  <2>2. Append(release.sources, job.source) \in Seq(Source) /\ p \in Pc
    BY <1>1 DEF Release, Pc
  <2>3. /\ job' \in Job /\ job'.pc = p /\ job'.command = "add" /\ job'.source = job.source
        /\ job'.sources = Append(release.sources, job.source) /\ job'.target = NoSha
    BY <1>1, <2>1, <2>2 DEF Job
  <2>4. JobType'
    BY <1>1, <2>3 DEF JobType, Command
  <2>5. release' # NoRelease /\ release'.state = "OPEN" /\ release'.sources = release.sources
    BY <1>1, <1>2 DEF SameRelease, ReleaseAssumption
  <2>6. ReleaseOfJob'
    BY <1>1, <2>3, <2>5 DEF ReleaseOfJob, Building, Rebuilt, Publishing
  <2>7. TargetOfJob'
    <3>1. NoSha <= target /\ target' = target
      BY <1>1, ShaTypes DEF ReleaseInv, outside
    <3> QED BY <2>3, <3>1 DEF TargetOfJob, Building, Rebuilt, Command
  <2>8. CommitOfJob'
    <3>1. p = "recover" => tree'.head \in Known'
      BY <1>1, <2>1 DEF ReleaseInv, CommitsKnown, Known
    <3> QED BY <2>3, <3>1 DEF CommitOfJob, Rebuilt, Publishing
  <2> QED BY <1>1, <1>2, <2>4, <2>6, <2>7, <2>8, PendingMoves
          DEF JobInv, ReleaseInv, TypeOK, CommitsKnown
<1> QED BY <1>3, <1>4

\* A rebuild that fails withdraws the source and leaves the worktree somewhere known.
LEMMA RebuildFails ==
  ASSUME ReleaseAssumption, ReleaseInv, Fail, job.pc \in Building,
         tree' = tree \/ tree' = [tree EXCEPT !.head = job.original, !.files = "clean"],
         tree' # tree => job.pc # "check"
  PROVE  ReleaseInv'
<1>1. /\ job # NoJob /\ job \in Job /\ release # NoRelease /\ job' = NoJob
      /\ (job.command = "add" => job.source \in Source)
      /\ UNCHANGED <<made, verified, outside>>
  BY DEF Fail, End, NoJob, Building, ReleaseInv, JobInv, JobType, ReleaseOfJob
<1>2. reg' \in Registry /\ lease' = lease /\ (SameRelease \/ release' = release)
  <2>1. CASE reg' = reg
    BY <2>1 DEF ReleaseInv, TypeOK, lease, release
  <2>2. CASE job.command = "add" /\ reg' = ClearPending(reg, Bridge)
    BY <1>1, <2>2, PendingWritten DEF ReleaseInv
  <2> QED BY <2>1, <2>2 DEF Fail
<1>3. /\ tree' \in [there : BOOLEAN, head : Sha \cup {NoSha},
                    files : {"clean", "patched", "edited"}]
      /\ tree'.head \in Known \cup {NoSha} /\ (tree'.there => tree'.head \in Known)
  <2>1. CASE tree' = tree
    BY <2>1 DEF ReleaseInv, TypeOK, CommitsKnown
  <2>2. CASE tree' = [tree EXCEPT !.head = job.original, !.files = "clean"] /\ tree' # tree
    <3>1. job.original \in Known /\ job.original \in Sha \cup {NoSha}
      BY <1>1, <2>2 DEF ReleaseInv, JobInv, ReleaseOfJob, Job
    <3> QED BY <2>2, <3>1 DEF ReleaseInv, TypeOK
  <2> QED BY <2>1, <2>2
<1> QED BY <1>1, <1>2, <1>3, JobOver, PendingMoves

LEMMA RebuildChecked ==
  ASSUME ReleaseAssumption, ReleaseInv, RebuildCheck \/ RollBack
  PROVE  ReleaseInv'
<1>1. CASE Fail
  BY <1>1, RebuildFails DEF RebuildCheck, RollBack, At, Building
<1>2. CASE ~Fail
  BY <1>2, RebuildBegins DEF RebuildCheck, RollBack
<1> QED BY <1>1, <1>2

\* An accepted source is in the commit that becomes the head.
LEMMA Accepted ==
  ASSUME ReleaseAssumption, ReleaseInv, Accept
  PROVE  ReleaseInv'
<1>1. /\ job # NoJob /\ job.pc = "accept" /\ job \in Job /\ job.command = "add"
      /\ release # NoRelease /\ release.state = "OPEN" /\ release \in Release
      /\ lease \in Lease /\ job.source \in Source
      /\ job.sources = Append(release.sources, job.source)
      /\ Made(job.head, job.target, job.sources)
      /\ job' = NoJob /\ UNCHANGED <<made, tree, verified, outside>>
  <2>1. /\ job # NoJob /\ job.pc = "accept" /\ job \in Job
        /\ job' = NoJob /\ UNCHANGED <<made, tree, verified, outside>>
    BY DEF Accept, At, NoJob, End, ReleaseInv, JobInv, JobType
  <2>2. /\ job.command = "add" /\ job.source \in Source
        /\ release # NoRelease /\ release.state = "OPEN"
        /\ job.sources = Append(release.sources, job.source)
        /\ Made(job.head, job.target, job.sources)
    BY <2>1 DEF ReleaseInv, JobInv, JobType, ReleaseOfJob, CommitOfJob
  <2>3. release \in Release /\ lease \in Lease
    BY <2>2, RowTypes DEF ReleaseInv, RowsPaired
  <2> QED BY <2>1, <2>2, <2>3
<1> DEFINE q == [release EXCEPT !.sources = Append(release.sources, job.source),
                                !.pending = NoSource]
           l == [lease EXCEPT !.head = job.head, !.base = job.target]
<1>2. /\ q \in Release /\ q.sources = job.sources /\ q.state = "OPEN"
      /\ l \in Lease /\ l.head = job.head /\ l.base = job.target
  <2>1. Append(release.sources, job.source) \in Seq(Source)
    BY <1>1 DEF Release
  <2>2. job.head \in Sha \cup {NoSha} /\ job.target \in Sha \cup {NoSha}
    BY <1>1 DEF ReleaseInv, TypeOK, Job
  <2> QED BY <1>1, <2>1, <2>2 DEF Release, Lease
<1>3. /\ Bumped(q) \in Release /\ Bumped(q).sources = job.sources /\ Bumped(q).state = "OPEN"
      /\ Bumped(l) \in Lease /\ Bumped(l).head = job.head /\ Bumped(l).base = job.target
  <2> HIDE DEF q, l
  <2> QED BY <1>2, BumpedRelease, BumpedLease
<1> DEFINE x == [reg EXCEPT !.releases[Bridge] = Bumped(q)]
<1>4. x \in Registry /\ x.leases = reg.leases /\ x.releases[Bridge] = Bumped(q)
  BY <1>3 DEF ReleaseAssumption, ReleaseInv, TypeOK, Registry
<1>5. reg' \in Registry /\ lease' = Bumped(l) /\ release' = Bumped(q)
  <2>1. reg' = AcceptSource(reg, Bridge, job.source, job.head, job.target)
    BY DEF Accept
  <2>2. reg' = [x EXCEPT !.leases[Bridge] = Bumped(l)]
    BY <1>4, <2>1 DEF AcceptSource, lease, release
  <2> HIDE DEF x, l
  <2> QED BY <1>3, <1>4, <2>2 DEF ReleaseAssumption, Registry, lease, release
<1> HIDE DEF x, l
<1>6. TypeOK'
  BY <1>1, <1>5 DEF ReleaseInv, TypeOK, outside
<1>7. Known' = Known /\ made' = made /\ lease' # NoLease /\ release' # NoRelease
      /\ Own(job.head) /\ UsersOnTop'
  BY <1>1, <1>3, <1>5, NothingCommitted
     DEF Known, ReleaseAssumption, Made, ReleaseInv, CommitsKnown
<1>8. CommitsKnown' /\ RowsPaired'
  BY <1>1, <1>3, <1>5, <1>7 DEF ReleaseInv, CommitsKnown, RowsPaired, Own, outside
<1>9. RowsInv'
  BY <1>1, <1>3, <1>5, <1>7 DEF ReleaseInv, RowsInv, HeadHasSources, LeftIsSealed, SealHolds,
     PublishedIsVerified, Made, outside
<1> QED BY <1>1, <1>6, <1>8, <1>9, JobOver DEF ReleaseInv

\* A rebuild that is recorded is of the sources on record, and nothing has left of it.
LEMMA Recorded ==
  ASSUME ReleaseAssumption, ReleaseInv, Record
  PROVE  ReleaseInv'
<1>1. /\ job # NoJob /\ job.pc = "record" /\ job \in Job /\ job.command # "add"
      /\ release # NoRelease /\ release \in Release /\ lease \in Lease
      /\ job.sources = release.sources /\ job.sources # <<>>
      /\ release.state = IF job.command = "publish" THEN "SEALED" ELSE "OPEN"
      /\ Made(job.head, job.target, job.sources)
      /\ tree.head \in Known /\ Under(tree.head) = job.head
      /\ \A head \in {remote, pull.head} \ {NoSha} : Under(head) # job.head
      /\ job.target \in 1..target
      /\ UNCHANGED <<made, tree, verified, outside>>
  BY RowTypes DEF Record, At, NoJob, ReleaseInv, JobInv, JobType, ReleaseOfJob, TargetOfJob,
     CommitOfJob, RowsPaired, Building
<1> DEFINE l == [lease EXCEPT !.head = job.head, !.base = job.target]
<1>2. l \in Lease /\ l.head = job.head /\ l.base = job.target
  <2>1. job.head \in Sha \cup {NoSha} /\ job.target \in Sha \cup {NoSha}
    BY <1>1 DEF ReleaseInv, TypeOK, Job
  <2> QED BY <1>1, <2>1 DEF Lease
<1>3. reg' = [reg EXCEPT !.leases[Bridge] = Bumped(l)]
  BY DEF Record, Transition
<1> HIDE DEF l
<1>4. Bumped(l) \in Lease /\ Bumped(l).head = job.head /\ Bumped(l).base = job.target
  BY <1>2, BumpedLease
<1>5. reg' \in Registry /\ lease' = Bumped(l) /\ release' = release
  BY <1>3, <1>4, LeaseWritten DEF ReleaseInv
<1>6. TypeOK'
  BY <1>1, <1>5 DEF ReleaseInv, TypeOK, outside
<1>7. Known' = Known /\ made' = made /\ lease' # NoLease /\ Own(job.head) /\ UsersOnTop'
  BY <1>1, <1>4, <1>5, NothingCommitted
     DEF Known, ReleaseAssumption, Made, ReleaseInv, CommitsKnown
<1>8. CommitsKnown' /\ RowsPaired'
  BY <1>1, <1>4, <1>5, <1>7 DEF ReleaseInv, CommitsKnown, RowsPaired, Own, outside
<1>9. release.state = "SEALED" => release.verified < target
  <2> SUFFICES ASSUME release.state = "SEALED"  PROVE release.verified < target
    OBVIOUS
  <2>1. release.verified < job.target
    BY <1>1 DEF ReleaseInv, JobInv, TargetOfJob, Building
  <2>2. release.verified \in Nat /\ target \in Nat
    BY <1>1, ShaTypes DEF ReleaseInv
  <2> QED BY <1>1, <2>1, <2>2
<1>10. HeadHasSources' /\ LeftIsSealed' /\ PublishedIsVerified'
  BY <1>1, <1>4, <1>5, <1>7 DEF ReleaseInv, RowsInv, HeadHasSources, LeftIsSealed,
     PublishedIsVerified, GatesPassed, Under, Own, Made, outside
<1>11. SealHolds'
  <2>1. release.state = "SEALED" =>
          release.verified <= target /\ release.verified # target /\ target' = target
    BY <1>1, <1>9, ShaTypes DEF outside, ReleaseInv
  <2> QED BY <1>1, <1>5, <2>1 DEF SealHolds
<1>12. JobInv'
  <2>1. CASE job' = NoJob
    BY <2>1, JobOver
  <2>2. CASE job' # NoJob
    <3>1. Go("verify") /\ job.command \in {"seal", "publish"}
      <4>1. Go("verify") /\ job.command # "again"
        BY <2>2 DEF Record, End
      <4>2. job.command # "open"
        BY <1>1 DEF ReleaseInv, JobInv, ReleaseOfJob, Building
      <4> QED BY <1>1, <4>1, <4>2 DEF Job, Command
    <3>2. /\ JobType' /\ job'.pc = "verify" /\ job'.command = job.command
          /\ job'.source = job.source /\ job'.sources = job.sources /\ job'.target = job.target
          /\ job'.original = job.original
      BY <1>1, <3>1, JobGoes DEF Pc, Command
    <3>3. ReleaseOfJob'
      BY <1>1, <1>5, <1>7, <3>1, <3>2 DEF ReleaseInv, JobInv, ReleaseOfJob, Building, Rebuilt,
         Publishing
    <3>4. TargetOfJob'
      <4>1. job.command = "publish" => release.verified < job.target
        BY <1>1 DEF ReleaseInv, JobInv, TargetOfJob, Building
      <4> QED BY <1>1, <1>5, <3>2, <4>1 DEF TargetOfJob, Building, Rebuilt, Command, outside
    <3>5. CommitOfJob'
      BY <1>1, <1>4, <1>5, <1>7, <3>2 DEF CommitOfJob, Made, Under, Building, Rebuilt, Publishing
    <3> QED BY <3>2, <3>3, <3>4, <3>5 DEF JobInv
  <2> QED BY <2>1, <2>2
<1> QED BY <1>6, <1>8, <1>10, <1>11, <1>12 DEF ReleaseInv, RowsInv

\* A seal is of the verified head, on the production commit it was verified on.
LEMMA SealWritten ==
  ASSUME ReleaseAssumption, ReleaseInv, Sealed
  PROVE  ReleaseInv'
<1>1. CASE Stop
  BY <1>1, CommandEnds
<1>2. CASE ~Stop
  <2>1. /\ job # NoJob /\ job.pc = "sealed" /\ job \in Job
        /\ job.command \in {"seal", "publish"}
        /\ release # NoRelease /\ release \in Release
        /\ job.sources = release.sources /\ job.sources # <<>>
        /\ job.target \in 1..target
        /\ tree.head \in Known /\ Under(tree.head) = lease.head
        /\ made[lease.head].base = job.target /\ GatesPassed(lease.head)
        /\ release.state \in {"OPEN", "SEALED"}
        /\ reg' = TransitionRelease(reg, Bridge, "SEALED", job.target)
        /\ IF job.command = "publish" THEN Go("ready") ELSE End
        /\ UNCHANGED <<made, tree, verified, outside>>
    BY <1>2, RowTypes DEF Sealed, At, NoJob, ReleaseInv, JobInv, JobType, ReleaseOfJob,
       TargetOfJob, CommitOfJob, Rebuilt
  <2> DEFINE q == [release EXCEPT !.state = "SEALED", !.verified = job.target]
  <2>2. q \in Release /\ q.state = "SEALED" /\ q.verified = job.target
        /\ q.sources = release.sources
    BY <2>1 DEF Release, ReleaseState, Job
  <2>3. reg' = [reg EXCEPT !.releases[Bridge] = Bumped(q)]
    BY <2>1 DEF TransitionRelease, release
  <2> HIDE DEF q
  <2>4. Bumped(q) \in Release /\ Bumped(q).state = "SEALED" /\ Bumped(q).verified = job.target
        /\ Bumped(q).sources = release.sources
    BY <2>2, BumpedRelease
  <2>5. reg' \in Registry /\ lease' = lease /\ release' = Bumped(q)
    BY <2>3, <2>4, ReleaseWritten DEF ReleaseInv
  <2>6. TypeOK'
    BY <2>1, <2>5 DEF ReleaseInv, TypeOK, outside
  <2>7. /\ Known' = Known /\ made' = made /\ release' # NoRelease
        /\ GatesPassed(lease.head)' /\ UsersOnTop' /\ Under(tree.head)' = lease.head
    BY <2>1, <2>4, <2>5, NothingCommitted
       DEF Known, ReleaseAssumption, GatesPassed, Under, ReleaseInv, CommitsKnown
  <2>8. CommitsKnown' /\ RowsPaired'
    BY <2>1, <2>5, <2>7 DEF ReleaseInv, CommitsKnown, RowsPaired, Own, outside
  <2>9. HeadHasSources' /\ LeftIsSealed' /\ PublishedIsVerified'
    BY <2>1, <2>4, <2>5, <2>7 DEF ReleaseInv, RowsInv, HeadHasSources, LeftIsSealed,
       PublishedIsVerified, GatesPassed, Under, outside
  <2>10. SealHolds'
    <3>1. job.target <= target /\ target' = target
      BY <2>1 DEF outside
    <3> QED BY <2>1, <2>4, <2>5, <2>7, <3>1 DEF SealHolds
  <2>11. JobInv'
    <3>1. CASE job' = NoJob
      BY <3>1, JobOver
    <3>2. CASE job' # NoJob
      <4>1. Go("ready") /\ job.command = "publish"
        BY <2>1, <3>2 DEF End
      <4>2. /\ JobType' /\ job'.pc = "ready" /\ job'.command = job.command
            /\ job'.sources = job.sources /\ job'.target = job.target
        BY <2>1, <4>1, JobGoes DEF Pc, Command
      <4>3. ReleaseOfJob' /\ TargetOfJob' /\ CommitOfJob'
        BY <2>1, <2>4, <2>5, <2>7, <4>1, <4>2 DEF ReleaseOfJob, TargetOfJob, CommitOfJob,
           Building, Rebuilt, Publishing, Command
      <4> QED BY <4>2, <4>3 DEF JobInv
    <3> QED BY <3>1, <3>2
  <2> QED BY <2>6, <2>8, <2>9, <2>10, <2>11 DEF ReleaseInv, RowsInv
<1> QED BY <1>1, <1>2

\* A release is published with the verified head and the base of its seal.
LEMMA PublicationWritten ==
  ASSUME ReleaseAssumption, ReleaseInv, NEW b, End,
         release # NoRelease, release.state = "SEALED", b = release.verified,
         GatesPassed(lease.head), made[lease.head].base = b,
         reg' = PublishRelease(reg, Bridge, TargetPr, lease.head, b),
         UNCHANGED <<made, tree, verified, outside>>
  PROVE  ReleaseInv'
<1>1. /\ release \in Release /\ lease \in Lease /\ Own(lease.head)
      /\ b \in Sha \cup {NoSha} /\ lease.head \in Sha \cup {NoSha} /\ TargetPr \in Pr
  BY RowTypes DEF ReleaseInv, RowsPaired, CommitsKnown, Release, Lease, ReleaseAssumption
<1> DEFINE q == [release EXCEPT !.state = "PUBLISHED", !.verified = b,
                                !.published = lease.head, !.target = TargetPr]
           l == [lease EXCEPT !.state = "PR_OPEN", !.target = TargetPr,
                              !.head = lease.head, !.base = b]
<1>2. /\ q \in Release /\ q.state = "PUBLISHED" /\ q.verified = b
      /\ q.published = lease.head /\ q.sources = release.sources
      /\ l \in Lease /\ l.head = lease.head /\ l.base = b
  BY <1>1 DEF Release, ReleaseState, Lease, LeaseState
<1>3. reg' = [reg EXCEPT !.leases[Bridge] = Bumped(l), !.releases[Bridge] = Bumped(q)]
  BY DEF PublishRelease, lease, release
<1> HIDE DEF q, l
<1>4. /\ Bumped(q) \in Release /\ Bumped(q).state = "PUBLISHED" /\ Bumped(q).verified = b
      /\ Bumped(q).published = lease.head /\ Bumped(q).sources = release.sources
      /\ Bumped(l) \in Lease /\ Bumped(l).head = lease.head /\ Bumped(l).base = b
  BY <1>2, BumpedRelease, BumpedLease
<1>5. reg' \in Registry /\ lease' = Bumped(l) /\ release' = Bumped(q)
  BY <1>3, <1>4, RowsWritten DEF ReleaseInv
<1>6. TypeOK'
  BY <1>5 DEF ReleaseInv, TypeOK, outside
<1>7. /\ Known' = Known /\ made' = made /\ lease' # NoLease /\ release' # NoRelease
      /\ UsersOnTop'
  BY <1>4, <1>5, NothingCommitted DEF Known, ReleaseAssumption, ReleaseInv, CommitsKnown
<1>8. CommitsKnown' /\ RowsPaired'
  BY <1>1, <1>4, <1>5, <1>7 DEF ReleaseInv, CommitsKnown, RowsPaired, Own, outside
<1>9. made[lease.head].sources = release.sources
  BY DEF ReleaseInv, RowsInv, HeadHasSources
<1>10. RowsInv'
  BY <1>1, <1>4, <1>5, <1>7, <1>9 DEF ReleaseInv, RowsInv, HeadHasSources,
     LeftIsSealed, SealHolds, PublishedIsVerified, GatesPassed, Under, Own, outside
<1> QED BY <1>6, <1>8, <1>10, JobOver DEF ReleaseInv, End

\* The steps of a publication that find it merged, or write it at the end.
LEMMA PublicationEnds ==
  ASSUME ReleaseAssumption, ReleaseInv, FindPull \/ PublishWrite
  PROVE  ReleaseInv'
<1>1. CASE Stop
  BY <1>1, CommandEnds
<1>2. CASE FindPull /\ ~Stop
  <2>1. /\ job.pc = "find" /\ release # NoRelease /\ release.state = "SEALED"
        /\ Own(lease.head) /\ lease.head # NoSha
    <3>1. job.pc = "find" /\ release # NoRelease /\ release.state = "SEALED"
      BY <1>2 DEF FindPull, At, ReleaseInv, JobInv, ReleaseOfJob
    <3>2. Own(lease.head)
      BY <3>1 DEF ReleaseInv, RowsPaired, CommitsKnown
    <3> QED BY <3>1, <3>2, ShaTypes DEF ReleaseInv, Own
  <2>2. CASE /\ MergedAlready /\ End /\ UNCHANGED <<made, tree, verified, outside>>
             /\ reg' = PublishRelease(reg, Bridge, TargetPr, lease.head, pull.base)
    <3>1. GatesPassed(lease.head) /\ made[lease.head].base = release.verified
      <4>1. Under(lease.head) = lease.head /\ lease.head \in {remote, pull.head} \ {NoSha}
        BY <2>1, <2>2 DEF MergedAlready, Own, Under
      <4> QED BY <4>1 DEF ReleaseInv, RowsInv, LeftIsSealed
    <3> QED BY <2>1, <2>2, <3>1, PublicationWritten DEF MergedAlready
  <2>3. CASE /\ UNCHANGED <<reg, made, tree, verified, outside>>
             /\ \/ Go("check") /\ job.target # release.verified
                \/ Go("ready") /\ job.target = release.verified /\ tree.head = lease.head
    BY <2>1, <2>3, PublicationGoesOn DEF At
  <2> QED BY <1>2, <2>2, <2>3 DEF FindPull
<1>3. CASE PublishWrite /\ ~Stop
  <2>1. job.pc = "write"
    BY <1>3 DEF PublishWrite, At
  <2>2. /\ release # NoRelease /\ release.state = "SEALED" /\ GatesPassed(lease.head)
        /\ job.target = release.verified /\ made[lease.head].base = job.target
    BY <2>1 DEF ReleaseInv, JobInv, ReleaseOfJob, CommitOfJob, Publishing
  <2> QED BY <1>3, <2>2, PublicationWritten DEF PublishWrite
<1> QED BY <1>1, <1>2, <1>3

-----------------------------------------------------------------------------
(* The head leaves the machine. *)

\* What is pushed, and what the pull request is of, is the sealed and verified head.
LEMMA HeadLeaves ==
  ASSUME ReleaseAssumption, ReleaseInv, JobInv',
         release # NoRelease, release.state = "SEALED",
         GatesPassed(lease.head), made[lease.head].base = release.verified,
         NEW h \in Known, Under(h) = lease.head, h \in Sha \cup {NoSha},
         remote' \in {remote, h},
         pull' \in [state : {"NONE", "OPEN", "MERGED", "CLOSED"},
                    head : Sha \cup {NoSha}, base : Sha \cup {NoSha}],
         pull'.head \in {pull.head, h}, pull'.state = "NONE" => pull'.head = NoSha,
         UNCHANGED <<reg, made, tree, target, live, verified>>
  PROVE  ReleaseInv'
<1>1. Known' = Known /\ lease' = lease /\ release' = release
  BY DEF Known, lease, release
<1>2. TypeOK'
  BY DEF ReleaseInv, TypeOK
<1>3. CommitsKnown' /\ RowsPaired'
  BY <1>1 DEF ReleaseInv, CommitsKnown, RowsPaired, UsersOnTop, Own
<1>4. HeadHasSources' /\ SealHolds' /\ PublishedIsVerified'
  BY <1>1 DEF ReleaseInv, RowsInv, HeadHasSources, SealHolds, PublishedIsVerified, GatesPassed,
     Under, Own
<1>5. LeftIsSealed'
  <2> SUFFICES ASSUME NEW head \in {remote', pull'.head} \ {NoSha}
               PROVE  /\ release # NoRelease /\ release.state # "OPEN"
                      /\ GatesPassed(Under(head))
                      /\ made[Under(head)].sources = release.sources
                      /\ Under(head) = lease.head => made[lease.head].base = release.verified
    BY <1>1 DEF LeftIsSealed, GatesPassed, Under
  <2>1. made[lease.head].sources = release.sources
    BY DEF ReleaseInv, RowsInv, HeadHasSources
  <2>2. CASE head = h
    BY <2>1, <2>2
  <2>3. CASE head \in {remote, pull.head}
    BY <2>3 DEF ReleaseInv, RowsInv, LeftIsSealed
  <2> QED BY <2>2, <2>3
<1> QED BY <1>2, <1>3, <1>4, <1>5 DEF ReleaseInv, RowsInv

LEMMA Published ==
  ASSUME ReleaseAssumption, ReleaseInv, PushBranch \/ OpenPull
  PROVE  ReleaseInv'
<1>1. /\ job # NoJob /\ job.pc \in {"push", "pull"} /\ job \in Job
      /\ release # NoRelease /\ release.state = "SEALED" /\ release \in Release
      /\ GatesPassed(lease.head) /\ Own(lease.head)
      /\ tree.head \in Known /\ Under(tree.head) = lease.head
      /\ job.target = release.verified /\ made[lease.head].base = release.verified
      /\ job.pc = "pull" => remote \in Known /\ Under(remote) = lease.head
      /\ UNCHANGED <<reg, made, tree, target, live, verified>>
  BY RowTypes DEF PushBranch, OpenPull, At, NoJob, ReleaseInv, JobInv, JobType, ReleaseOfJob,
     CommitOfJob, Publishing, RowsPaired, CommitsKnown
<1>2. /\ pull \in [state : {"NONE", "OPEN", "MERGED", "CLOSED"},
                   head : Sha \cup {NoSha}, base : Sha \cup {NoSha}]
      /\ pull.state = "NONE" => pull.head = NoSha
      /\ target \in Sha /\ tree.head \in Sha \cup {NoSha} /\ remote \in Sha \cup {NoSha}
      /\ lease.head \in Sha \cup {NoSha} /\ lease \in Lease
  BY <1>1, RowTypes DEF ReleaseInv, TypeOK, RowsInv, LeftIsSealed, RowsPaired, Lease
<1>3. /\ lease' = lease /\ release' = release /\ target' = target /\ tree' = tree
      /\ made' = made /\ verified' = verified /\ Known' = Known
      /\ GatesPassed(lease.head)' /\ Under(tree.head)' = lease.head
  BY <1>1 DEF lease, release, Known, GatesPassed, Under
<1>4. ASSUME NEW p \in {"pull", "write"}, Go(p), remote' \in Known, Under(remote)' = lease.head
      PROVE  JobInv'
  <2>1. /\ JobType' /\ job'.pc = p /\ job'.command = job.command
        /\ job'.sources = job.sources /\ job'.target = job.target
    BY <1>1, <1>4, JobGoes DEF Pc, Command
  <2>2. job.command = "publish" /\ job.sources = release.sources
    BY <1>1 DEF ReleaseInv, JobInv, ReleaseOfJob, Publishing
  <2>3. ReleaseOfJob' /\ TargetOfJob' /\ CommitOfJob'
    BY <1>1, <1>3, <1>4, <2>1, <2>2 DEF ReleaseOfJob, TargetOfJob, CommitOfJob,
       Building, Rebuilt, Publishing, Command
  <2> QED BY <2>1, <2>3 DEF JobInv
<1>5. CASE job' = NoJob
  <2>1. UNCHANGED <<remote, pull>>
    BY <1>1, <1>5 DEF PushBranch, OpenPull, Go, NoJob, Job
  <2> QED BY <1>1, <1>5, <2>1, JobOver, CommandMoves
<1>6. CASE PushBranch /\ job' # NoJob
  <2>1. PICK h \in {lease.head, tree.head} :
          /\ Go("pull") /\ remote' = h
          /\ pull' = IF pull.state = "OPEN"
                       THEN [pull EXCEPT !.head = remote', !.base = target] ELSE pull
    BY <1>1, <1>6 DEF PushBranch, End
  <2>2. h \in Known /\ Under(h) = lease.head /\ h \in Sha \cup {NoSha}
    BY <1>1, <1>2 DEF Own, Under
  <2>3. /\ pull' \in [state : {"NONE", "OPEN", "MERGED", "CLOSED"},
                      head : Sha \cup {NoSha}, base : Sha \cup {NoSha}]
        /\ pull'.head \in {pull.head, h} /\ (pull'.state = "NONE" => pull'.head = NoSha)
    BY <1>2, <2>1, <2>2
  <2>4. Under(remote)' = lease.head
    BY <1>3, <2>1, <2>2 DEF Under
  <2> QED BY <1>1, <1>4, <2>1, <2>2, <2>3, <2>4, HeadLeaves
<1>7. CASE OpenPull
  <2>1. /\ Go("write") /\ remote' = remote /\ remote \in Known /\ Under(remote) = lease.head
        /\ pull' = IF pull.state = "NONE"
                     THEN [state |-> "OPEN", head |-> remote, base |-> target] ELSE pull
    BY <1>1, <1>7 DEF OpenPull, At
  <2>2. /\ pull' \in [state : {"NONE", "OPEN", "MERGED", "CLOSED"},
                      head : Sha \cup {NoSha}, base : Sha \cup {NoSha}]
        /\ pull'.head \in {pull.head, remote} /\ (pull'.state = "NONE" => pull'.head = NoSha)
    BY <1>2, <2>1
  <2>3. Under(remote)' = lease.head
    BY <1>3, <2>1 DEF Under
  <2> QED BY <1>1, <1>2, <1>4, <2>1, <2>2, <2>3, HeadLeaves
<1> QED BY <1>5, <1>6, <1>7

-----------------------------------------------------------------------------
(* The specification. *)

LEMMA ReleaseInit == ReleaseAssumption /\ Init => ReleaseInv
<1> SUFFICES ASSUME ReleaseAssumption, Init  PROVE ReleaseInv
  OBVIOUS
<1>1. lease = NoLease /\ release = NoRelease /\ job = NoJob /\ reg \in Registry
  BY DEF Init, ReleaseAssumption, lease, release, Registry
<1> DEFINE first == [base |-> NoSha, sources |-> <<>>, on |-> NoSha]
<1>2. made \in Seq(CommitRow) /\ Len(made) = 1 /\ made[1] = first
  <2>1. made = <<first>> /\ first \in CommitRow
    BY DEF Init, CommitRow
  <2> HIDE DEF first
  <2> QED BY <2>1
<1>3. TypeOK
  BY <1>1, <1>2 DEF Init, TypeOK, CommitRow, NoPull, ReleaseAssumption
<1>4. CommitsKnown
  BY <1>1, <1>2 DEF Init, CommitsKnown, UsersOnTop, Own, Known, NoPull
<1>5. RowsPaired /\ RowsInv
  BY <1>1 DEF Init, RowsPaired, RowsInv, HeadHasSources, LeftIsSealed, SealHolds,
     PublishedIsVerified, NoPull
<1>6. JobInv
  BY <1>1 DEF JobInv, JobType, ReleaseOfJob, TargetOfJob, CommitOfJob, NoJob, Building, Rebuilt,
     Publishing, Command
<1> QED BY <1>3, <1>4, <1>5, <1>6 DEF ReleaseInv

LEMMA ReleaseStep ==
  ASSUME ReleaseAssumption, ReleaseInv, [Next]_vars
  PROVE  ReleaseInv'
<1>1. CASE Start
  BY <1>1, CommandBegins
<1>2. CASE OpenNew \/ OpenAgain \/ AddWorktree
  BY <1>2, Opened, CommandReads, WorktreeAdded
<1>3. CASE AddAgain \/ AddStage \/ AddRefused \/ Recover \/ Accept
  BY <1>3, CommandReads, Staged, CandidateFound, Accepted
<1>4. CASE RebuildCheck \/ ResetToTarget \/ ApplyPatches \/ CommitRebuilt \/ RollBack
  BY <1>4, RebuildChecked, TreeRebuilt, RebuildCommitted
<1>5. CASE Record \/ Verify \/ Drift
  BY <1>5, Recorded, Verified, DriftSeen
<1>6. CASE Seal \/ SealRefused \/ Sealed
  BY <1>6, CommandReads, SealWritten
<1>7. CASE Publish \/ FindPull \/ PushBranch \/ OpenPull \/ PublishWrite
  BY <1>7, PublicationBegins, PublicationEnds, Published
<1>8. CASE PublishReady
  BY <1>8, CommandEnds, PublicationGoesOn DEF PublishReady
<1>9. CASE PublishFails \/ Crash
  BY <1>9, CommandEnds DEF PublishFails
<1>10. CASE World
  BY <1>10, ProductionMoves, UsersAct, UserCommits DEF World
<1>11. CASE UNCHANGED vars
  BY <1>11 DEF vars, ReleaseInv, TypeOK, CommitsKnown, RowsPaired, RowsInv, HeadHasSources,
     LeftIsSealed, SealHolds, PublishedIsVerified, JobInv, JobType, ReleaseOfJob, TargetOfJob,
     CommitOfJob, Made, UsersOnTop, Own, GatesPassed, Under, Known, lease, release
<1> QED BY <1>1, <1>2, <1>3, <1>4, <1>5, <1>6, <1>7, <1>8, <1>9, <1>10, <1>11 DEF Next, Work

LEMMA ReleaseInvariant == ReleaseAssumption /\ Spec => []ReleaseInv
<1>1. CASE ReleaseAssumption
  <2>1. ReleaseInv /\ [Next]_vars => ReleaseInv'
    BY <1>1, ReleaseStep
  <2>2. QED BY <1>1, <2>1, ReleaseInit, PTL DEF Spec
<1>2. QED BY <1>1

(* The rows, the commits, the worktree and GitHub as worktrees/service.py  *)
(* sees them are well typed in every state.                                *)
THEOREM ReleaseTypes == ReleaseAssumption /\ Spec => []TypeOK
BY ReleaseInvariant, PTL DEF ReleaseInv

(* The registered head of a bridge is built from its accepted sources in   *)
(* their order (_rebuild_release_bridge, accept_release_source): no crash  *)
(* of `awf wt release add` between the staging, the rebuild and the two    *)
(* rows lets a staged source into it.                                      *)
THEOREM HeadIsOfItsSources == ReleaseAssumption /\ Spec => []HeadHasSources
<1>1. ReleaseInv => HeadHasSources
  BY DEF ReleaseInv, RowsInv
<1> QED BY <1>1, ReleaseInvariant, PTL

(* What is on origin is a sealed head over which the gates have passed, or *)
(* a user's commit on top of it, committed in the managed worktree after   *)
(* publish last compared HEAD (service.py:2513) and before it pushed       *)
(* (git.py:1345); and a published release names a commit of the program's  *)
(* over which the gates have passed, and the production commit it was      *)
(* built on (`awf wt release publish`), whatever production, GitHub, users *)
(* and crashes do while it runs.                                           *)
THEOREM NothingUnverifiedLeaves == ReleaseAssumption /\ Spec => []OnlyVerifiedLeaves
<1>1. ReleaseInv => OnlyVerifiedLeaves
  BY DEF ReleaseInv, RowsInv, LeftIsSealed, PublishedIsVerified, OnlyVerifiedLeaves, Own
<1> QED BY <1>1, ReleaseInvariant, PTL

=============================================================================
