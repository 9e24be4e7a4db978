------------------------------- MODULE Updates -------------------------------
(***************************************************************************)
(* platform/UpdateChecker.cpp: asking for the latest release, downloading  *)
(* its installer and running it.  The answers come when they come, and a   *)
(* new release may be published in between.                                *)
(***************************************************************************)
EXTENDS Naturals, Sequences

CONSTANTS
  Version,       \* DREAMDSP_VERSION, as its three numbers
  Releases,      \* [version, exe: there is an installer on an allowed host,
                 \*  sha: the notes carry its hash, draft]
  NoRelease,
  MaxAnswers     \* how many replies are awaited in one run

VARIABLES
  published,     \* the release the server calls the latest
  asking,        \* the reply that is awaited: "nothing", "release", "installer"
  busy,          \* m_busy
  latest,        \* m_latestVersion, by its release
  asset,         \* m_assetUrl and m_assetName, by the release that has them
  expected,      \* m_expectedSha256, by the release whose installer hashes to it
  available,     \* m_updateAvailable
  downloaded,    \* m_downloadedPath, by the release the file is the installer of
  launched,      \* what installNow has started
  answers

updateVars == <<published, asking, busy, latest, asset, expected, available,
                downloaded, launched, answers>>

\* compareVersions: numbers, one component at a time.
Older(a, b) ==
  \E i \in 1..3 : a[i] < b[i] /\ \A j \in 1..(i - 1) : a[j] = b[j]

UpdatesInit ==
  /\ published \in Releases
  /\ asking = "nothing" /\ busy = FALSE
  /\ latest = NoRelease /\ asset = NoRelease /\ expected = NoRelease
  /\ available = FALSE
  /\ downloaded = NoRelease /\ launched = NoRelease
  /\ answers = 0

Publish(r) ==
  /\ r # published /\ Older(published.version, r.version)
  /\ published' = r
  /\ UNCHANGED <<asking, busy, latest, asset, expected, available, downloaded, launched, answers>>

Ask(what) ==
  /\ answers < MaxAnswers /\ answers' = answers + 1
  /\ busy' = TRUE /\ asking' = what

\* The button, or the timer four seconds after the start.
CheckNow ==
  /\ ~busy
  /\ Ask("release")
  /\ UNCHANGED <<published, latest, asset, expected, available, downloaded, launched>>

Answer == busy' = FALSE /\ asking' = "nothing" /\ UNCHANGED answers

\* No answer, or none that can be read, or a draft: what was known stays.
CheckFails ==
  /\ asking = "release"
  /\ Answer
  /\ UNCHANGED <<published, latest, asset, expected, available, downloaded, launched>>

\* Mutant of CheckFinished: the fields of the last release are kept where the
\* new one has none.
CheckFinishedKeeping ==
  /\ asking = "release" /\ ~published.draft
  /\ Answer
  /\ latest' = published
  /\ asset' = IF published.exe THEN published ELSE asset
  /\ expected' = IF published.exe /\ published.sha THEN published ELSE expected
  /\ available' = (Older(Version, published.version) /\ asset' # NoRelease
                   /\ expected' # NoRelease)
  /\ UNCHANGED <<published, downloaded, launched>>

\* onCheckFinished.  A newer release without an installer is announced all the
\* same; one whose notes carry no hash is not.
CheckFinished ==
  /\ asking = "release" /\ ~published.draft
  /\ Answer
  /\ latest' = published
  /\ asset' = IF published.exe THEN published ELSE NoRelease
  /\ expected' = IF published.exe /\ published.sha THEN published ELSE NoRelease
  /\ available' = (Older(Version, published.version) /\ (asset' # NoRelease => expected' # NoRelease))
  /\ UNCHANGED <<published, downloaded, launched>>

\* The button is there for an available update that is not downloaded.
Download ==
  /\ available /\ downloaded = NoRelease
  /\ ~busy /\ asset # NoRelease /\ expected # NoRelease
  /\ Ask("installer")
  /\ downloaded' = NoRelease
  /\ UNCHANGED <<published, latest, asset, expected, available, launched>>

\* An error, a redirection to another host, an empty file, a hash that is not
\* the expected one, a file that cannot be opened.
DownloadFails ==
  /\ asking = "installer"
  /\ Answer
  /\ UNCHANGED <<published, latest, asset, expected, available, downloaded, launched>>

DownloadFinished ==
  /\ asking = "installer"
  /\ Answer
  /\ downloaded' = expected
  /\ UNCHANGED <<published, latest, asset, expected, available, launched>>

\* installNow, and quitRequested.
InstallNow ==
  /\ available /\ downloaded # NoRelease /\ launched = NoRelease
  /\ launched' = downloaded
  /\ UNCHANGED <<published, asking, busy, latest, asset, expected, available, downloaded, answers>>

UpdatesNext ==
  \/ \E r \in Releases : Publish(r)
  \/ CheckNow \/ CheckFails \/ CheckFinished
  \/ Download \/ DownloadFails \/ DownloadFinished \/ InstallNow

----------------------------------------------------------------------------

\* UpdateChecker.cpp:165, 206: an update that can be fetched is one release's,
\* newer than this program: its installer, its hash and its number, whatever
\* the checks before it found.  And what is run is an installer whose hash a
\* release newer than this program had published.
OneRelease ==
  /\ available /\ asset # NoRelease =>
       asset = latest /\ expected = latest /\ Older(Version, latest.version)
  /\ launched # NoRelease => launched.sha /\ Older(Version, launched.version)
=============================================================================
