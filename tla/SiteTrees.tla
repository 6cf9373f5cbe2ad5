----------------------------- MODULE SiteTrees -----------------------------
(***************************************************************************)
(* The data the site pipeline of internal/nginx/service.go moves around:   *)
(* a site's directory (site.conf plus locations/*.conf), the calls that    *)
(* replace it, and the pure operators over both.  A file's text is one of  *)
(* a few contents; what nginx -t thinks of all the directories together is *)
(* the constant Accepted.                                                  *)
(***************************************************************************)
EXTENDS Naturals, FiniteSets

CONSTANTS
    Site,         \* site ids
    Req,          \* goroutines that may call the service (handlers, scheduler)
    File,         \* file names of a site directory
    Main,         \* the name "site.conf"
    Content,      \* what a file may hold
    Empty,        \* the empty file
    NoFile,       \* "this file is not in the directory"
    NoDir,        \* "there is no such directory"
    Accepted(_),  \* Accepted(c): nginx -t exits 0 on the directories c
    Jobs,         \* the calls the environment makes, a subset of Job
    LostReply,    \* may a reload take effect and still be reported as failed?
    MaxTime       \* bound on the clock, in seconds

Time == 0..MaxTime

Tree == [File -> Content \cup {NoFile}]
Dir  == Tree \cup {NoDir}

(* Trees as writeSiteTree leaves them: with a site.conf, be it empty. *)
Whole == {t \in Tree : t[Main] # NoFile}

(* The files a directory holds; dirExists is d # NoDir. *)
Files(d) == IF d = NoDir THEN {} ELSE {f \in File : d[f] # NoFile}

(* What readSiteTreeFromDir finds, as writeSiteTree will write it: a missing *)
(* directory or file is no error, and site.conf is written even when the    *)
(* bytes read for it are nil.                                               *)
\* Mutant of ReadFile: a missing site.conf stays missing.
ReadFileStrict(d, f) == IF f \in Files(d) THEN d[f] ELSE NoFile
ReadFile(d, f) == IF f \in Files(d) THEN d[f]
                  ELSE IF f = Main THEN Empty ELSE NoFile
ReadTree(d) == [f \in File |-> ReadFile(d, f)]

(* SaveSiteFile replaces one file of the tree it has just read. *)
Edited(d, f, c) == [ReadTree(d) EXCEPT ![f] = c]

(* site.conf can always be written, a location only if it is there. *)
Editable(d) == Files(d) \cup {Main}

(* The calls of the exported methods that change something. *)
ApplyJob   == [kind : {"apply"},   site : Site, tree : Whole]
RemoveJob  == [kind : {"remove"},  site : Site]
SaveJob    == [kind : {"save"},    site : Site, file : File, content : Content]
RestoreJob == [kind : {"restore"}, site : Site, at : Time]
ReloadJob  == [kind : {"reload"}]
Job == ApplyJob \cup RemoveJob \cup SaveJob \cup RestoreJob \cup ReloadJob

NoCall == [kind |-> "none"]   \* outside of any call

ASSUME TreesAssumption ==
    /\ Main \in File
    /\ Empty \in Content
    /\ NoFile \notin Content
    /\ NoDir \notin Tree
    /\ MaxTime \in Nat
    /\ LostReply \in BOOLEAN
    /\ Jobs \subseteq Job
=============================================================================
