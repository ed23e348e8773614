----------------------------- MODULE MCHistory ------------------------------
(***************************************************************************)
(* The stored history of a session for TLC.  A behaviour tells a story:    *)
(* the messages it is of, and what happens beside the run that emits them. *)
(***************************************************************************)
EXTENDS SessionHistory

VARIABLES story,  \* what the behaviour is about
          broken  \* a failure has happened

storyVars == <<historyVars, story, broken>>

(* A user's message, a tool call, a segment of an answer and an error. *)
MCKind == [m \in Messages |-> CASE m = "u" -> "user" [] m = "t" -> "tool"
                                [] m = "s" -> "segment" [] OTHER -> "error"]
MCRunOf == [m \in Messages |-> CHOOSE r \in Runs : TRUE]
MCLast == [m \in Messages |-> IF m \in {"t", "s"} THEN 2 ELSE 1]

Story(of, n, with) == [of |-> of, records |-> n, with |-> with]
Stories == {Story({"u", "t", "s"}, 2, {"cuts"}),
            Story({"t", "e"}, 2, {"cuts"}),
            Story({"u", "s"}, 3, {"updates", "cuts"}),
            Story({"u", "s"}, 2, {"cuts", "failures"}),
            Story({"u"}, 2, {"updates", "cuts", "failures"}),
            Story({"u", "s"}, 3, {"readers"}),
            Story({"s"}, 2, {"readers", "cuts"}),
            Story({"u"}, 2, {"readers", "cuts", "updates"}),
            Story({"t"}, 2, {"readers", "failures"})}

Fits(s) ==
  /\ \A m \in Messages \ s.of : copied[m] + sent[m] = 0
  /\ "readers" \in s.with \/ \A v \in Viewers : viewer[v].pc = "closed"
  /\ "updates" \in s.with \/ job.kind # "update"
  /\ "cuts" \in s.with \/ job.kind \notin {"truncate", "clear"}
  /\ Len(records) <= s.records

(* The job ends here whatever fails. *)
Ends == \/ job.pc = "staged" /\ Len(records) # tail
        \/ job.pc = "written" /\ ~Bindable
        \/ job.pc = "replace" /\ ~Replaceable
        \/ job.pc = "flush" /\ ui.rev = ui.committed
        \/ job.pc = "cut" /\ Splits
        \/ job.pc = "erase" /\ row.gen # ui.gen

(* A step that only a failure allows: it ends an operation, a run or the   *)
(* process before its time.                                                *)
Breaks ==
  \/ /\ job # NoJob /\ job' = NoJob /\ ~Ends
     /\ \/ WriteFails \/ RewriteFails \/ CutFails \/ EraseFails \/ PruneFails
        \/ DropJob
  \/ flushing # NoFlush /\ flushing' = NoFlush /\ RowMatches /\ FlushFails
  \/ job # job' /\ ui # ui' /\ BeginClear
  \/ uiRun # uiRun' /\ \E r \in Runs : DropRun(r)
  \/ viewer' = [v \in Viewers |-> Closed] /\ Held /\ Reload

InitStory == InitHistory /\ story \in Stories /\ broken = FALSE

(* One failure in a behaviour at most. *)
NextStory ==
  /\ NextHistory
  /\ UNCHANGED story
  /\ Fits(story)'
  /\ broken' = (broken \/ Breaks)
  /\ broken' => "failures" \in story.with
  /\ broken => ~Breaks

StorySpec == InitStory /\ [][NextStory]_storyVars
=============================================================================
