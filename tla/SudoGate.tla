------------------------------ MODULE SudoGate ------------------------------
(***************************************************************************)
(* The gate in front of the stored sudo password: the browser's "sudo"     *)
(* message is honoured only after the server itself saw a prompt, once per *)
(* prompt and at most RateLimit times in RateWindow.                       *)
(***************************************************************************)
EXTENDS Integers, Sequences, FiniteSets

CONSTANTS PromptWindow, RateWindow, RateLimit, MaxTime

VARIABLES
    now,         \* the monotonic clock
    lastPrompt,  \* _last_prompt_at, -1 for None
    injections,  \* _injections: which of the passwords sent still count
    sent,        \* when a password was sent, all of them (history)
    prompts      \* the number of prompts seen (history)

vars == <<now, lastPrompt, injections, sent, prompts>>

Init == now = 0 /\ lastPrompt = -1 /\ injections = {} /\ sent = <<>> /\ prompts = 0

Tick == now < MaxTime /\ now' = now + 1 /\ UNCHANGED <<lastPrompt, injections, sent, prompts>>

\* note_prompt, from the thread that reads the SSH channel; one per tick at most
NotePrompt ==
    /\ lastPrompt # now
    /\ Len(sent) < MaxTime /\ prompts < MaxTime + 1
    /\ lastPrompt' = now /\ prompts' = prompts + 1
    /\ UNCHANGED <<now, injections, sent>>

\* variant: injections are forgotten with the prompt's window
RecentShort(t) == t > now - PromptWindow

\* the injections that still count
Recent(t) == now - t < RateWindow

\* allow(), from the WebSocket loop: the old injections are forgotten, and a
\* granted one takes the prompt with it
Allow ==
    /\ lastPrompt # -1 /\ now - lastPrompt <= PromptWindow
    /\ LET counted == {i \in injections : Recent(sent[i])}
       IN  IF Cardinality(counted) >= RateLimit
           THEN injections' = counted /\ UNCHANGED <<lastPrompt, sent>>
           ELSE /\ injections' = counted \cup {Len(sent) + 1}
                /\ sent' = Append(sent, now)
                /\ lastPrompt' = -1
    /\ UNCHANGED <<now, prompts>>

Next == Tick \/ NotePrompt \/ Allow

Spec == Init /\ [][Next]_vars

----------------------------------------------------------------------------
\* Whatever prompts come and go, no window of RateWindow ticks has seen more
\* than RateLimit passwords, although allow() keeps only a pruned list.
RateKept ==
    \A t \in 0..now :
        Cardinality({i \in 1..Len(sent) : sent[i] <= t /\ t - sent[i] < RateWindow}) <= RateLimit

\* One prompt authorises one injection.
OnePerPrompt == Len(sent) <= prompts
=============================================================================
