------------------------------- MODULE MCBridges -------------------------------
(***************************************************************************)
(* The bridges to Discord and WhatsApp and the terminal's chat on one      *)
(* instance each.  They share no state, so a behaviour is one of one part, *)
(* and the other parts stay in their initial states.                       *)
(***************************************************************************)
EXTENDS LiveVoice, VoicePlayback, DiscordText, WhatsApp, TerminalChat

CONSTANTS
  Bridges,  \* the parts of the run
  Budget    \* bound: what happens in the terminal

VARIABLE bridge

bridgeVars == <<bridge, voiceVars, playbackVars, textVars, waVars, terminalVars>>

BridgesInit ==
  /\ bridge \in Bridges
  /\ VoiceInit /\ PlaybackInit /\ TextInit /\ WaInit /\ TerminalInit

\* A second submission or a cancellation counts three times, a scroll twice.
Used ==
  3 * (Cardinality({a \in Agents \ {1} : agents'[a].at # "idle"}) + cancels') + 2 * scrolls'
    + FoldSet(LAMBDA a, n : n + (IF agents'[a].at = "idle" THEN 0 ELSE agents'[a].pieces), 0, Agents)

BridgesNext ==
  /\ UNCHANGED bridge
  /\ \/ bridge = "voice" /\ VoiceNext /\ UNCHANGED <<playbackVars, textVars, waVars, terminalVars>>
     \/ bridge = "playback" /\ PlaybackNext /\ UNCHANGED <<voiceVars, textVars, waVars, terminalVars>>
     \/ bridge = "discord" /\ TextNext /\ UNCHANGED <<voiceVars, playbackVars, waVars, terminalVars>>
     \/ bridge = "whatsapp" /\ WaNext /\ UNCHANGED <<voiceVars, playbackVars, textVars, terminalVars>>
     \/ bridge = "terminal" /\ TerminalNext /\ Used <= Budget
        /\ UNCHANGED <<voiceVars, playbackVars, textVars, waVars>>

\* Nothing that VoiceFairness names is enabled in VoiceInit: it asks nothing
\* of the behaviours of the other bridges.
BridgesSpec == BridgesInit /\ [][BridgesNext]_bridgeVars /\ VoiceFairness

\* The type invariant of the bridge that runs.
BridgesTypeOK ==
  /\ bridge = "voice" => VoiceTypeOK
  /\ bridge = "playback" => PlaybackTypeOK
  /\ bridge = "discord" => TextTypeOK
  /\ bridge = "whatsapp" => WaTypeOK
  /\ bridge = "terminal" => TerminalTypeOK

\* A call owns its voice connection, its conversation and its row, the sound it has
\* not sent yet has a timer, a conversation has one turn at a time, what a reply
\* consists of reaches its chat in order, and what is reported completed has been
\* forwarded (LiveVoice, VoicePlayback, DiscordText, WhatsApp).
BridgesDeliver ==
  /\ VoiceIsOwned /\ BufferedFrameIsTimed
  /\ TurnsAreExclusive
  /\ ForwardedInOrder /\ CompletedIsForwarded
===============================================================================
