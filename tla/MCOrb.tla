-------------------------------- MODULE MCOrb --------------------------------
(* Small instances of OrbSystem: the sets its configurations choose from.    *)
EXTENDS OrbSystem

VoiceKinds == {"connect", "speech"}
AllKinds == Kinds
AssetKinds == {"connect", "assets"}
AssetVoiceKinds == {"connect", "assets", "speech"}
Uploads == {"speech", "event", "assets"}
SpeechOnly == {"speech"}
None == {}
OneFile == {"idle.bin"}
TwoFiles == {"idle.bin", "talk.bin"}
=============================================================================
