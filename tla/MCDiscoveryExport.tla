-------------------------- MODULE MCDiscoveryExport --------------------------
(* Instances of DiscoveryExport for TLC. *)
EXTENDS DiscoveryExport

CONSTANTS audio, out, level, mute, device    \* keys of addresses

SomeKeys == {audio, out, level, mute, device}

\* A tree that just fits: as many nodes and levels as the bounds allow.
Fitting ==
    <<audio>> :> "container" @@ <<audio, out>> :> "container"
    @@ <<audio, out, level>> :> "leaf" @@ <<audio, out, mute>> :> "leaf"
    @@ <<device>> :> "container" @@ <<device, level>> :> "leaf"

\* One level more, and one node more.
TooDeep ==
    <<audio>> :> "container" @@ <<audio, out>> :> "container"
    @@ <<audio, out, level>> :> "container" @@ <<audio, out, level, mute>> :> "leaf"

TooWide == Fitting @@ <<mute>> :> "leaf"

SomeTrees == {Fitting, TooDeep, TooWide}

SomeKnown == {<<audio, out, level>>, <<mute>>}

=============================================================================
