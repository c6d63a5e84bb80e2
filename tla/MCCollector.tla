----------------------------- MODULE MCCollector -----------------------------
(***************************************************************************)
(* Instances of Collector for TLC.                                         *)
(***************************************************************************)
EXTENDS Collector, TLC

CONSTANTS uusd, prism, yluna

\* yLuna trades on Prismswap, against PRISM or directly; ANC on Astroport; the base
\* denom against PRISM.
MCPairs == {{uusd, prism}, {yluna, prism}, {yluna, uusd}}
=============================================================================
