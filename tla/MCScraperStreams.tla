--------------------------- MODULE MCScraperStreams ---------------------------
\* One query variant: over the two sources that need no server of one's own, or
\* over DuckDuckGo and a SearXNG instance.
EXTENDS ScraperStreams, TLC

CONSTANTS ddg, osm, sxg

MCSource ==
  [p \in Pump |-> CASE p = ddg -> "duckduckgo" [] p = osm -> "overpass" [] p = sxg -> "searxng"]
=============================================================================
