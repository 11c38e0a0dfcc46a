----------------------------- MODULE MCReconStages -----------------------------
(* Small instances of ReconStages: two hosts under https, a page of the    *)
(* first host, and a page that is out of scope.                            *)
EXTENDS ReconStages

CONSTANTS h1, h2, page, out, w1, w2

AllButOut == URLs \ {out}
\* Every page links to the other page and out of the scope; the page links
\* back to the first host.
PageLinks == [u \in URLs |-> IF u = page THEN {<<h1, "https">>} ELSE {page, out}]
\* The sitemap of the first host lists its page.
PageListed == [s \in Seeds |-> IF s = <<h1, "https">> THEN {page} ELSE {}]
\* Every sitemap lists the home page, as sitemaps do.
HomeListed == [s \in Seeds |-> {s}]
=============================================================================
