SPECIFICATION Spec
CONSTANTS
    tmp = tmp
    home = home
    mem = mem
    cli = cli
    web = web
    Exact = {tmp, home}
    Star = {mem}
    Rank <- MCRank
    Appliers = {cli}
INVARIANT
    AppliedIsSecure
