SPECIFICATION Spec
CONSTANTS
    s1 = s1  s2 = s2  u1 = u1  u2 = u2  u3 = u3  u4 = u4
    Submitters = {s1, s2}
    Urls = {u1, u2, u3}
    UrlsOf <- SharedUrls
    BannedHosts = {u2}
    BadProtocols = {}
INVARIANT UrlsUnique
