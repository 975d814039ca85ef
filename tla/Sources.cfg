\* All the providers, four posts or pushes, windows of two, single-item pages of the tool, one fault.
CONSTANTS
  Kinds = {"rss", "github_issues", "github_comments", "github_forks", "github_discussion", "github_sponsors", "youtube_comments"}
  Width = 2
  Replies = 1
  Grace = 0
  PageSize = 1
  MaxPages = 3
  MaxTime = 4
  MaxFaults = 1
SPECIFICATION Spec
INVARIANTS
  SourceInvariant
  CatchUpIsComplete
PROPERTIES
  NewPostsAreAnnounced
