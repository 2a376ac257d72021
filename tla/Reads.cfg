\* A request of any of five kinds, and two changes of what it reads meanwhile.
CONSTANTS
    me = me  ana = ana  page = page  banana = banana  namesake = namesake  aide = aide
    direct = direct  channel = channel  x = x  y = y
    photo = photo  voice = voice  clip = clip  caption = caption  remark = remark
    Nil = Nil
    Entities = {me, ana, page}  Nameless = {}  Slugless = {page}
    Zero = 0  Windows = {2}  MaxChanges = 2  MaxTurns = 1
    ChatMessages = {1, 2, 3, 4, 5, 6}  Chat = {1, 2, 3, 5, 6}
    Unreadable = {5}  Replies = {2, 3, 6}
    Target <- TargetValue  SenderOf <- SenderValue  Caller = me
    ChatGrants <- ChatGrantsValue  Collections = {{1, 2, 3, 4, 5}}  Gone = {1}
    Posts = {10, 11}  Communities = {x, y}  Comments = {1, 2, 3, 4}
    PostOf <- PostOfValue  PostStates <- PostStatesValue  RealmStates <- RealmStatesValue
    MediaMessages = {1, 2, 10}  Conversations = {direct, channel}
    Holding <- HoldingValue  KindOf <- KindOfValue
    MediaGrants <- MediaGrantsValue  Requests <- RequestsValue
    Documents = {photo, voice, clip, caption, remark}
    Subject <- SubjectValue  Family <- FamilyValue  LateDocuments = {clip}
    Post = 10  Starting = {1, 2, 3}  AuthorOf <- AuthorValue
    Anonymous = {3}  Answers = {3, 4}  Empty = {4}
    Notices = {21, 22, 23, 24, 25, 26}  Mention <- MentionValue  Sort <- SortValue
    LateNotices = {23}
    Directory = {ana, banana, page, namesake, aide}  Viewer = aide
    Kind <- KindValue  Handle <- HandleValue  Name <- NameValue  Alphabetical <- PlaceValue
    StandingStates <- StandingStatesValue
    Letters <- LettersValue  Lower <- LowerValue  Bytes <- BytesValue
    Queries <- QueriesValue  KindFilters = {{"realm", "robot"}, {"robot"}}  Pages = {1, 2}
    Self = me  People = {ana, page}
SPECIFICATION ReadsSpec
CHECK_DEADLOCK FALSE
INVARIANT NothingSkipped
PROPERTY AsGuarded
